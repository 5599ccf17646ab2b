---------------------------- MODULE NamedCopies ----------------------------
(***************************************************************************)
(* Copying what has a name into an environment that has names of its own:  *)
(* env_merge (env_ops/merge.py) and env_import into an existing            *)
(* environment (env_ops/import_.py).  Tags, entities, aliases and the      *)
(* mentions of entities by memories are inserted in one transaction; an    *)
(* entity whose name is taken gets a name nobody asks for, and is merged   *)
(* into the one that has it by an entity_merge call of its own afterwards, *)
(* while callers of the target upsert and merge entities.                  *)
(***************************************************************************)
EXTENDS Naturals, FiniteSets, Functions

CONSTANTS
    Entries,      \* entities of the source, numbers below 10
    Natives,      \* entities of the target, numbers from 10 to 99
    EntityNames,  \* normalized names, of entities and aliases
    OldNames,     \* EntityNames of the Entries
    CopyModes,    \* entity_strategy of env_merge, or mode of env_import
    MaxTurns      \* bound: changes by callers

\* The name of a copy whose own is taken, "<name> merge <uuid>".
Unasked == ""

ASSUME NamedCopiesAssumption ==
    /\ Entries \subseteq 1 .. 9 /\ Natives \subseteq 10 .. 99 /\ MaxTurns \in Nat
    /\ OldNames \in [Entries -> EntityNames] /\ IsInjective(OldNames)
    /\ Unasked \notin EntityNames
    /\ CopyModes \subseteq {"by_canonical_key", "keep_both",
                            "fail", "skip", "overwrite", "merge"}

VARIABLES
    source,     \* the source's aliases; its one memory mentions every entity
    entity,     \* entity[i]: name and version of an entity of the target
    alias,      \* alias[n]: the entity with the alias n
    mentions,   \* <<memory, entity>>: "copy" is the source's memory, "own" one here
    tagged,     \* memories with the tag that both environments know
    copier,     \* the operation
    heir,       \* history: what became of each entity by merging
    turns       \* changes by callers so far

names == <<entity, alias, mentions, heir>>
copyVars == <<source, names, tagged, copier, turns>>

CopyOf(e) == 100 + e

Entities == DOMAIN entity
Having(n) == {i \in Entities : entity[i].name = n}
WithAlias(n) == IF n \in DOMAIN alias THEN {alias[n]} ELSE {}
Resolved(n) == Having(n) \cup WithAlias(n)

AtMostOneAlias(S) == UNION {[A -> S] : A \in {B \in SUBSET EntityNames : Cardinality(B) <= 1}}

CopyInit ==
    /\ source \in AtMostOneAlias(Entries)
    /\ \E f \in [Natives -> EntityNames] :
         IsInjective(f) /\ entity = [i \in Natives |-> [name |-> f[i], ver |-> 1]]
    /\ alias \in AtMostOneAlias(Natives)
    /\ mentions = {"own"} \X Natives
    /\ tagged = {"own"}
    /\ copier = [at |-> "idle"]
    /\ heir = [i \in Natives |-> i]
    /\ turns = 0

-----------------------------------------------------------------------------
(* The rows, in one transaction                                            *)

Taken(n) == Having(n) # {}
Colliding == {e \in Entries : Taken(OldNames[e])}

\* import's overwrite deletes the entities with these names; rows that point
\* to them go with them.
Deleted(mode) ==
    IF mode = "overwrite" THEN UNION {Having(OldNames[e]) : e \in Entries} ELSE {}

CopiedRows(mode) == IF mode = "skip" THEN Entries \ Colliding ELSE Entries

\* The merges to follow, <<keep, merge>>: what has the name, and the copy.
Pending(mode) ==
    IF mode \notin {"by_canonical_key", "merge"} THEN {}
    ELSE {p \in Natives \X {CopyOf(e) : e \in Colliding} : p[1] \in Having(OldNames[p[2] - 100])}

NameOf(mode, e) ==
    IF e \in Colliding /\ mode # "overwrite" THEN Unasked ELSE OldNames[e]

\* An alias is left out where the name has an owner: env_merge looks at aliases
\* and entities, env_import at aliases, in the modes that look.
Skipped(mode, n) ==
    CASE mode \in {"by_canonical_key", "keep_both"} ->
           n \in DOMAIN alias \/ Taken(n)
             \/ \E e \in Entries : NameOf(mode, e) = n
      [] mode \in {"skip", "merge"} -> n \in DOMAIN alias
      [] OTHER -> FALSE

\* A unique constraint fails: a name or a tag in mode fail, an alias where it
\* is not looked at.
Fails(mode) ==
    \/ mode = "fail" /\ (Colliding # {} \/ tagged # {})
    \/ \E n \in DOMAIN source : ~Skipped(mode, n) /\ WithAlias(n) \ Deleted(mode) # {}

Left(mode) == Entities \ Deleted(mode)

\* The relations of the source's memory, with the copies of its entities.
CopiedMentions(new) == {"copy"} \X new

\* The shared tag is given, left out, or taken away from its memories.
TaggedAfter(mode) ==
    CASE mode = "skip" -> tagged
      [] mode = "overwrite" -> {"copy"}
      [] OTHER -> tagged \cup {"copy"}

CopyNames(mode) ==
    LET new == {CopyOf(e) : e \in CopiedRows(mode)}
        kept == {n \in DOMAIN alias : alias[n] \in Left(mode)}
        added == {n \in DOMAIN source : source[n] \in CopiedRows(mode) /\ ~Skipped(mode, n)} IN
    /\ copier.at = "idle" /\ ~Fails(mode)
    /\ entity' = [i \in Left(mode) \cup new |->
                    IF i \in new THEN [name |-> NameOf(mode, i - 100), ver |-> 1]
                    ELSE entity[i]]
    /\ alias' = [n \in kept \cup added |->
                   IF n \in added THEN CopyOf(source[n]) ELSE alias[n]]
    /\ mentions' = {p \in mentions : p[2] \in Left(mode)} \cup CopiedMentions(new)
    /\ heir' = [i \in Natives \cup new |-> i]
    /\ tagged' = TaggedAfter(mode)
    /\ copier' = [at |-> "versions", mode |-> mode, todo |-> Pending(mode), held |-> <<>>,
                   quiet |-> TRUE]
    /\ UNCHANGED <<source, turns>>

CopyCrashes(mode) ==
    /\ copier.at = "idle" /\ Fails(mode)
    /\ copier' = [at |-> "failed", mode |-> mode, todo |-> {}, held |-> <<>>,
                   quiet |-> TRUE]
    /\ UNCHANGED <<source, names, tagged, turns>>

-----------------------------------------------------------------------------
(* The merges, one call and transaction each                               *)

\* Mutant: what points to the merged entity goes with it.
Moved_Deleted(k, m) == {p \in mentions : p[2] # m}

\* _merge_entity_graph_nodes
Moved(k, m) == {<<p[1], IF p[2] = m THEN k ELSE p[2]>> : p \in mentions}

\* entity_merge: m's aliases go over to k, except for one that is k's name.
MergeEntity(k, m) ==
    /\ entity' = [i \in Entities \ {m} |-> IF i = k THEN [entity[i] EXCEPT !.ver = @ + 1]
                                           ELSE entity[i]]
    /\ alias' = [n \in {x \in DOMAIN alias : ~(alias[x] = m /\ x = entity[k].name)} |->
                   IF alias[n] = m THEN k ELSE alias[n]]
    /\ mentions' = Moved(k, m)
    /\ heir' = [i \in DOMAIN heir |-> IF heir[i] = m THEN k ELSE heir[i]]

Versions(S) == [i \in S \cap Entities |-> entity[i].ver]
\* The oldest entity comes first.
NextPair == CHOOSE p \in copier.todo : \A q \in copier.todo : p[2] <= q[2]
Pair == {NextPair[1], NextPair[2]}
MergedState(where, rest) ==
    copier' = [copier EXCEPT !.at = where, !.todo = rest, !.held = <<>>]

\* env_import leaves out a pair of which one is gone, env_merge fails.
ReadVersions ==
    /\ copier.at = "versions" /\ copier.todo # {}
    /\ IF Pair \subseteq Entities
       THEN copier' = [copier EXCEPT !.at = "merge", !.held = Versions(Pair)]
       ELSE MergedState(IF copier.mode = "merge" THEN "versions" ELSE "failed",
                        copier.todo \ {NextPair})
    /\ UNCHANGED <<source, names, tagged, turns>>

MergePair ==
    /\ copier.at = "merge"
    /\ copier.held = Versions(Pair)
    /\ MergeEntity(NextPair[1], NextPair[2])
    /\ MergedState("versions", copier.todo \ {NextPair})
    /\ UNCHANGED <<source, tagged, turns>>

\* An error ends the operation: the rows stay, the other merges are not made.
MergeConflicts ==
    /\ copier.at = "merge" /\ copier.held # Versions(Pair)
    /\ MergedState("failed", copier.todo)
    /\ UNCHANGED <<source, names, tagged, turns>>

EndCopy ==
    /\ copier.at = "versions" /\ copier.todo = {}
    /\ MergedState("done", {})
    /\ UNCHANGED <<source, names, tagged, turns>>

\* The server dies; nothing takes the merges up again.
DieCopying ==
    /\ copier.at \in {"versions", "merge"}
    /\ MergedState("failed", copier.todo)
    /\ UNCHANGED <<source, names, tagged, turns>>

-----------------------------------------------------------------------------
(* Callers in the target                                                   *)

Caller ==
    /\ copier.at \in {"versions", "merge"} /\ turns < MaxTurns /\ turns' = turns + 1
    /\ UNCHANGED <<source, tagged>>

UpsertEntity(i) ==
    /\ Caller
    /\ entity' = [entity EXCEPT ![i].ver = @ + 1]
    /\ UNCHANGED <<alias, mentions, heir, copier>>

\* History: quiet, no caller merged anything.
MergeByCaller(k, m) ==
    /\ k # m /\ Caller
    /\ MergeEntity(k, m)
    /\ copier' = [copier EXCEPT !.quiet = FALSE]

CopyNext ==
    \/ \E mode \in CopyModes : CopyNames(mode) \/ CopyCrashes(mode)
    \/ ReadVersions \/ MergePair \/ MergeConflicts \/ EndCopy \/ DieCopying
    \/ \E i \in Entities : UpsertEntity(i)
    \/ \E k, m \in Entities : MergeByCaller(k, m)

CopySpec == CopyInit /\ [][CopyNext]_copyVars

-----------------------------------------------------------------------------
(* Properties                                                              *)

Here(i) == heir[i] \in Entities

\* From the commit on, and through every merge, conflict, crash and change by
\* callers, the copied memory mentions what became of each entity that was
\* copied, and the memory that was here what became of those here, save for
\* what overwrite deletes.
MentionsSurvive ==
    copier.at # "idle" => \A i \in DOMAIN heir :
        i > 100 \/ copier.mode # "overwrite" =>
            Here(i) /\ <<IF i > 100 THEN "copy" ELSE "own", heir[i]>> \in mentions

\* An operation that ends without an error has left each entity to be found by
\* its old name, and each alias that was copied or left out to lead somewhere,
\* unless callers merged entities or keep_both and skip asked for less.
NamesLeadToCopies ==
    copier.at = "done" /\ copier.quiet /\ copier.mode \notin {"keep_both", "skip"} =>
        /\ \A e \in Entries : heir[CopyOf(e)] \in Having(OldNames[e])
        /\ \A n \in DOMAIN source : Resolved(n) # {}

\* Copying entities into an environment that has some loses no mention and no
\* name (env_ops/merge.py, env_ops/import_.py).
NamesSurviveCopying == MentionsSurvive /\ NamesLeadToCopies

\* The inductive invariant behind its proof (ServiceProofs).
Copies == {CopyOf(e) : e \in Entries}
CopyTypeOK ==
    /\ DOMAIN source \subseteq EntityNames /\ \A n \in DOMAIN source : source[n] \in Entries
    /\ Entities \subseteq Natives \cup Copies
    /\ entity \in [Entities -> [name : EntityNames \cup {Unasked}, ver : Nat]]
    /\ DOMAIN heir \subseteq Natives \cup Copies /\ heir = [i \in DOMAIN heir |-> heir[i]]
    /\ copier.at \in {"idle", "versions", "merge", "done", "failed"}
    /\ copier.at # "idle" =>
          copier = [at |-> copier.at, mode |-> copier.mode, todo |-> copier.todo,
                    held |-> copier.held, quiet |-> copier.quiet]

BeforeCopy ==
    copier.at = "idle" =>
        /\ Entities = Natives /\ heir = [i \in Natives |-> i]
        /\ mentions = {"own"} \X Natives /\ \A n \in DOMAIN alias : alias[n] \in Natives
        /\ \A i, j \in Natives : entity[i].name = entity[j].name => i = j
        /\ \A i \in Natives : entity[i].name # Unasked

\* The merges to make: a copy is to be merged once, and a merge that was begun
\* knows a version of each of the two.
MergesToMake ==
    copier.at # "idle" =>
        /\ copier.todo \subseteq Natives \X Copies
        /\ \A p, q \in copier.todo : p[2] = q[2] => p = q
        /\ copier.at = "merge" => copier.todo # {} /\ DOMAIN copier.held = Pair
        /\ copier.at = "done" => copier.todo = {}

\* While only the operation merges entities: a name leads to the copy, or to
\* the entity that the copy is still to be merged into.
LeadsOrWill(e) ==
    \/ heir[CopyOf(e)] \in Having(OldNames[e])
    \/ \E p \in copier.todo : p[2] = CopyOf(e)
NamesOnTheWay ==
    /\ copier.at \notin {"idle", "failed"} /\ copier.quiet
    /\ copier.mode \notin {"keep_both", "skip"}
    => /\ \A e \in Entries : /\ CopyOf(e) \in DOMAIN heir /\ LeadsOrWill(e)
                             /\ heir[CopyOf(e)] \in Natives \cup {CopyOf(e)}
       /\ \A n \in DOMAIN source : Resolved(n) # {}
       /\ \A p \in copier.todo : /\ p[1] \in Having(OldNames[p[2] - 100])
                                 /\ heir[p[2]] = p[2] /\ p[2] \in Having(Unasked)

CopyInv == CopyTypeOK /\ BeforeCopy /\ MergesToMake /\ NamesOnTheWay /\ MentionsSurvive
=============================================================================
