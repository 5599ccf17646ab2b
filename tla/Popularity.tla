----------------------------- MODULE Popularity -----------------------------
(***************************************************************************)
(* The citation counters of memories: three triggers keep them with every  *)
(* change of an edge or of a status (migration 0017), and the recount pass *)
(* of the dream worker overwrites them with what it counts itself          *)
(* (dream/passes/recount.py).                                              *)
(*                                                                         *)
(* The pass reads in one READ COMMITTED transaction of many statements,    *)
(* each with a snapshot of its own, so links, status changes and hard      *)
(* deletes come between any two of them.  After the commit it rescores     *)
(* what it adjusted through memory_update.                                 *)
(***************************************************************************)
EXTENDS Naturals, FiniteSets

CONSTANTS
    Cited,        \* memories
    TaskSources,  \* graph nodes of tasks
    Citations,    \* bound: edges [type, src, dst] that callers may add; of
                  \* type "lineage" a row of memory_lineage, else a relation
    Macros,       \* {{memory:<uuid>}} macros in steps: <<playbook, memory>>
    MaxCiteEdits  \* bound: changes by callers

ASSUME CitationShapes ==
    \A e \in Citations : /\ e.src \in Cited \cup TaskSources /\ e.dst \in Cited
                         /\ e.type = "lineage" => e.src \in Cited
ASSUME NodesApart == Cited \cap TaskSources = {}
ASSUME MacrosOfMemories == Macros \subseteq Cited \X Cited
ASSUME EditBound == MaxCiteEdits \in Nat

VARIABLES
    standing,   \* standing[m]: status, superseded_by (m: none) and version
    cites,      \* committed edges; a lineage row goes from child to parent
    counted,    \* counted[m]: the four reference_count columns
    scored,     \* scored[m]: the counters that salience was computed from
    pass,       \* the recount pass
    citeEdits,  \* changes by callers so far
    triggered,  \* every change so far was one the triggers cover
    quiet       \* nothing changed since the last pass began

popVars == <<standing, cites, counted, scored, pass, citeEdits, triggered, quiet>>

Columns == {"rel_link", "lineage", "task", "playbook"}
Zero == [k \in Columns |-> 0]
NoPass == [at |-> "idle", chain |-> {}, active |-> {}, want |-> [m \in Cited |-> Zero],
           targets |-> {}, vers |-> [m \in Cited |-> 0], adjusted |-> {}, conflict |-> FALSE]

Standing(m) == standing[m].status
ActiveOnes == {m \in Cited : Standing(m) = "active"}
Column(e) == IF e.type = "lineage" THEN "lineage"
             ELSE IF e.src \in TaskSources THEN "task" ELSE "rel_link"
Counts(e) == e.type # "related_to_popular"

----------------------------------------------------------------------------
(* Triggers *)

Less(n, k) == IF n > k THEN n - k ELSE 0

\* count(*) of the edges of src that cite m in column k
Fan(src, m, k) ==
    Cardinality({e \in cites : e.src = src /\ e.dst = m /\ Counts(e) /\ Column(e) = k})

\* memories_bump_on_relation_change, memories_bump_on_lineage_change
BumpOnInsert(e) ==
    IF Counts(e) THEN [counted EXCEPT ![e.dst][Column(e)] = @ + 1] ELSE counted

\* Mutant: UPDATE ... FROM without GROUP BY adjusts each target once.
FlipBy_Once(m, t, k) == IF Fan(m, t, k) > 0 THEN 1 ELSE 0

FlipBy(m, t, k) == Fan(m, t, k)

\* memories_status_flip_decrement: to and from "stale" nothing moves.
BumpOnFlip(m, to) ==
    [t \in Cited |-> [k \in Columns |->
        IF Standing(m) = "active" /\ to \in {"retired", "superseded"}
        THEN Less(counted[t][k], FlipBy(m, t, k))
        ELSE IF to = "active" /\ Standing(m) \in {"retired", "superseded"}
        THEN counted[t][k] + FlipBy(m, t, k)
        ELSE counted[t][k]]]

\* ON DELETE CASCADE fires the delete triggers: each edge of a memory that is
\* over already is taken off a second time.
DropOnCascade(src) ==
    [t \in Cited |-> [k \in Columns |-> Less(counted[t][k], Fan(src, t, k))]]

----------------------------------------------------------------------------
(* What the pass counts *)

Links == [m \in Cited |-> IF standing[m].by = m THEN {} ELSE {<<m, standing[m].by>>}]

\* _build_chain_index: the groups of memories joined by superseded_by.
Chains ==
    LET joined == UNION {Links[m] : m \in Cited}
        Whole(S) == \A p \in joined : p[1] \in S <=> p[2] \in S
    IN  {p \in Cited \X Cited :
            \A S \in SUBSET Cited : Whole(S) /\ p[1] \in S => p[2] \in S}

\* _count_relations: sources that are not active, and edges inside a chain.
LeftOut(e, chain, active) ==
    e.src \notin TaskSources /\ (e.src \notin active \/ <<e.src, e.dst>> \in chain)

RelationsOn(m, k, chain, active) ==
    Cardinality({e \in cites : /\ e.type # "lineage" /\ Counts(e) /\ e.dst = m /\ Column(e) = k
                               /\ ~LeftOut(e, chain, active)})
LineageOn(m) ==
    Cardinality({e \in cites : e.type = "lineage" /\ e.dst = m /\ e.src \in ActiveOnes})
MacrosOn(m, active) ==
    IF m \in active THEN Cardinality({x \in Macros : x[2] = m /\ x[1] \in ActiveOnes}) ELSE 0

\* The counters as they should be: every edge that counts, unless its source is
\* a memory that is not active or one of the chain of the memory it cites.
Canonical ==
    [m \in Cited |-> [k \in Columns |->
        IF k = "playbook" THEN MacrosOn(m, ActiveOnes)
        ELSE Cardinality({e \in cites :
                /\ e.dst = m /\ Counts(e) /\ Column(e) = k
                /\ \/ e.src \in TaskSources
                   \/ /\ e.src \in ActiveOnes
                      /\ e.type = "lineage" \/ <<e.src, m>> \notin Chains})]]

----------------------------------------------------------------------------
(* Callers *)

EditCites == citeEdits < MaxCiteEdits /\ citeEdits' = citeEdits + 1 /\ quiet' = FALSE

\* relation_link, task_link_memory, and the lineage rows of new memories.
Cite(e) ==
    /\ e \notin cites /\ Standing(e.dst) # "gone"
    /\ e.src \in Cited => Standing(e.src) # "gone"
    /\ cites' = cites \cup {e}
    /\ counted' = BumpOnInsert(e)
    /\ triggered' = (triggered /\ (e.src \in TaskSources \cup ActiveOnes)
                           /\ <<e.src, e.dst>> \notin Chains)
    /\ EditCites
    /\ UNCHANGED <<standing, scored, pass>>

Moves == [active |-> {"stale", "retired"}, stale |-> {"active", "retired"},
          superseded |-> {}, retired |-> {}, gone |-> {}]

\* memory_update of the status: a new version of the row.
ChangeStatus(m, to) ==
    /\ to \in Moves[Standing(m)]
    /\ standing' = [standing EXCEPT ![m].status = to, ![m].ver = @ + 1]
    /\ counted' = BumpOnFlip(m, to)
    /\ triggered' = (triggered /\ "stale" \notin {Standing(m), to})
    /\ EditCites
    /\ UNCHANGED <<cites, scored, pass>>

\* memory_supersede, with n in place of m.
Supersede(m, n) ==
    /\ m # n /\ Standing(m) = "active" /\ Standing(n) = "active"
    /\ standing' = [standing EXCEPT ![m].status = "superseded", ![m].by = n, ![m].ver = @ + 1]
    /\ counted' = BumpOnFlip(m, "superseded")
    /\ triggered' = FALSE
    /\ EditCites
    /\ UNCHANGED <<cites, scored, pass>>

\* mem_hard_delete of a memory without descendants, for the retention pass too.
HardDelete(x) ==
    /\ Standing(x) # "gone"
    /\ \A m \in Cited \ {x} : standing[m].by # x
    /\ \A e \in cites : e.type = "lineage" => e.dst # x
    /\ cites' = {e \in cites : x \notin {e.src, e.dst}}
    /\ standing' = [standing EXCEPT ![x].status = "gone"]
    /\ counted' = [DropOnCascade(x) EXCEPT ![x] = Zero]
    /\ triggered' = FALSE
    /\ EditCites
    /\ UNCHANGED <<scored, pass>>

----------------------------------------------------------------------------
(* The pass *)

PassGoes(p) == pass' = p /\ UNCHANGED <<standing, cites, counted, scored, citeEdits, triggered>>

BeginRecount ==
    /\ pass.at = "idle"
    /\ quiet' = TRUE
    /\ PassGoes([NoPass EXCEPT !.at = "active", !.chain = Chains])

LoadActive ==
    /\ pass.at = "active" /\ UNCHANGED quiet
    /\ PassGoes([pass EXCEPT !.at = "relations", !.active = ActiveOnes])

CountRelations ==
    /\ pass.at = "relations" /\ UNCHANGED quiet
    /\ PassGoes([pass EXCEPT !.at = "lineage", !.want = [m \in Cited |->
            [pass.want[m] EXCEPT !.rel_link = RelationsOn(m, "rel_link", pass.chain, pass.active),
                                 !.task = RelationsOn(m, "task", pass.chain, pass.active)]]])

CountLineage ==
    /\ pass.at = "lineage" /\ UNCHANGED quiet
    /\ PassGoes([pass EXCEPT !.at = "macros", !.want = [m \in Cited |->
            [pass.want[m] EXCEPT !.lineage = LineageOn(m)]]])

CountMacros ==
    /\ pass.at = "macros" /\ UNCHANGED quiet
    /\ PassGoes([pass EXCEPT !.at = "apply", !.want = [m \in Cited |->
            [pass.want[m] EXCEPT !.playbook = MacrosOn(m, pass.active)]]])

\* Mutant: rows that nothing cites any more are left as they are.
Drifted_CitedOnly == {m \in Cited : pass.want[m] # Zero /\ pass.want[m] # counted[m]}

\* _load_current_counters: every row of the env, of whatever status.
Drifted == {m \in Cited : Standing(m) # "gone" /\ pass.want[m] # counted[m]}

Rescored == Drifted

\* _apply_counters overwrites the rows that differ, and the commit.  What was
\* linked since it was counted is lost from the column until the next pass.
ApplyCounters ==
    /\ pass.at = "apply"
    /\ counted' = [m \in Cited |-> IF m \in Drifted THEN pass.want[m] ELSE counted[m]]
    /\ pass' = [pass EXCEPT !.at = "load", !.targets = Rescored, !.adjusted = Drifted]
    /\ triggered' = (triggered /\ quiet)
    /\ UNCHANGED <<standing, cites, scored, citeEdits, quiet>>

\* _recompute_salience_for reads the active rows with their versions ...
LoadTargets ==
    /\ pass.at = "load" /\ UNCHANGED quiet
    /\ PassGoes([pass EXCEPT !.at = "rescore", !.targets = @ \cap ActiveOnes,
                             !.vers = [m \in Cited |-> standing[m].ver],
                             !.want = counted])

\* ... and updates each, unless its version has moved.
Rescore(m) ==
    /\ pass.at = "rescore" /\ m \in pass.targets
    /\ IF standing[m].ver = pass.vers[m]
       THEN /\ scored' = [scored EXCEPT ![m] = pass.want[m]]
            /\ standing' = [standing EXCEPT ![m].ver = @ + 1]
            /\ pass' = [pass EXCEPT !.targets = @ \ {m}]
       ELSE /\ pass' = [pass EXCEPT !.targets = @ \ {m}, !.conflict = TRUE]
            /\ UNCHANGED <<standing, scored>>
    /\ UNCHANGED <<cites, counted, citeEdits, triggered, quiet>>

EndRecount ==
    /\ pass.at = "rescore" /\ pass.targets = {} /\ UNCHANGED quiet
    /\ PassGoes([NoPass EXCEPT !.adjusted = pass.adjusted, !.conflict = pass.conflict])

----------------------------------------------------------------------------
PopInit ==
    /\ standing = [m \in Cited |-> [status |-> "active", by |-> m, ver |-> 1]]
    /\ cites = {}
    /\ counted = [m \in Cited |-> Zero]
    /\ scored = [m \in Cited |-> Zero]
    /\ pass = NoPass
    /\ citeEdits = 0
    /\ triggered = TRUE
    /\ quiet = FALSE

Recounts ==
    \/ BeginRecount \/ LoadActive  \/ CountRelations \/ CountLineage \/ CountMacros
    \/ ApplyCounters \/ LoadTargets \/ EndRecount    \/ \E m \in Cited : Rescore(m)

PopNext ==
    \/ \E e \in Citations : Cite(e)
    \/ \E m \in Cited, to \in {"stale", "retired", "active"} : ChangeStatus(m, to)
    \/ \E m, n \in Cited : Supersede(m, n)
    \/ \E m \in Cited : HardDelete(m)
    \/ Recounts

(* The scheduler starts the pass again and again.                           *)
PopFairness == WF_popVars(Recounts)
PopSpec == PopInit /\ [][PopNext]_popVars /\ PopFairness

----------------------------------------------------------------------------
(* Properties *)

(* Every counter is the number of its memory's citers.                      *)
Exact == \A m \in Cited : Standing(m) # "gone" => counted[m] = Canonical[m]

(* The triggers alone keep the counters of edges exact as long as citing    *)
(* memories go straight from active to retired, nobody cites from a memory  *)
(* that is over or along a supersede chain, none is hard deleted, and no    *)
(* pass overlaps a change.                                                  *)
TriggersAreExact ==
    triggered => \A m \in Cited : \A k \in Columns \ {"playbook"} :
                   counted[m][k] = Canonical[m][k]

(* A pass that nothing disturbed leaves no adjusted active row with a       *)
(* salience of the counters it had before.                                  *)
AdjustedIsRescored ==
    quiet /\ pass.at = "idle" =>
        \A m \in pass.adjusted \cap ActiveOnes : scored[m] = counted[m]

(* Counters are what they count as far as the triggers reach, and a pass    *)
(* that adjusts one rescores its row (dream/passes/recount.py).             *)
CountersAreSound == TriggersAreExact /\ AdjustedIsRescored

(* The inductive invariant behind the proofs (RelationsProofs).             *)
PopTyped ==
    /\ standing = [m \in Cited |-> standing[m]]
    /\ \A m \in Cited : /\ DOMAIN standing[m] = {"status", "by", "ver"}
                        /\ standing[m].status \in {"active", "stale", "retired", "superseded", "gone"}
    /\ cites \subseteq Citations /\ IsFiniteSet(cites)
    /\ DOMAIN counted = Cited /\ \A m \in Cited : DOMAIN counted[m] = Columns
    /\ DOMAIN scored = Cited
    /\ DOMAIN pass = {"at", "chain", "active", "want", "targets", "vers", "adjusted", "conflict"}
    /\ pass.at \in {"idle", "active", "relations", "lineage", "macros", "apply", "load", "rescore"}
    /\ DOMAIN pass.want = Cited /\ \A m \in Cited : DOMAIN pass.want[m] = Columns
    /\ pass.adjusted \subseteq Cited /\ pass.targets \subseteq Cited

\* The edges that column k of m is to count while the triggers reach.
CitersOf(m, k) ==
    {e \in cites : /\ e.dst = m /\ Counts(e) /\ Column(e) = k
                   /\ e.src \in TaskSources \cup ActiveOnes}

(* As long as the triggers reach, no memory is stale or has a successor,    *)
(* none cites itself, and the columns are the numbers of their edges.       *)
TriggersReach ==
    triggered =>
        /\ \A m \in Cited : standing[m].by = m /\ Standing(m) \in {"active", "retired"}
        /\ \A e \in cites : e.src # e.dst
        /\ \A m \in Cited : \A k \in Columns \ {"playbook"} :
              counted[m][k] = Cardinality(CitersOf(m, k))

(* What an undisturbed pass has read so far is so still ...                 *)
QuietCounts ==
    quiet =>
        /\ pass.at \in {"active", "relations", "lineage", "macros", "apply"} => pass.chain = Chains
        /\ pass.at \in {"relations", "lineage", "macros", "apply"} => pass.active = ActiveOnes
        /\ pass.at \in {"lineage", "macros", "apply"} =>
              \A m \in Cited : \A k \in {"rel_link", "task"} :
                  pass.want[m][k] = RelationsOn(m, k, Chains, ActiveOnes)
        /\ pass.at \in {"macros", "apply"} =>
              \A m \in Cited : pass.want[m]["lineage"] = LineageOn(m)

(* ... and what it adjusted is scored or still to be scored.                *)
QuietScores ==
    quiet =>
        /\ pass.at = "load" => pass.targets = pass.adjusted
        /\ pass.at = "rescore" => \A m \in pass.targets :
              pass.vers[m] = standing[m].ver /\ pass.want[m] = counted[m]
        /\ pass.at \in {"rescore", "idle"} => \A m \in pass.adjusted \cap ActiveOnes :
              scored[m] = counted[m] \/ (pass.at = "rescore" /\ m \in pass.targets)

PopInv == PopTyped /\ TriggersReach /\ QuietCounts /\ QuietScores
=============================================================================
