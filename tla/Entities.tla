------------------------------ MODULE Entities ------------------------------
(***************************************************************************)
(* Entities by name (entities.py) and the inbox channels that are entities *)
(* of kind "channel" (inbox.py).                                           *)
(*                                                                         *)
(* A message is a memory with a "mentions" relation to the graph node of   *)
(* its channel.  Opening and sending look the channel up in one            *)
(* transaction and write in another.  entity_merge is one transaction, but *)
(* its statements see what others commit meanwhile: what it moves it reads *)
(* in one, and in a later one it deletes all that is left.                 *)
(***************************************************************************)
EXTENDS Naturals, FiniteSets

CONSTANTS
    Clerks,       \* concurrent calls
    Envs,         \* environments
    Names,        \* normalized names
    Kinds,        \* kinds of entity that entity_upsert asks for
    MaxEntities,  \* bound: entity ids handed out
    MaxMessages,  \* bound: messages sent
    MaxCalls      \* bound: calls begun

EntIds == 1..MaxEntities
Messages == 1..MaxMessages

ASSUME ChannelIsAKind == "channel" \in Kinds
ASSUME EntityBounds == {MaxEntities, MaxMessages, MaxCalls} \subseteq Nat

VARIABLES
    ent,         \* ent[i]: committed entity; ver 0 before it exists
    mergedInto,  \* mergedInto[i]: the entity i was merged into, 0 if none
    node,        \* node[n]: the entity that graph node n stands for, 0 if none
    mention,     \* committed relations <<message, node>>
    entEvents,   \* committed outbox events <<entity, version, op>>
    clerk,       \* clerk[c]: the call of c
    sent,        \* sends answered: [msg, to, url]
    late,        \* messages committed to a channel that a merge had read
    calls        \* calls so far

entVars == <<ent, mergedInto, node, mention, entEvents, clerk, sent, late, calls>>

NoEnt == [env |-> "none", name |-> "none", kind |-> "none", ver |-> 0]
Gone(i) == mergedInto[i] # 0
Live == {i \in EntIds : ent[i].ver > 0 /\ ~Gone(i)}
NoCall == [at |-> "idle", env |-> "none", name |-> "none", kind |-> "none", url |-> "none",
           id |-> 0, ver |-> 0, other |-> 0, node |-> 0,
           keeps |-> 0, loses |-> 0, moves |-> {}]

Named(env, name) == {i \in Live : ent[i].env = env /\ ent[i].name = name}
Channel(env, name) == {i \in Named(env, name) : ent[i].kind = "channel"}
NodeOf(i) == {n \in EntIds : node[n] = i}
\* The entity that stands for i after merges: every chain of them ends there.
Closed(S) == \A k \in S : Gone(k) => mergedInto[k] \in S
StandsFor(j, i) == ~Gone(j) /\ \A S \in SUBSET EntIds : i \in S /\ Closed(S) => j \in S
Heir(i) == CHOOSE j \in EntIds : StandsFor(j, i)

----------------------------------------------------------------------------
Start(c, r) ==
    /\ clerk[c] = NoCall /\ calls < MaxCalls
    /\ clerk' = [clerk EXCEPT ![c] = r]
    /\ calls' = calls + 1
    /\ UNCHANGED <<ent, mergedInto, node, mention, entEvents, sent, late>>

Return(c) == clerk' = [clerk EXCEPT ![c] = NoCall]

Fail(c) == Return(c) /\ UNCHANGED <<ent, mergedInto, node, mention, entEvents, sent, late, calls>>

Becomes(c, r) ==
    clerk' = [clerk EXCEPT ![c] = r]
      /\ UNCHANGED <<ent, mergedInto, node, mention, entEvents, sent, late, calls>>

----------------------------------------------------------------------------
(* entity_upsert *)

BeginUpsert(c, env, name, kind) ==
    Start(c, [NoCall EXCEPT !.at = "find", !.env = env, !.name = name, !.kind = kind])

\* The row of that name, of whatever kind.
FindEntity(c) ==
    LET found == Named(clerk[c].env, clerk[c].name)
    IN  /\ clerk[c].at = "find"
        /\ \/ /\ found = {}
              /\ Becomes(c, [clerk[c] EXCEPT !.at = "insert"])
           \/ \E i \in found :
                 IF ent[i].kind = clerk[c].kind
                 THEN Fail(c)        \* nothing differs: answered as it is
                 ELSE Becomes(c, [clerk[c] EXCEPT !.at = "update", !.id = i, !.ver = ent[i].ver])

\* INSERT and commit, or the unique key (env, normalized_name) is taken by now.
InsertEntity(c) ==
    /\ clerk[c].at = "insert"
    /\ IF Named(clerk[c].env, clerk[c].name) # {} THEN Fail(c)
       ELSE /\ \E i \in EntIds :
                 /\ ent[i] = NoEnt /\ \A j \in EntIds : ent[j] = NoEnt => i <= j
                 /\ ent' = [ent EXCEPT ![i] = [env |-> clerk[c].env, name |-> clerk[c].name,
                                               kind |-> clerk[c].kind, ver |-> 1]]
                 /\ entEvents' = entEvents \cup {<<i, 1, "upsert">>}
            /\ Return(c)
            /\ UNCHANGED <<mergedInto, node, mention, sent, late, calls>>

AtVersion(i, v) == i \in Live /\ ent[i].ver = v

\* UPDATE ... WHERE version = :expected; 0 rows is a VersionConflictError.
UpdateEntity(c) ==
    LET i == clerk[c].id
    IN  /\ clerk[c].at = "update"
        /\ IF ~AtVersion(i, clerk[c].ver) THEN Fail(c)
           ELSE /\ ent' = [ent EXCEPT ![i].kind = clerk[c].kind, ![i].ver = clerk[c].ver + 1]
                /\ entEvents' = entEvents \cup {<<i, clerk[c].ver + 1, "update">>}
                /\ Return(c)
                /\ UNCHANGED <<mergedInto, node, mention, sent, late, calls>>

----------------------------------------------------------------------------
(* entity_merge of j into i, both of one env *)

\* The rows are read, their versions are the ones the caller expects.
BeginMerge(c, i, j) ==
    /\ {i, j} \subseteq Live /\ i # j /\ ent[i].env = ent[j].env
    /\ Start(c, [NoCall EXCEPT !.at = "merge", !.id = i, !.ver = ent[i].ver,
                               !.other = j, !.node = ent[j].ver])

\* Mutant: what hangs on the merged node is not read.
Repointed_Nothing(j) == {}

\* The relations that hang on the merged node now.
Repointed(j) == {m \in Messages : \E n \in NodeOf(j) : <<m, n>> \in mention}

\* The node of an entity that has at most one; 0 if none.
TheNode(i) == IF NodeOf(i) = {} THEN 0 ELSE CHOOSE n \in NodeOf(i) : TRUE

\* Both nodes and the relations to move, as they are now.
PlanMerge(c) ==
    /\ clerk[c].at = "merge"
    /\ Becomes(c, [clerk[c] EXCEPT !.at = "commitMerge", !.keeps = TheNode(clerk[c].id),
                                   !.loses = TheNode(clerk[c].other),
                                   !.moves = Repointed(clerk[c].other)])

\* The outbox takes one event for each version of an entity.
EventTaken(i, v) == \E x \in entEvents : x[1] = i /\ x[2] = v

\* keep had no node and takes the one of the merged entity.
TakesNode(r) == r.keeps = 0 /\ r.loses # 0

\* keep changed (0 rows), the tombstone's version is taken, or keep was given
\* a node although the merged one is about to become it (the unique key).
MergeFails(r) ==
    \/ ~AtVersion(r.id, r.ver) \/ EventTaken(r.other, r.node + 1)
    \/ TakesNode(r) /\ NodeOf(r.id) # {}

\* Unless keep takes the node, the planned relations move to keep's.  What the
\* merged entity has then, planned or not, is deleted with it: its node, and the
\* relations on that.
CommitMerge(c) ==
    LET r == clerk[c]
        i == r.id
        j == r.other
    IN  /\ r.at = "commitMerge"
        /\ IF MergeFails(r) THEN Fail(c)
           ELSE /\ IF TakesNode(r)
                   THEN /\ node' = [n \in EntIds |-> IF node[n] = j THEN i ELSE node[n]]
                        /\ UNCHANGED mention
                   ELSE /\ node' = [n \in EntIds |-> IF node[n] = j THEN 0 ELSE node[n]]
                        /\ mention' = {x \in mention : x[2] \notin NodeOf(j)}
                                         \cup {<<m, r.keeps>> : m \in r.moves}
                /\ ent' = [ent EXCEPT ![i].ver = @ + 1]
                /\ mergedInto' = [mergedInto EXCEPT ![j] = i]
                /\ entEvents' = entEvents \cup {<<j, r.node + 1, "tombstone">>,
                                                <<i, r.ver + 1, "update">>}
                /\ Return(c)
                /\ UNCHANGED <<sent, late, calls>>

----------------------------------------------------------------------------
(* mem_inbox_open *)

\* A channel of that slug is answered or refused; if there is none an entity
\* of that name is upserted as a channel.
BeginOpen(c, env, slug) ==
    /\ Channel(env, slug) = {}
    /\ Start(c, [NoCall EXCEPT !.at = "find", !.env = env, !.name = slug, !.kind = "channel"])

----------------------------------------------------------------------------
(* mem_inbox_send *)

EnvAgrees(url, env) == url \in {"none", env}

\* The reference may name an env (url); the env argument has to agree.
BeginSend(c, url, env, slug) ==
    /\ EnvAgrees(url, env)
    /\ \E i \in Channel(env, slug) :
          Start(c, [NoCall EXCEPT !.at = "write", !.env = env, !.url = url, !.id = i])

\* memory_write checks that the linked entity exists and selects its node.
LinkChannel(c) ==
    LET i == clerk[c].id
    IN  /\ clerk[c].at = "write"
        /\ IF i \notin Live THEN Fail(c)
           ELSE Becomes(c, [clerk[c] EXCEPT
                    !.at = IF NodeOf(i) = {} THEN "addNode" ELSE "commit",
                    !.node = TheNode(i)])

\* A merge has read what to move from j's node, and not ended.
BeingMerged(j) ==
    \E d \in Clerks :
        clerk[d].at = "commitMerge" /\ clerk[d].other = j /\ ~TakesNode(clerk[d])

\* The message, its node and its relation are committed, unless the node was
\* deleted (the foreign key) or made by another send (the unique key).
CommitSend(c) ==
    LET i == clerk[c].id
        n == IF clerk[c].at = "addNode" THEN i ELSE clerk[c].node
        m == Cardinality(sent) + 1
    IN  /\ clerk[c].at \in {"addNode", "commit"}
        /\ IF \/ clerk[c].at = "addNode" /\ (NodeOf(i) # {} \/ i \notin Live)
              \/ clerk[c].at = "commit" /\ node[n] = 0
              \/ m \notin Messages
           THEN Fail(c)
           ELSE /\ node' = IF clerk[c].at = "addNode" THEN [node EXCEPT ![i] = i] ELSE node
                /\ mention' = mention \cup {<<m, n>>}
                /\ sent' = sent \cup {[msg |-> m, to |-> i, url |-> clerk[c].url]}
                /\ late' = late \cup {x \in {m} : BeingMerged(node'[n])}
                /\ Return(c)
                /\ UNCHANGED <<ent, mergedInto, entEvents, calls>>

----------------------------------------------------------------------------
(* mem_inbox: the messages that a channel lists *)

Listed(i) == {m \in Messages : \E n \in NodeOf(i) : <<m, n>> \in mention}

----------------------------------------------------------------------------
EntInit ==
    /\ ent = [i \in EntIds |-> NoEnt]
    /\ mergedInto = [i \in EntIds |-> 0]
    /\ node = [n \in EntIds |-> 0]
    /\ mention = {}
    /\ entEvents = {}
    /\ clerk = [c \in Clerks |-> NoCall]
    /\ sent = {}
    /\ late = {}
    /\ calls = 0

EntNext ==
    \E c \in Clerks :
        \/ \E env \in Envs, name \in Names :
              \/ \E kind \in Kinds \ {"channel"} : BeginUpsert(c, env, name, kind)
              \/ BeginOpen(c, env, name)
              \/ \E url \in Envs \cup {"none"} : BeginSend(c, url, env, name)
        \/ \E i, j \in EntIds : BeginMerge(c, i, j)
        \/ FindEntity(c) \/ InsertEntity(c) \/ UpdateEntity(c)
        \/ PlanMerge(c)  \/ CommitMerge(c)
        \/ LinkChannel(c) \/ CommitSend(c)

EntSpec == EntInit /\ [][EntNext]_entVars

----------------------------------------------------------------------------
(* Properties *)

(* Every message whose send was answered is listed by the channel it was    *)
(* sent to, or by the entity that channel was merged into, in the env that  *)
(* the sender's reference named; whatever merges run beside it, unless one  *)
(* of them had already read what to move from that channel (step 4 of       *)
(* entity_merge, entities.py:471-496).                                      *)
SentIsListed ==
    \A s \in sent : /\ s.msg \in late \cup Listed(Heir(s.to))
                    /\ s.url \in {"none", ent[s.to].env}

(* The docstring of entity_merge: keep's node gets the relations of a       *)
(* merged one before that is deleted (entities.py:517-519), so what was     *)
(* sent stays listed.                                                       *)
MergesKeepMessages == \A s \in sent : s.msg \in Listed(Heir(s.to))

(* The projections can follow every entity: one event for each version it   *)
(* went through, and the tombstone of a merged entity after all the others. *)
EntityHistory ==
    \A i \in EntIds :
        LET es == {x \in entEvents : x[1] = i}
        IN  /\ {x[2] : x \in es} = 1..Cardinality(es)
            /\ \A x \in es : x[3] = "tombstone" => x[2] = Cardinality(es)

(* Names stay unique, and a node stands for a live entity.                  *)
NamesAreUnique ==
    /\ \A i, j \in Live : ent[i].env = ent[j].env /\ ent[i].name = ent[j].name => i = j
    /\ \A n \in EntIds : node[n] \in Live \cup {0}
    /\ \A i \in EntIds : Cardinality(NodeOf(i)) <= 1

(* Messages stay listed where they were sent, entity names stay unique, and *)
(* each entity's events are its whole history (inbox.py, entities.py).      *)
EntitiesAreSound == SentIsListed /\ EntityHistory /\ NamesAreUnique

(* The inductive invariants behind the proofs (ServiceProofs).              *)
Merging(r) == r.at \in {"merge", "commitMerge"}
Sends == {"write", "addNode", "commit"}
ClerkCalls == [at : {"idle", "find", "insert", "update", "merge", "commitMerge"} \cup Sends,
               env : Envs \cup {"none"}, name : Names \cup {"none"}, kind : Kinds \cup {"none"},
               url : Envs \cup {"none"}, id : EntIds \cup {0}, ver : Nat,
               other : EntIds \cup {0}, node : Nat, keeps : EntIds \cup {0},
               loses : EntIds \cup {0}, moves : SUBSET Messages]
EntTypeOK ==
    /\ ent \in [EntIds -> [env : Envs \cup {"none"}, name : Names \cup {"none"},
                           kind : Kinds \cup {"none"}, ver : Nat]]
    /\ mergedInto \in [EntIds -> EntIds \cup {0}]
    /\ node \in [EntIds -> EntIds \cup {0}]
    /\ clerk \in [Clerks -> ClerkCalls]

(* A call is about an entity that exists, a merge about two.                *)
CallFinds(r) ==
    /\ r.at \in {"update", "merge", "commitMerge"} \cup Sends => r.id \in EntIds
    /\ Merging(r) => r.other \in EntIds /\ r.other # r.id /\ ent[r.other].ver > 0
    /\ r.at = "commit" => r.node \in EntIds

(* A graph node keeps its own entity unless that one was merged away.       *)
NodesStandForOne ==
    /\ \A n \in EntIds : node[n] \in Live \cup {0} /\ (node[n] \notin {0, n} => Gone(n))
    /\ \A m, n \in EntIds : node[m] = node[n] /\ node[m] # 0 => m = n

NamesInv ==
    /\ EntTypeOK /\ NodesStandForOne /\ \A c \in Clerks : CallFinds(clerk[c])
    /\ \A i \in EntIds : ent[i].ver = 0 => ~Gone(i)
    /\ \A i, j \in Live : ent[i].env = ent[j].env /\ ent[i].name = ent[j].name => i = j

(* What the others leave a merge: while the entity it ends has the version  *)
(* it had, nothing hangs on that but what was planned and what came late;   *)
(* the node it moves to stays keep's.                                       *)
MergesFind(r) ==
    /\ Merging(r) => r.node <= ent[r.other].ver
    /\ r.at = "commitMerge" =>
          /\ r.other \in Live /\ ent[r.other].ver = r.node /\ ~TakesNode(r)
                => Repointed(r.other) \subseteq r.moves \cup late
          /\ r.keeps # 0 /\ ~Gone(r.id) => node[r.keeps] = r.id
          /\ r.loses = 0 => r.moves = {}
(* And a send: the node it links to stands for the heir of its channel,     *)
(* unless it was deleted with the entity that had it.                       *)
SendsFind(r) ==
    /\ r.at \in Sends => ent[r.id].ver > 0 /\ r.url \in {"none", ent[r.id].env}
    /\ r.at = "commit" => \/ node[r.node] = Heir(r.id)
                          \/ node[r.node] = 0 /\ Gone(r.node)

(* One event for each version, and one for the end of a merged entity.      *)
LastVersion(i) == IF Gone(i) THEN ent[i].ver + 1 ELSE ent[i].ver
EventsAreVersions ==
    /\ \A x \in entEvents :
          /\ x \in EntIds \X (Nat \ {0}) \X {"upsert", "update", "tombstone"}
          /\ x[2] <= LastVersion(x[1])
          /\ x[3] = "tombstone" <=> Gone(x[1]) /\ x[2] = LastVersion(x[1])
          /\ \A y \in entEvents : x[1] = y[1] /\ x[2] = y[2] => x = y
    /\ \A i \in EntIds : \A v \in 1..LastVersion(i) :
          \E x \in entEvents : x[1] = i /\ x[2] = v

HeirsAreKnown ==
    \A i \in EntIds : /\ Heir(i) \in EntIds /\ StandsFor(Heir(i), i)
                      /\ Heir(i) = IF Gone(i) THEN Heir(mergedInto[i]) ELSE i

(* A relation goes with its node.                                           *)
MentionsHang == \A x \in mention : x \in Messages \X EntIds /\ node[x[2]] # 0

SoundInv == /\ NamesInv /\ MentionsHang
            /\ \A c \in Clerks : MergesFind(clerk[c]) /\ SendsFind(clerk[c])
            /\ EventsAreVersions /\ HeirsAreKnown
            /\ \A s \in sent : s.to \in EntIds /\ ent[s.to].ver > 0
            /\ SentIsListed
=============================================================================
