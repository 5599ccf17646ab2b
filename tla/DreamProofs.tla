----------------------------- MODULE DreamProofs -----------------------------
(***************************************************************************)
(* Proofs about Dream, for any runners, modes, memories, caps and bounds,  *)
(* and about Salience, for any readers, lists, weights and bounds.         *)
(***************************************************************************)
EXTENDS Dream, Salience, WellFoundedInduction, TLAPS

(* The lowest free id, where there is a free one.                           *)
LEMMA Lowest ==
    ASSUME NEW S, S \subseteq Nat, S # {}
    PROVE  (CHOOSE n \in S : \A k \in S : n <= k) \in S
  <1>1. PICK x \in S : \A y \in S : ~(<<y, x>> \in OpToRel(<, Nat))
    BY NatLessThanWellFounded, WFMin
  <1>2. \A y \in S : ~(y < x)
    BY <1>1 DEF OpToRel
  <1>3. \A y \in S : x <= y
    BY <1>2
  <1> QED BY <1>3

----------------------------------------------------------------------------
(* What the steps of a runner have in common. *)

\* The transactions of run_dream_pass around the body.
Around(r) == InsertRun(r) \/ FinalizeRun(r) \/ Heartbeat(r)

\* The ways out of a pass, and the restart.
Leaves(r) == Unlock(r) \/ DatabaseError(r) \/ KillRunner(r) \/ RestartRunner(r)

Loads(r) == LoadActive(r) \/ LoadStale(r) \/ LoadSeeds(r) \/ LoadEvidence(r) \/ LoadPairs(r)
Checks(r) == CheckCluster(r) \/ CheckItem(r)
Works(r) == Loads(r) \/ DecayOne(r) \/ DecayMissing(r) \/ Checks(r)
              \/ InsertProposal(r) \/ EndBody(r)

Reviews == \E p \in ProposalIds : ReviewStep(p)
Clients == \E m \in Mems : ClientUpdate(m) \/ ClientDelete(m)

LEMMA StepKinds ==
    DreamNext =>
        \/ \E r \in Runners : \/ \E mode \in Modes : BeginPass(r, mode)
                              \/ Around(r) \/ Leaves(r) \/ Works(r)
        \/ Reviews \/ Clients
  BY DEF DreamNext, PassStep, Around, Leaves, Loads, Checks, Works, Reviews, Clients

(* run_dream_pass writes its run row and heartbeat, and stays in the pass.  *)
LEMMA AroundStep ==
    ASSUME DreamTypeOK, NEW r \in Runners, Around(r)
    PROVE  /\ pass' = [pass EXCEPT ![r] = pass'[r]]
           /\ pass'[r] \in Passes
           /\ pass[r].at \in {"locked", "done", "failed", "beat"}
           /\ pass'[r].at \in {"body", "beat", "unlock"}
           /\ pass'[r].at = "body" => pass'[r].leg = "load"
           /\ pass'[r].mode = pass[r].mode /\ pass'[r].run = pass[r].run
           /\ pass'[r].key = pass[r].key
           /\ \/ runRow' = runRow
              \/ \E s \in {"running", "done", "failed"} :
                    runRow' = [runRow EXCEPT ![pass[r].run] = s]
           /\ UNCHANGED <<mem, proposal, lock, leak, nextRun>>
  <1>1. pass[r] \in Passes
    BY DEF DreamTypeOK
  <1>2. CASE InsertRun(r)
    BY <1>1, <1>2 DEF InsertRun, Put, Passes, DreamTypeOK
  <1>3. CASE FinalizeRun(r)
    BY <1>1, <1>3 DEF FinalizeRun, Put, Passes, DreamTypeOK
  <1>4. CASE Heartbeat(r)
    BY <1>1, <1>4 DEF Heartbeat, Put, Passes, DreamTypeOK
  <1> QED BY <1>2, <1>3, <1>4 DEF Around

LEMMA NoKeyIsKey == NoKey \in Keys
  BY DEF NoKey, Keys

(* Every step of a body leaves the locks and the run rows alone, and ends   *)
(* in the body or behind it.                                                *)
LEMMA WorkStep ==
    ASSUME DreamTypeOK, NEW r \in Runners, Works(r)
    PROVE  /\ pass' = [pass EXCEPT ![r] = pass'[r]]
           /\ pass'[r] \in Passes
           /\ pass[r].at = "body" /\ pass'[r].at \in {"body", "done", "failed"}
           /\ pass'[r].mode = pass[r].mode /\ pass'[r].run = pass[r].run
           /\ UNCHANGED <<runRow, lock, leak, nextRun>>
  <1>1. pass[r] \in Passes /\ pass \in [Runners -> Passes]
    BY DEF DreamTypeOK
  <1> DEFINE Q == /\ pass' = [pass EXCEPT ![r] = pass'[r]]
                  /\ pass'[r] \in Passes
                  /\ pass[r].at = "body" /\ pass'[r].at \in {"body", "done", "failed"}
                  /\ pass'[r].mode = pass[r].mode /\ pass'[r].run = pass[r].run
                  /\ UNCHANGED <<runRow, lock, leak, nextRun>>
  <1>2. ASSUME NEW leg \in {"active", "stale", "seeds", "clusters", "pairs"},
               NEW items \in SUBSET Items, Load(r, leg, items), pass[r].at = "body"
        PROVE  Q
    BY <1>1, <1>2 DEF Load, Put, OnlyPassMoved, Passes
  <1>3. CASE Loads(r)
    <2>1. \A m \in Mems : Candidate(m) \in Items
      BY DEF Candidate, Items, DreamTypeOK
    <2>2. \A e \in Subjects \cup {NoSubject}, S \in SUBSET Mems : Item(e, S) \in Items
      BY DEF Item, Items
    <2>3. CASE LoadActive(r)
      BY <1>2, <2>1, <2>3 DEF LoadActive, InBody, Upto, With
    <2>4. CASE LoadStale(r)
      BY <1>2, <2>1, <2>4 DEF LoadStale, InBody, Upto, With
    <2>5. CASE LoadSeeds(r)
      <3>1. PICK S \in SUBSET Mems : Load(r, "seeds", {Item(NoSubject, {m}) : m \in S})
        BY <2>5 DEF LoadSeeds, Upto, With
      <3>2. {Item(NoSubject, {m}) : m \in S} \in SUBSET Items /\ pass[r].at = "body"
        BY <2>2, <2>5 DEF LoadSeeds, InBody
      <3> QED BY <1>2, <3>1, <3>2
    <2>6. CASE LoadEvidence(r)
      <3>1. PICK E \in SUBSET Subjects : \E f \in [E -> SUBSET Mems] :
               Load(r, "clusters", {Item(e, f[e]) : e \in E})
        BY <2>6 DEF LoadEvidence, With
      <3>2. PICK f \in [E -> SUBSET Mems] : Load(r, "clusters", {Item(e, f[e]) : e \in E})
        BY <3>1
      <3>3. {Item(e, f[e]) : e \in E} \in SUBSET Items /\ pass[r].at = "body"
        BY <2>2, <2>6 DEF LoadEvidence, InBody
      <3> QED BY <1>2, <3>2, <3>3
    <2>7. CASE LoadPairs(r)
      BY <1>2, <2>2, <2>7 DEF LoadPairs, InBody, Upto, With, Known
    <2> QED BY <1>3, <2>3, <2>4, <2>5, <2>6, <2>7 DEF Loads
  <1>4. CASE DecayOne(r)
    BY <1>1, <1>4 DEF DecayOne, InBody, DropItem, Put, Passes
  <1>5. CASE DecayMissing(r)
    BY <1>1, <1>5, NoKeyIsKey DEF DecayMissing, InBody, Failed, Put, OnlyPassMoved, Passes
  <1>6. ASSUME NEW i, NEW key \in Keys, CheckKey(r, i, key), pass[r].at = "body"
        PROVE  Q
    BY <1>1, <1>6, NoKeyIsKey DEF CheckKey, Put, OnlyPassMoved, Passes
  <1>7. CASE Checks(r)
    <2>1. \A i \in pass[r].todo : i.ids \in SUBSET Mems /\ i.of \in Subjects \cup {NoSubject}
      BY <1>1 DEF Passes, Items
    <2>2. CASE CheckCluster(r)
      <3>1. PICK i \in pass[r].todo, m \in Mems, N \in SUBSET Mems :
               CheckKey(r, i, IF N = {} THEN NoKey ELSE DedupeKey(NoSubject, N \cup {m}))
        BY <2>1, <2>2 DEF CheckCluster, Neighbours, Known
      <3>2. DedupeKey(NoSubject, N \cup {m}) \in Keys
        BY DEF DedupeKey, Keys
      <3>3. pass[r].at = "body"
        BY <2>2 DEF CheckCluster, InBody
      <3> QED BY <1>6, <3>1, <3>2, <3>3, NoKeyIsKey
    <2>3. CASE CheckItem(r)
      <3>1. PICK i \in pass[r].todo : CheckKey(r, i, DedupeKey(i.of, i.ids))
        BY <2>3 DEF CheckItem
      <3>2. DedupeKey(i.of, i.ids) \in Keys
        BY <2>1 DEF DedupeKey, Keys
      <3>3. pass[r].at = "body"
        BY <2>3 DEF CheckItem, InBody
      <3> QED BY <1>6, <3>1, <3>2, <3>3
    <2> QED BY <1>7, <2>2, <2>3 DEF Checks
  <1>8. CASE InsertProposal(r)
    BY <1>1, <1>8, NoKeyIsKey DEF InsertProposal, Put, Passes
  <1>9. CASE EndBody(r)
    BY <1>1, <1>9, NoKeyIsKey DEF EndBody, Put, OnlyPassMoved, Passes
  <1> QED BY <1>3, <1>4, <1>5, <1>7, <1>8, <1>9 DEF Works

(* A pass that is left is idle or down, and nothing it did is undone.       *)
LEMMA LeaveStep ==
    ASSUME DreamTypeOK, NEW r \in Runners, Leaves(r)
    PROVE  /\ pass' = [pass EXCEPT ![r] = pass'[r]]
           /\ pass'[r] \in Passes /\ pass'[r].at \in {"idle", "down"}
           /\ pass'[r].mode = "none" /\ pass'[r].key = NoKey
           /\ UNCHANGED <<mem, proposal, runRow, nextRun>>
  <1>1. pass \in [Runners -> Passes]
    BY DEF DreamTypeOK
  <1>2. \/ Put(r, Idle)
        \/ Put(r, [Idle EXCEPT !.at = "down"])
    BY DEF Leaves, Unlock, DatabaseError, KillRunner, RestartRunner
  <1>3. UNCHANGED <<mem, proposal, runRow, nextRun>>
    BY DEF Leaves, Unlock, DatabaseError, KillRunner, RestartRunner, OnlyPassMoved
  <1> QED BY <1>1, <1>2, <1>3, NoKeyIsKey DEF Put, Idle, Passes

(* A pass begins with an empty slate and a run id of its own.               *)
LEMMA BeginStep ==
    ASSUME DreamTypeOK, NEW r \in Runners, NEW mode \in Modes, BeginPass(r, mode)
    PROVE  /\ pass[r].at = "idle"
           /\ pass' = [pass EXCEPT ![r] = pass'[r]]
           /\ pass'[r] \in Passes /\ pass'[r].at = "locked"
           /\ pass'[r].mode = mode /\ pass'[r].run = nextRun /\ pass'[r].key = NoKey
           /\ nextRun <= MaxRuns /\ nextRun' = nextRun + 1
           /\ lock' = [lock EXCEPT ![mode] = r]
           /\ UNCHANGED <<mem, proposal, runRow, leak>>
  BY NoKeyIsKey DEF BeginPass, Put, Idle, Passes, DreamTypeOK

----------------------------------------------------------------------------
(* What happens to memories. *)

\* Merged and retired memories stay so, versions count the changes, and no
\* memory is forgotten.
MemoriesAge ==
    \A m \in Mems : mem[m].status # "none" =>
        /\ mem'[m].status # "none" /\ mem[m].ver <= mem'[m].ver
        /\ mem[m].ver = mem'[m].ver => mem'[m].status \in {mem[m].status, "gone"}
        /\ mem[m].status = "superseded" => mem'[m].status = "superseded"
        /\ mem[m].status = "retired" => mem'[m].status \in {"retired", "gone"}
MemsTyped == mem \in [Mems -> [status : MemStatuses, ver : Nat]]

(* A change to the next version of one memory that has not ended.           *)
LEMMA MoveAges ==
    ASSUME MemsTyped, NEW m \in Mems, NEW s \in {"active", "stale", "archived", "retired"},
           mem[m].status \notin {"none", "gone", "superseded", "retired"}, mem' = Moved(m, s)
    PROVE  MemoriesAge /\ MemsTyped'
  <1>1. \A k \in Mems : mem[k].ver \in Nat /\ (k # m => mem'[k] = mem[k])
    BY DEF MemsTyped, Moved
  <1>2. mem'[m].status = s /\ mem'[m].ver = mem[m].ver + 1
    BY DEF MemsTyped, Moved
  <1>3. MemsTyped'
    BY DEF MemsTyped, Moved, MemStatuses
  <1> QED BY <1>1, <1>2, <1>3 DEF MemoriesAge

(* What _accept_merge does to the rows.                                     *)
LEMMA AcceptedMerge ==
    ASSUME MemsTyped, NEW p, AcceptMerge(p)
    PROVE  /\ MemoriesAge /\ MemsTyped'
           /\ \A m \in Mems : m \in proposal[p].key.ids =>
                 mem[m].status \in {"active", "stale"} /\ mem'[m].status = "superseded"
  <1> DEFINE free == With("none")
             n == CHOOSE n \in free : \A k \in free : n <= k
  <1>1. free \subseteq Mems /\ free \subseteq Nat
    BY DEF With, Mems
  <1>10. free # {}
    BY DEF AcceptMerge
  <1>2. n \in Mems /\ mem[n].status = "none"
    <2>1. n \in free
      BY <1>1, <1>10, Lowest
    <2> QED BY <2>1 DEF With
  <1> HIDE DEF n, free
  <1>3. mem' = [m \in Mems |->
                  IF m \in proposal[p].key.ids
                  THEN [mem[m] EXCEPT !.status = "superseded", !.ver = @ + 1]
                  ELSE IF m = n THEN [status |-> "active", ver |-> 1] ELSE mem[m]]
    BY DEF AcceptMerge, n, free
  <1>4. \A m \in proposal[p].key.ids : mem[m].status \in {"active", "stale"}
    BY DEF AcceptMerge, Mergeable
  <1>5. \A m \in Mems : /\ mem[m] \in [status : MemStatuses, ver : Nat]
                        /\ mem[m].ver \in Nat
    BY DEF MemsTyped
  <1>6. \A m \in Mems : m \in proposal[p].key.ids =>
           mem'[m].status = "superseded" /\ mem'[m].ver = mem[m].ver + 1
    BY <1>3, <1>5
  <1>7. \A m \in Mems : m \notin proposal[p].key.ids => mem[m].status = "none" \/ mem'[m] = mem[m]
    BY <1>2, <1>3
  <1>8. MemoriesAge
    BY <1>4, <1>5, <1>6, <1>7 DEF MemoriesAge
  <1>9. MemsTyped'
    <2>1. ASSUME NEW m \in Mems PROVE mem'[m] \in [status : MemStatuses, ver : Nat]
      <3>1. CASE m \in proposal[p].key.ids
        <4>1. mem'[m] = [mem[m] EXCEPT !.status = "superseded", !.ver = @ + 1]
          BY <1>3, <3>1
        <4>2. mem'[m] = [status |-> "superseded", ver |-> mem[m].ver + 1]
          BY <1>5, <4>1
        <4> QED BY <1>5, <4>2 DEF MemStatuses
      <3>2. CASE m \notin proposal[p].key.ids /\ m = n
        BY <1>3, <3>2 DEF MemStatuses
      <3>3. CASE m \notin proposal[p].key.ids /\ m # n
        BY <1>3, <1>5, <3>3
      <3> QED BY <3>1, <3>2, <3>3
    <2>2. mem' = [m \in Mems |-> mem'[m]]
      BY <1>3
    <2> QED BY <2>1, <2>2 DEF MemsTyped
  <1> QED BY <1>4, <1>6, <1>8, <1>9

(* A decay pass holds outdated candidates; memory_update's expected_version *)
(* keeps it from changing anything but what it read, so no step brings back *)
(* what has ended.                                                          *)
LEMMA MemNext ==
    ASSUME DreamTypeOK, CandidatesAreAsRead, [DreamNext]_dreamVars
    PROVE  MemoriesAge /\ MemsTyped'
  <1>1. MemsTyped
    BY DEF DreamTypeOK, MemsTyped
  <1>2. CASE mem' = mem
    BY <1>1, <1>2 DEF MemsTyped, MemoriesAge
  <1>3. ASSUME NEW r \in Runners, DecayOne(r) PROVE MemoriesAge /\ MemsTyped'
    <2>1. PICK leg \in {"active", "stale"}, i \in pass[r].todo : \E m \in i.ids :
             /\ InBody(r, "decay", leg)
             /\ mem' = IF Unchanged(m, i.ver)
                       THEN Moved(m, IF leg = "active" THEN "stale" ELSE "archived") ELSE mem
      BY <1>3 DEF DecayOne
    <2>2. PICK m \in i.ids :
             /\ InBody(r, "decay", leg)
             /\ mem' = IF Unchanged(m, i.ver)
                       THEN Moved(m, IF leg = "active" THEN "stale" ELSE "archived") ELSE mem
      BY <2>1
    <2>3. m \in Mems
      BY <2>1, <2>2 DEF DreamTypeOK, Passes, Items
    <2>4. mem[m].ver = i.ver => mem[m].status \in {leg, "gone"}
      BY <2>1, <2>2 DEF CandidatesAreAsRead, AsRead
    <2>5. CASE Unchanged(m, i.ver)
      <3>1. mem[m].status = leg
        BY <2>4, <2>5 DEF Unchanged
      <3> QED BY <1>1, <2>2, <2>3, <2>5, <3>1, MoveAges
    <2> QED BY <1>2, <2>2, <2>5
  <1>4. ASSUME Reviews PROVE MemoriesAge /\ MemsTyped'
    <2>1. CASE mem' # mem
      <3>1. PICK p \in ProposalIds : AcceptMerge(p)
        BY <1>4, <2>1 DEF Reviews, ReviewStep, RefuseMerge, RefusePromotion, AcceptConflict,
                          DismissProposal, ReviewTooLate, Refuses
      <3> QED BY <1>1, <3>1, AcceptedMerge
    <2> QED BY <1>2, <2>1
  <1>5. ASSUME NEW m \in Mems, ClientUpdate(m) PROVE MemoriesAge /\ MemsTyped'
    BY <1>1, <1>5, MoveAges DEF ClientUpdate
  <1>6. ASSUME NEW m \in Mems, ClientDelete(m) PROVE MemoriesAge /\ MemsTyped'
    BY <1>1, <1>6 DEF ClientDelete, MemsTyped, MemoriesAge, MemStatuses
  <1>7. ASSUME NEW r \in Runners, Works(r), ~DecayOne(r) PROVE mem' = mem
    BY <1>7 DEF Works, Loads, LoadActive, LoadStale, LoadSeeds, LoadEvidence, LoadPairs, Load,
                DecayMissing, Checks, CheckCluster, CheckItem, CheckKey, InsertProposal, EndBody,
                OnlyPassMoved
  <1>8. CASE UNCHANGED dreamVars
    BY <1>2, <1>8 DEF dreamVars
  <1> QED BY <1>2, <1>3, <1>4, <1>5, <1>6, <1>7, <1>8, StepKinds, BeginStep, AroundStep, LeaveStep
          DEF Clients

----------------------------------------------------------------------------
(* Who holds which lock. *)

LocksTyped ==
    /\ lock \in [Modes -> Runners \cup {Nobody}]
    /\ leak \subseteq Modes
    /\ pass \in [Runners -> Passes]
    /\ \A mode \in Modes :
          lock[mode] # Nobody <=> \/ mode \in leak
                                  \/ \E r \in Runners : pass[r].mode = mode /\ lock[mode] = r
RunsTyped ==
    /\ runRow \in [RunIds -> {"none", "running", "done", "failed"}]
    /\ nextRun \in Nat \ {0}
    /\ \A i \in RunIds : i >= nextRun => runRow[i] = "none"

(* Reviewers and clients are not in run_dream_pass.                         *)
LEMMA OutsidePasses ==
    ASSUME Reviews \/ Clients \/ UNCHANGED dreamVars
    PROVE  UNCHANGED <<runRow, lock, leak, pass, nextRun>>
  BY DEF Reviews, ReviewStep, AcceptMerge, RefuseMerge, RefusePromotion, AcceptConflict,
         DismissProposal, ReviewTooLate, Refuses, Answers, Clients, ClientUpdate, ClientDelete,
         ClientMove, passVars, dreamVars

(* The lock is taken by one runner at a time: a pooled connection that      *)
(* leaked it gives it again to its own process alone.                       *)
LEMMA LocksNext ==
    ASSUME DreamTypeOK, PassesHoldLocks, [DreamNext]_dreamVars
    PROVE  LocksTyped' /\ PassesHoldLocks'
  <1>1. /\ lock \in [Modes -> Runners \cup {Nobody}]
        /\ leak \subseteq Modes
        /\ pass \in [Runners -> Passes] /\ nextRun \in Nat
        /\ \A r \in Runners : pass[r].mode \in Modes \cup {"none"}
        /\ Nobody \notin Runners /\ "none" \notin Modes
    BY DreamRunners, DreamModes DEF DreamTypeOK, Passes, AllModes
  <1>2. \A mode \in Modes :
           lock[mode] # Nobody <=> \/ mode \in leak
                                   \/ \E r \in Runners : pass[r].mode = mode /\ lock[mode] = r
    BY DEF DreamTypeOK
  <1>3. \A r \in Runners :
           /\ pass[r].at \in {"idle", "down"} <=> pass[r].mode = "none"
           /\ pass[r].mode # "none" => /\ lock[pass[r].mode] = r
                                       /\ pass[r].run \in RunIds /\ pass[r].run < nextRun
    BY DEF PassesHoldLocks
  <1>4. ASSUME NEW r \in Runners, NEW mode \in Modes, BeginPass(r, mode)
        PROVE  LocksTyped' /\ PassesHoldLocks'
    <2>1. /\ pass[r].at = "idle" /\ pass[r].mode = "none"
          /\ pass' = [pass EXCEPT ![r] = pass'[r]]
          /\ pass'[r] \in Passes /\ pass'[r].at = "locked" /\ pass'[r].mode = mode
          /\ pass'[r].run = nextRun /\ nextRun <= MaxRuns /\ nextRun' = nextRun + 1
          /\ lock' = [lock EXCEPT ![mode] = r] /\ leak' = leak
      BY <1>3, <1>4, BeginStep
    <2>2. /\ \A q \in Runners \ {r} : pass'[q] = pass[q]
          /\ pass' \in [Runners -> Passes] /\ lock' \in [Modes -> Runners \cup {Nobody}]
          /\ lock'[mode] = r /\ \A o \in Modes \ {mode} : lock'[o] = lock[o]
      BY <1>1, <2>1
    <2>3. \A q \in Runners \ {r} : pass[q].mode # mode
      <3>1. lock[mode] = Nobody \/ lock[mode] = r
        BY <1>4 DEF BeginPass, LockFree
      <3> QED BY <1>1, <1>3, <3>1
    <2>4. pass'[r].run \in RunIds /\ pass'[r].run < nextRun'
      <3>1. nextRun \in Nat \ {0} /\ MaxRuns \in Nat
        BY DreamBounds DEF DreamTypeOK
      <3> QED BY <2>1, <3>1 DEF RunIds
    <2>5. PassesHoldLocks'
      <3>1. ASSUME NEW q \in Runners \ {r}
            PROVE  /\ pass'[q].at \in {"idle", "down"} <=> pass'[q].mode = "none"
                   /\ pass'[q].mode # "none" => /\ lock'[pass'[q].mode] = q
                                       /\ pass'[q].run \in RunIds /\ pass'[q].run < nextRun'
        <4>1. pass'[q].mode # "none" => pass[q].mode \in Modes \ {mode} /\ pass[q].run \in Nat
          BY <1>1, <2>2, <2>3, <3>1 DEF Passes
        <4> QED BY <1>1, <1>3, <2>1, <2>2, <2>3, <3>1, <4>1
      <3>2. pass'[r].mode # "none" /\ pass'[r].at \notin {"idle", "down"}
        BY <1>1, <2>1
      <3> QED BY <2>1, <2>2, <2>4, <3>1, <3>2 DEF PassesHoldLocks
    <2>6. LocksTyped'
      BY <1>1, <1>2, <1>3, <2>1, <2>2, <2>3 DEF LocksTyped
    <2> QED BY <2>5, <2>6
  <1>5. ASSUME NEW r \in Runners, Around(r) \/ Works(r)
        PROVE  LocksTyped' /\ PassesHoldLocks'
    <2>1. /\ pass' = [pass EXCEPT ![r] = pass'[r]] /\ pass'[r] \in Passes
          /\ pass[r].at \notin {"idle", "down"} /\ pass'[r].at \notin {"idle", "down"}
          /\ pass'[r].mode = pass[r].mode /\ pass'[r].run = pass[r].run
          /\ UNCHANGED <<lock, leak, nextRun>>
      BY <1>5, AroundStep, WorkStep
    <2>2. /\ \A q \in Runners : pass'[q].mode = pass[q].mode /\ pass'[q].run = pass[q].run
          /\ \A q \in Runners : pass'[q].at \in {"idle", "down"} <=> pass[q].at \in {"idle", "down"}
          /\ pass' \in [Runners -> Passes]
      BY <1>1, <2>1
    <2> QED BY <1>1, <1>2, <1>3, <2>1, <2>2 DEF LocksTyped, PassesHoldLocks
  <1>6. ASSUME NEW r \in Runners, Leaves(r)
        PROVE  LocksTyped' /\ PassesHoldLocks'
    <2>1. /\ pass' = [pass EXCEPT ![r] = pass'[r]] /\ pass'[r] \in Passes
          /\ pass'[r].at \in {"idle", "down"} /\ pass'[r].mode = "none" /\ nextRun' = nextRun
      BY <1>6, LeaveStep
    <2>2. /\ \A q \in Runners \ {r} : pass'[q] = pass[q]
          /\ pass' \in [Runners -> Passes]
      BY <1>1, <2>1
    <2>3. \A q \in Runners \ {r} : pass[q].mode # "none" => lock[pass[q].mode] # r
      BY <1>3
    <2>4. CASE Unlock(r)
      <3>1. pass[r].mode \in Modes /\ lock[pass[r].mode] = r
        BY <1>1, <1>3, <2>4 DEF Unlock
      <3>2. leak' = leak /\ lock' \in [Modes -> Runners \cup {Nobody}]
        BY <1>1, <2>4, <3>1 DEF Unlock
      <3>3. \A mode \in Modes \ {pass[r].mode} : lock'[mode] = lock[mode]
        BY <1>1, <2>4, <3>1 DEF Unlock
      <3>4. lock'[pass[r].mode] = IF pass[r].mode \in leak THEN r ELSE Nobody
        BY <1>1, <2>4, <3>1 DEF Unlock
      <3>5. PassesHoldLocks'
        BY <1>1, <1>3, <2>1, <2>2, <2>3, <3>1, <3>3 DEF PassesHoldLocks
      <3>6. ASSUME NEW mode \in Modes
            PROVE  (lock'[mode] # Nobody <=>
                      \/ mode \in leak'
                      \/ \E q \in Runners : pass'[q].mode = mode /\ lock'[mode] = q)
        <4>1. CASE mode = pass[r].mode
          BY <1>1, <1>3, <2>1, <2>2, <2>3, <3>1, <3>2, <3>4, <4>1
        <4>2. CASE mode # pass[r].mode
          BY <1>1, <1>2, <1>3, <2>1, <2>2, <3>1, <3>2, <3>3, <4>2
        <4> QED BY <4>1, <4>2
      <3> QED BY <1>1, <2>2, <3>2, <3>5, <3>6 DEF LocksTyped
    <2>5. CASE DatabaseError(r)
      <3>1. /\ pass[r].mode \in Modes /\ lock[pass[r].mode] = r
            /\ leak' = leak \cup {pass[r].mode} /\ lock' = lock
        BY <1>1, <1>3, <2>5 DEF DatabaseError
      <3>2. PassesHoldLocks'
        BY <1>1, <1>3, <2>1, <2>2, <3>1 DEF PassesHoldLocks
      <3>3. ASSUME NEW mode \in Modes
            PROVE  (lock'[mode] # Nobody <=>
                      \/ mode \in leak'
                      \/ \E q \in Runners : pass'[q].mode = mode /\ lock'[mode] = q)
        <4>1. CASE mode = pass[r].mode
          BY <1>1, <3>1, <4>1
        <4>2. CASE mode # pass[r].mode
          BY <1>1, <1>2, <2>1, <2>2, <3>1, <4>2
        <4> QED BY <4>1, <4>2
      <3> QED BY <1>1, <2>2, <3>1, <3>2, <3>3 DEF LocksTyped
    <2>6. CASE KillRunner(r)
      <3>1. /\ lock' = [mode \in Modes |-> IF lock[mode] = r THEN Nobody ELSE lock[mode]]
            /\ leak' = {mode \in leak : lock[mode] # r}
        BY <2>6 DEF KillRunner
      <3>2. PassesHoldLocks'
        BY <1>1, <1>3, <2>1, <2>2, <2>3, <3>1 DEF PassesHoldLocks
      <3> QED BY <1>1, <1>2, <2>1, <2>2, <2>3, <3>1, <3>2 DEF LocksTyped
    <2>7. CASE RestartRunner(r)
      <3>1. lock' = lock /\ leak' = leak /\ pass[r].mode = "none"
        BY <1>3, <2>7 DEF RestartRunner, OnlyPassMoved
      <3> QED BY <1>1, <1>2, <1>3, <2>1, <2>2, <3>1 DEF LocksTyped, PassesHoldLocks
    <2> QED BY <1>6, <2>4, <2>5, <2>6, <2>7 DEF Leaves
  <1>7. CASE UNCHANGED <<lock, leak, pass, nextRun>>
    BY <1>1, <1>2, <1>3, <1>7 DEF LocksTyped, PassesHoldLocks
  <1> QED BY <1>4, <1>5, <1>6, <1>7, StepKinds, OutsidePasses

(* A run id is given out once, and its row is written after that.           *)
LEMMA RunsNext ==
    ASSUME DreamTypeOK, PassesHoldLocks, [DreamNext]_dreamVars
    PROVE  RunsTyped'
  <1>1. RunsTyped
    BY DEF DreamTypeOK, RunsTyped
  <1>2. ASSUME NEW r \in Runners, NEW mode \in Modes, BeginPass(r, mode) PROVE RunsTyped'
    <2>1. runRow' = runRow /\ nextRun' = nextRun + 1 /\ nextRun \in Nat
      BY <1>1, <1>2, BeginStep DEF RunsTyped
    <2>2. \A i \in RunIds : i \in Nat
      BY DEF RunIds
    <2> QED BY <1>1, <2>1, <2>2 DEF RunsTyped
  <1>3. ASSUME NEW r \in Runners, Around(r) PROVE RunsTyped'
    <2>1. pass[r].run \in RunIds /\ pass[r].run < nextRun
      BY <1>3, AroundStep, DreamModes DEF PassesHoldLocks
    <2>2. nextRun' = nextRun /\ \/ runRow' = runRow
                                \/ \E s \in {"running", "done", "failed"} :
                                      runRow' = [runRow EXCEPT ![pass[r].run] = s]
      BY <1>3, AroundStep
    <2>3. \A i \in RunIds : i \in Nat
      BY DEF RunIds
    <2> QED BY <1>1, <2>1, <2>2, <2>3 DEF RunsTyped
  <1>4. CASE UNCHANGED <<runRow, nextRun>>
    BY <1>1, <1>4 DEF RunsTyped
  <1> QED BY <1>2, <1>3, <1>4, StepKinds, WorkStep, LeaveStep, OutsidePasses

----------------------------------------------------------------------------
(* What a pass has read and checked. *)

(* What _run_leg reads or drops stays as read, for as long as memories age. *)
LEMMA ReadNext ==
    ASSUME DreamTypeOK, CandidatesAreAsRead, [DreamNext]_dreamVars
    PROVE  CandidatesAreAsRead'
  <1>1. pass \in [Runners -> Passes] /\ mem \in [Mems -> [status : MemStatuses, ver : Nat]]
    BY DEF DreamTypeOK
  <1>2. MemoriesAge /\ mem' \in [Mems -> [status : MemStatuses, ver : Nat]]
    BY MemNext DEF MemsTyped
  <1>3. ASSUME NEW leg \in {"active", "stale"}, NEW i \in Items, AsRead(i, leg)
        PROVE  AsRead(i, leg)'
    <2>1. \A m \in i.ids : m \in Mems
      BY <1>3 DEF Items
    <2>2. i.ver \in Nat /\ \A m \in Mems : mem[m].ver \in Nat /\ mem'[m].ver \in Nat
      BY <1>1, <1>2 DEF Items
    <2> QED BY <1>2, <1>3, <2>1, <2>2 DEF AsRead, MemoriesAge
  <1>4. ASSUME NEW r \in Runners, NEW leg \in {"active", "stale"}, InBody(r, "decay", leg)',
               pass'[r].todo \subseteq pass[r].todo, InBody(r, "decay", leg)
        PROVE  \A i \in pass'[r].todo : AsRead(i, leg)'
    <2>1. \A i \in pass'[r].todo : i \in Items /\ AsRead(i, leg)
      BY <1>1, <1>4 DEF CandidatesAreAsRead, Passes
    <2> QED BY <1>3, <2>1
  <1>5. ASSUME NEW r \in Runners, NEW leg \in {"active", "stale"}, InBody(r, "decay", leg)',
               Works(r)
        PROVE  \A i \in pass'[r].todo : AsRead(i, leg)'
    <2>1. ASSUME NEW l \in {"active", "stale"}, mem' = mem, \E S \in Upto(With(l), Cap) :
                    Load(r, l, {Candidate(m) : m \in S})
          PROVE  \A i \in pass'[r].todo : AsRead(i, leg)'
      <3>1. PICK S \in SUBSET With(l) : pass'[r] = [pass[r] EXCEPT !.leg = l,
                                                       !.todo = {Candidate(m) : m \in S}]
        BY <1>1, <2>1 DEF Upto, Load, Put
      <3>2. pass'[r].leg = l /\ pass'[r].todo = {Candidate(m) : m \in S}
        BY <1>1, <3>1 DEF Passes
      <3>3. leg = l
        BY <1>5, <3>2 DEF InBody
      <3>4. \A m \in S : m \in Mems /\ mem[m].status = l /\ mem[m].ver \in Nat
        BY <1>1, <3>1 DEF With
      <3>5. \A m \in S : Candidate(m).ids = {m} /\ Candidate(m).ver = mem[m].ver
        BY DEF Candidate
      <3> QED BY <2>1, <3>2, <3>3, <3>4, <3>5 DEF AsRead
    <2>2. CASE LoadActive(r)
      BY <2>1, <2>2 DEF LoadActive, Load, OnlyPassMoved
    <2>3. CASE LoadStale(r)
      BY <2>1, <2>3 DEF LoadStale, Load, OnlyPassMoved
    <2>4. CASE DecayOne(r)
      <3>1. pass'[r].todo \subseteq pass[r].todo /\ InBody(r, "decay", leg)
        BY <1>1, <1>5, <2>4 DEF DecayOne, DropItem, Put, InBody, Passes
      <3> QED BY <1>4, <1>5, <3>1
    <2>5. CASE InsertProposal(r)
      <3>1. pass'[r].todo \subseteq pass[r].todo /\ InBody(r, "decay", leg)
        BY <1>1, <1>5, <2>5 DEF InsertProposal, Put, InBody, Passes
      <3> QED BY <1>4, <1>5, <3>1
    <2>6. CASE LoadSeeds(r) \/ LoadEvidence(r) \/ LoadPairs(r) \/ Checks(r)
      <3>1. pass[r].mode # "decay"
        BY <2>6 DEF LoadSeeds, LoadEvidence, LoadPairs, Checks, CheckCluster, CheckItem, InBody
      <3> QED BY <1>5, <3>1, WorkStep DEF InBody
    <2>7. CASE DecayMissing(r) \/ EndBody(r)
      <3>1. pass'[r].at # "body"
        BY <1>1, <2>7 DEF DecayMissing, Failed, EndBody, Put, Passes
      <3> QED BY <1>5, <3>1 DEF InBody
    <2> QED BY <1>5, <2>2, <2>3, <2>4, <2>5, <2>6, <2>7 DEF Works, Loads
  <1>6. ASSUME NEW r \in Runners, NEW leg \in {"active", "stale"}, InBody(r, "decay", leg)',
               pass'[r] = pass[r]
        PROVE  \A i \in pass'[r].todo : AsRead(i, leg)'
    <2>1. InBody(r, "decay", leg)
      BY <1>6 DEF InBody
    <2> QED BY <1>4, <1>6, <2>1
  <1>7. ASSUME NEW r \in Runners, NEW leg \in {"active", "stale"}, InBody(r, "decay", leg)'
        PROVE  \A i \in pass'[r].todo : AsRead(i, leg)'
    <2>1. \/ Works(r) \/ pass'[r] = pass[r]
          \/ Around(r) \/ Leaves(r) \/ \E mode \in Modes : BeginPass(r, mode)
      <3>1. \A q \in Runners : pass' = [pass EXCEPT ![q] = pass'[q]] /\ q # r
                                  => pass'[r] = pass[r]
        BY <1>1
      <3> QED BY <3>1, StepKinds, OutsidePasses, WorkStep, AroundStep, LeaveStep, BeginStep
    <2>2. pass'[r].at = "body" /\ pass'[r].leg = leg
      BY <1>7 DEF InBody
    <2> QED BY <1>5, <1>6, <1>7, <2>1, <2>2, AroundStep, LeaveStep, BeginStep
  <1> QED BY <1>7 DEF CandidatesAreAsRead

----------------------------------------------------------------------------
(* What happens to proposals. *)

\* A pass inserts p, a reviewer closes it, or nobody touches proposals.
Inserts(r, p) ==
    /\ proposal[p] = NoProposal
    /\ pass[r].mode \in AllModes \ {"decay"} /\ pass[r].key \in Keys
    /\ pass'[r].key = NoKey /\ mem' = mem
    /\ proposal' = [proposal EXCEPT ![p] = [kind |-> ProposalKind(pass[r].mode),
                                            key |-> pass[r].key, status |-> "open"]]
Closes(p) ==
    /\ proposal[p].status = "open"
    /\ \E s \in Reviewed :
          /\ proposal' = [proposal EXCEPT ![p].status = s]
          /\ s = "accepted" /\ proposal[p].kind = "merge_candidate" => AcceptMerge(p)

(* An insert keeps the key if the open row of another mode has it not.      *)
LEMMA InsertStep ==
    ASSUME DreamTypeOK, CheckedIsNew, NEW r \in Runners, InsertProposal(r)
    PROVE  proposal' = proposal \/ \E p \in ProposalIds : Inserts(r, p)
  <1> DEFINE free == {p \in ProposalIds : proposal[p] = NoProposal}
             n == CHOOSE p \in free : \A q \in free : p <= q
  <1>1. free \subseteq Nat
    BY DEF ProposalIds
  <1>2. free # {}
    BY DEF InsertProposal
  <1>3. n \in free
    BY <1>1, <1>2, Lowest
  <1>4. \/ proposal' = proposal
        \/ proposal' = [proposal EXCEPT ![n] = [kind |-> ProposalKind(pass[r].mode),
                                                key |-> pass[r].key, status |-> "open"]]
    BY DEF InsertProposal
  <1>5. pass[r].key # NoKey /\ mem' = mem
    BY DEF InsertProposal
  <1>6. pass[r] \in Passes /\ pass[r].key \in Keys
    BY DEF DreamTypeOK, Passes
  <1>7. pass[r].mode \in AllModes \ {"decay"}
    BY <1>5, <1>6, DreamModes DEF CheckedIsNew, Passes
  <1>8. pass'[r].key = NoKey
    BY <1>6 DEF InsertProposal, Put, Passes, DreamTypeOK
  <1>9. n \in ProposalIds /\ proposal[n] = NoProposal
    BY <1>3
  <1> HIDE DEF n, free
  <1>10. proposal' # proposal => Inserts(r, n)
    BY <1>4, <1>5, <1>6, <1>7, <1>8, <1>9 DEF Inserts
  <1> QED BY <1>9, <1>10

LEMMA ProposalSteps ==
    ASSUME DreamTypeOK, CheckedIsNew, [DreamNext]_dreamVars
    PROVE  \/ proposal' = proposal
           \/ \E r \in Runners, p \in ProposalIds : InsertProposal(r) /\ Inserts(r, p)
           \/ pass' = pass /\ \E p \in ProposalIds : Closes(p)
  <1>1. ASSUME Reviews
        PROVE  pass' = pass /\ (proposal' = proposal \/ \E p \in ProposalIds : Closes(p))
    BY <1>1 DEF Reviews, ReviewStep, AcceptMerge, RefuseMerge, RefusePromotion, AcceptConflict,
                DismissProposal, ReviewTooLate, Refuses, Answers, Close, Closes, Reviewed, passVars
  <1>2. ASSUME NEW r \in Runners, Works(r), ~InsertProposal(r) PROVE proposal' = proposal
    BY <1>2 DEF Works, Loads, LoadActive, LoadStale, LoadSeeds, LoadEvidence, LoadPairs, Load,
                DecayOne, DecayMissing, Checks, CheckCluster, CheckItem, CheckKey, EndBody,
                OnlyPassMoved
  <1>3. Clients \/ UNCHANGED dreamVars => proposal' = proposal
    BY DEF Clients, ClientUpdate, ClientDelete, ClientMove, dreamVars
  <1> QED BY <1>1, <1>2, <1>3, StepKinds, InsertStep, BeginStep, AroundStep, LeaveStep

(* An inserted proposal is a proposal; what it says of kind and ids stays.  *)
ProposalsTyped == proposal \in [ProposalIds -> Proposals]

LEMMA InsertedTyped ==
    ASSUME ProposalsTyped, NEW r, NEW p \in ProposalIds, Inserts(r, p)
    PROVE  /\ ProposalsTyped'
           /\ \A q \in ProposalIds : q # p => proposal'[q] = proposal[q]
           /\ proposal'[p].kind = ProposalKind(pass[r].mode)
           /\ proposal'[p].key = pass[r].key /\ proposal'[p].status = "open"
  <1>1. \A q \in ProposalIds : q # p => proposal'[q] = proposal[q]
    BY DEF Inserts, ProposalsTyped
  <1>2. proposal'[p] = [kind |-> ProposalKind(pass[r].mode), key |-> pass[r].key,
                        status |-> "open"]
    BY DEF Inserts, ProposalsTyped
  <1>3. ProposalKind(pass[r].mode) \in {ProposalKind(mode) : mode \in AllModes \ {"decay"}}
    BY DEF Inserts
  <1>4. proposal'[p] \in Proposals
    BY <1>2, <1>3 DEF Proposals, Inserts
  <1>5. ProposalsTyped'
    <2>1. /\ proposal \in [ProposalIds -> Proposals]
          /\ proposal' = [proposal EXCEPT ![p] = proposal'[p]]
      BY <1>2 DEF Inserts, ProposalsTyped
    <2> QED BY <1>4, <2>1 DEF ProposalsTyped
  <1> QED BY <1>1, <1>2, <1>5

LEMMA ClosedTyped ==
    ASSUME ProposalsTyped, NEW p \in ProposalIds, Closes(p)
    PROVE  /\ ProposalsTyped'
           /\ \A q \in ProposalIds : q # p => proposal'[q] = proposal[q]
           /\ proposal'[p].kind = proposal[p].kind /\ proposal'[p].key = proposal[p].key
           /\ proposal'[p].status \in Reviewed
           /\ proposal'[p].status = "accepted" /\ proposal[p].kind = "merge_candidate"
                 => AcceptMerge(p)
  <1>1. PICK s \in Reviewed :
           /\ proposal' = [proposal EXCEPT ![p].status = s]
           /\ s = "accepted" /\ proposal[p].kind = "merge_candidate" => AcceptMerge(p)
    BY DEF Closes
  <1>2. proposal[p] \in Proposals
    BY DEF ProposalsTyped
  <1>3. proposal'[p] = [proposal[p] EXCEPT !.status = s]
    BY <1>1 DEF ProposalsTyped
  <1>4. \A q \in ProposalIds : q # p => proposal'[q] = proposal[q]
    BY <1>1 DEF ProposalsTyped
  <1>5. /\ proposal'[p].kind = proposal[p].kind /\ proposal'[p].key = proposal[p].key
        /\ proposal'[p].status = s /\ proposal'[p] \in Proposals
    BY <1>2, <1>3 DEF Proposals
  <1>6. ProposalsTyped'
    BY <1>1, <1>5 DEF ProposalsTyped
  <1> QED BY <1>1, <1>4, <1>5, <1>6

LEMMA KindOfMode ==
    \A mode \in AllModes \ {"decay"} :
        /\ ProposalKind(mode) = "promotion_candidate" <=> mode = "promote"
        /\ ProposalKind(mode) = "merge_candidate" <=> mode = "dedupe"
  BY DEF AllModes, ProposalKind

(* What a promote pass checked is still new when it inserts it: only a pass *)
(* of the mode could propose it, and the lock of the mode is taken.         *)
LEMMA CheckedNext ==
    ASSUME DreamInv, [DreamNext]_dreamVars
    PROVE  CheckedIsNew'
  <1>1. /\ DreamTypeOK /\ PassesHoldLocks /\ CheckedIsNew /\ MergedAreSuperseded
        /\ pass \in [Runners -> Passes] /\ ProposalsTyped
    BY DEF DreamInv, DreamTypeOK, ProposalsTyped
  <1> DEFINE New(q) ==
        /\ pass'[q].mode \notin {"none", "decay"}
        /\ pass'[q].mode = "promote" =>
              \A p \in ProposalIds : proposal'[p].kind = "promotion_candidate"
                                        => proposal'[p].key # pass'[q].key
  <1>2. ASSUME NEW q \in Runners, pass'[q].key # NoKey, pass'[q].key = pass[q].key,
               pass'[q].mode = pass[q].mode
        PROVE  New(q)
    <2>1. /\ pass[q].mode \notin {"none", "decay"}
          /\ pass[q].mode = "promote" =>
              \A p \in ProposalIds : proposal[p].kind = "promotion_candidate"
                                        => proposal[p].key # pass[q].key
      BY <1>1, <1>2 DEF CheckedIsNew
    <2>2. CASE proposal' = proposal
      BY <1>2, <2>1, <2>2
    <2>3. ASSUME NEW r \in Runners, NEW p \in ProposalIds, Inserts(r, p) PROVE New(q)
      <3>1. CASE pass[q].mode = "promote" /\ pass[r].mode = "promote"
        <4>1. q = r
          BY <1>1, <3>1 DEF PassesHoldLocks
        <4> QED BY <1>2, <2>3, <4>1 DEF Inserts
      <3>2. CASE pass[q].mode = "promote" /\ pass[r].mode # "promote"
        <4>1. proposal'[p].kind # "promotion_candidate"
          BY <1>1, <2>3, <3>2, InsertedTyped, KindOfMode DEF Inserts
        <4>2. \A o \in ProposalIds : o # p => proposal'[o] = proposal[o]
          BY <1>1, <2>3, InsertedTyped
        <4> QED BY <1>2, <2>1, <4>1, <4>2
      <3>3. CASE pass[q].mode # "promote"
        BY <1>2, <2>1, <3>3
      <3> QED BY <3>1, <3>2, <3>3
    <2>4. ASSUME NEW p \in ProposalIds, Closes(p) PROVE New(q)
      <3>1. \A o \in ProposalIds : proposal'[o].kind = proposal[o].kind
                                      /\ proposal'[o].key = proposal[o].key
        BY <1>1, <2>4, ClosedTyped
      <3> QED BY <1>2, <2>1, <3>1
    <2> QED BY <1>1, <2>2, <2>3, <2>4, ProposalSteps
  <1>3. ASSUME NEW r \in Runners, NEW i, NEW key, CheckKey(r, i, key), pass'[r].key # NoKey,
               pass[r].mode \in AllModes \ {"decay"}
        PROVE  New(r)
    <2>1. /\ pass'[r].mode = pass[r].mode /\ pass'[r].key = key
          /\ proposal' = proposal
          /\ ~Proposed(pass[r].mode, key, CheckedStatuses(pass[r].mode))
      BY <1>1, <1>3 DEF CheckKey, Put, OnlyPassMoved, Passes
    <2>2. ASSUME pass[r].mode = "promote", NEW p \in ProposalIds,
                 proposal[p].kind = "promotion_candidate"
          PROVE  proposal[p].key # key
      <3>1. proposal[p].status \in {"open"} \cup Reviewed
        BY <1>1, <2>2 DEF MergedAreSuperseded, ProposalsTyped, Proposals
      <3>2. CheckedStatuses(pass[r].mode) = {"open"} \cup Reviewed
        BY <2>2 DEF CheckedStatuses
      <3>3. ProposalKind(pass[r].mode) = "promotion_candidate"
        BY <2>2 DEF ProposalKind
      <3> QED BY <2>1, <2>2, <3>1, <3>2, <3>3 DEF Proposed
    <2> QED BY <1>3, <2>1, <2>2 DEF AllModes
  <1>4. ASSUME NEW r \in Runners, Works(r), pass'[r].key # NoKey PROVE New(r)
    <2>1. CASE Checks(r)
      <3>1. pass[r].mode \in AllModes \ {"decay"}
        BY <2>1 DEF Checks, CheckCluster, CheckItem, InBody, AllModes
      <3> QED BY <1>3, <1>4, <2>1, <3>1 DEF Checks, CheckCluster, CheckItem
    <2>2. CASE InsertProposal(r) \/ EndBody(r) \/ DecayMissing(r)
      BY <1>1, <1>4, <2>2 DEF InsertProposal, EndBody, DecayMissing, Failed, Put, Passes
    <2>3. CASE Loads(r)
      <3>1. PICK leg, items : Load(r, leg, items)
        BY <2>3 DEF Loads, LoadActive, LoadStale, LoadSeeds, LoadEvidence, LoadPairs
      <3>2. pass'[r].key = pass[r].key
        BY <1>1, <3>1 DEF Load, Put, Passes
      <3> QED BY <1>1, <1>2, <1>4, <3>2, WorkStep
    <2>4. CASE DecayOne(r)
      <3>1. pass'[r].key = pass[r].key
        BY <1>1, <2>4 DEF DecayOne, DropItem, Put, Passes
      <3> QED BY <1>1, <1>2, <1>4, <3>1, WorkStep
    <2> QED BY <1>4, <2>1, <2>2, <2>3, <2>4 DEF Works
  <1>5. ASSUME NEW q \in Runners, pass'[q].key # NoKey PROVE New(q)
    <2>1. \/ Works(q) \/ pass'[q] = pass[q]
          \/ Around(q) \/ Leaves(q) \/ \E mode \in Modes : BeginPass(q, mode)
      <3>1. \A r \in Runners : pass' = [pass EXCEPT ![r] = pass'[r]] /\ q # r
                                  => pass'[q] = pass[q]
        BY <1>1
      <3> QED BY <1>1, <3>1, StepKinds, OutsidePasses, WorkStep, AroundStep, LeaveStep, BeginStep
    <2> QED BY <1>1, <1>2, <1>4, <1>5, <2>1, AroundStep, LeaveStep, BeginStep
  <1> QED BY <1>5 DEF CheckedIsNew

LEMMA PromotionNext ==
    ASSUME DreamInv, [DreamNext]_dreamVars
    PROVE  PromotionProposedOnce'
  <1>1. DreamTypeOK /\ CheckedIsNew /\ PromotionProposedOnce /\ ProposalsTyped
    BY DEF DreamInv, DreamTypeOK, ProposalsTyped
  <1>2. CASE proposal' = proposal
    BY <1>1, <1>2 DEF PromotionProposedOnce
  <1>3. ASSUME NEW r \in Runners, NEW p \in ProposalIds, InsertProposal(r), Inserts(r, p)
        PROVE  PromotionProposedOnce'
    <2>1. /\ \A q \in ProposalIds : q # p => proposal'[q] = proposal[q]
          /\ proposal'[p].kind = ProposalKind(pass[r].mode) /\ proposal'[p].key = pass[r].key
      BY <1>1, <1>3, InsertedTyped
    <2>2. proposal'[p].kind = "promotion_candidate" => pass[r].mode = "promote"
      BY <1>3, <2>1, KindOfMode DEF Inserts
    <2>3. pass[r].key # NoKey
      BY <1>3 DEF InsertProposal
    <2>4. \A q \in ProposalIds : /\ q # p /\ proposal'[q].kind = "promotion_candidate"
                                 /\ proposal'[p].kind = "promotion_candidate"
                                 => proposal'[q].key # proposal'[p].key
      BY <1>1, <2>1, <2>2, <2>3 DEF CheckedIsNew
    <2> QED BY <1>1, <2>1, <2>4 DEF PromotionProposedOnce
  <1>4. ASSUME NEW p \in ProposalIds, Closes(p) PROVE PromotionProposedOnce'
    <2>1. \A q \in ProposalIds : proposal'[q].kind = proposal[q].kind
                                    /\ proposal'[q].key = proposal[q].key
      BY <1>1, <1>4, ClosedTyped
    <2> QED BY <1>1, <2>1 DEF PromotionProposedOnce
  <1> QED BY <1>1, <1>2, <1>3, <1>4, ProposalSteps

(* An accept finds the sources active or stale, which those of an earlier   *)
(* merge are not.                                                           *)
LEMMA MergesNext ==
    ASSUME DreamInv, [DreamNext]_dreamVars
    PROVE  MergedAreSuperseded' /\ MergesAreDisjoint'
  <1>1. /\ DreamTypeOK /\ CandidatesAreAsRead /\ CheckedIsNew
        /\ MergedAreSuperseded /\ MergesAreDisjoint /\ ProposalsTyped
        /\ mem \in [Mems -> [status : MemStatuses, ver : Nat]]
        /\ \A p \in ProposalIds : proposal[p].key.ids \subseteq Mems
    BY DEF DreamInv, DreamTypeOK, ProposalsTyped, Proposals, Keys
  <1>2. MemoriesAge
    BY <1>1, MemNext
  <1>3. \A p \in ProposalIds :
           proposal[p].kind = "merge_candidate" /\ proposal[p].status = "accepted"
              => \A m \in proposal[p].key.ids : mem'[m].status = "superseded"
    BY <1>1, <1>2 DEF MergedAreSuperseded, MemoriesAge
  <1>4. CASE proposal' = proposal
    BY <1>1, <1>3, <1>4 DEF MergedAreSuperseded, MergesAreDisjoint
  <1>5. ASSUME NEW r \in Runners, NEW p \in ProposalIds, Inserts(r, p)
        PROVE  MergedAreSuperseded' /\ MergesAreDisjoint'
    <2>1. /\ \A q \in ProposalIds : q # p => proposal'[q] = proposal[q]
          /\ proposal'[p].status = "open"
      BY <1>1, <1>5, InsertedTyped
    <2> QED BY <1>1, <1>3, <2>1 DEF MergedAreSuperseded, MergesAreDisjoint
  <1>6. ASSUME NEW p \in ProposalIds, Closes(p)
        PROVE  MergedAreSuperseded' /\ MergesAreDisjoint'
    <2>1. /\ \A q \in ProposalIds : q # p => proposal'[q] = proposal[q]
          /\ proposal'[p].kind = proposal[p].kind /\ proposal'[p].key = proposal[p].key
          /\ proposal'[p].status \in Reviewed
          /\ proposal'[p].status = "accepted" /\ proposal[p].kind = "merge_candidate"
                => AcceptMerge(p)
      BY <1>1, <1>6, ClosedTyped
    <2>2. CASE proposal'[p].status = "accepted" /\ proposal[p].kind = "merge_candidate"
      <3>1. \A m \in proposal[p].key.ids :
               mem[m].status \in {"active", "stale"} /\ mem'[m].status = "superseded"
        BY <1>1, <2>1, <2>2, AcceptedMerge DEF MemsTyped
      <3>2. \A q \in ProposalIds :
               proposal[q].kind = "merge_candidate" /\ proposal[q].status = "accepted"
                  => proposal[q].key.ids \cap proposal[p].key.ids = {}
        BY <1>1, <3>1 DEF MergedAreSuperseded
      <3>3. MergedAreSuperseded'
        BY <1>1, <1>3, <2>1, <3>1 DEF MergedAreSuperseded, Reviewed
      <3>4. MergesAreDisjoint'
        BY <1>1, <2>1, <3>2 DEF MergesAreDisjoint
      <3> QED BY <3>3, <3>4
    <2>3. CASE ~(proposal'[p].status = "accepted" /\ proposal[p].kind = "merge_candidate")
      <3>1. MergedAreSuperseded'
        BY <1>1, <1>3, <2>1, <2>3 DEF MergedAreSuperseded, Reviewed
      <3>2. MergesAreDisjoint'
        BY <1>1, <2>1, <2>3 DEF MergesAreDisjoint
      <3> QED BY <3>1, <3>2
    <2> QED BY <2>2, <2>3
  <1> QED BY <1>1, <1>4, <1>5, <1>6, ProposalSteps

----------------------------------------------------------------------------
LEMMA DreamInvInit == DreamInit => DreamInv
  <1> SUFFICES ASSUME DreamInit PROVE DreamInv
    OBVIOUS
  <1> USE DEF DreamInit
  <1>1. mem \in [Mems -> [status : MemStatuses, ver : Nat]]
    BY DEF MemStatuses, NoMem
  <1>2. proposal \in [ProposalIds -> Proposals]
    BY NoKeyIsKey DEF Proposals, NoProposal
  <1>3. pass \in [Runners -> Passes]
    BY NoKeyIsKey DEF Passes, Idle
  <1>4. DreamTypeOK
    <2>1. /\ runRow \in [RunIds -> {"none", "running", "done", "failed"}]
          /\ lock \in [Modes -> Runners \cup {Nobody}]
          /\ leak \subseteq Modes /\ nextRun \in Nat \ {0}
          /\ \A i \in RunIds : i >= nextRun => runRow[i] = "none"
      OBVIOUS
    <2>2. \A mode \in Modes : lock[mode] = Nobody /\ mode \notin leak
      OBVIOUS
    <2>3. \A r \in Runners : Nobody # r
      BY DreamRunners
    <2> QED BY <1>1, <1>2, <1>3, <2>1, <2>2, <2>3 DEF DreamTypeOK
  <1>5. PassesHoldLocks /\ CandidatesAreAsRead /\ CheckedIsNew
    BY DEF PassesHoldLocks, CandidatesAreAsRead, CheckedIsNew, InBody, Idle
  <1>6. PromotionProposedOnce /\ MergedAreSuperseded /\ MergesAreDisjoint
    BY DEF PromotionProposedOnce, MergedAreSuperseded, MergesAreDisjoint, NoProposal
  <1> QED BY <1>4, <1>5, <1>6 DEF DreamInv

LEMMA DreamInvNext == DreamInv /\ [DreamNext]_dreamVars => DreamInv'
  <1> SUFFICES ASSUME DreamInv, [DreamNext]_dreamVars PROVE DreamInv'
    OBVIOUS
  <1>1. DreamTypeOK /\ PassesHoldLocks /\ CandidatesAreAsRead /\ CheckedIsNew /\ ProposalsTyped
    BY DEF DreamInv, DreamTypeOK, ProposalsTyped
  <1>2. ProposalsTyped'
    <2>1. proposal' = proposal => ProposalsTyped'
      BY <1>1 DEF ProposalsTyped
    <2> QED BY <1>1, <2>1, ProposalSteps, InsertedTyped, ClosedTyped
  <1>3. DreamTypeOK'
    BY <1>1, <1>2, MemNext, LocksNext, RunsNext
       DEF DreamTypeOK, MemsTyped, ProposalsTyped, LocksTyped, RunsTyped
  <1> QED BY <1>1, <1>3, LocksNext, ReadNext, CheckedNext, PromotionNext, MergesNext DEF DreamInv

(* Types, and exactly one pass or leaked connection behind every advisory   *)
(* lock that is held, whatever crashes or raises around a pass.             *)
THEOREM DreamInvariant == DreamSpec => []DreamInv
  <1>1. DreamInit => DreamInv
    BY DreamInvInit
  <1>2. DreamInv /\ [DreamNext]_dreamVars => DreamInv'
    BY DreamInvNext
  <1> QED BY <1>1, <1>2, PTL DEF DreamSpec

(* A lock is held exactly by a pass in progress or by a leak, and run rows  *)
(* are written only for run ids given out (run_dream_pass).                 *)
THEOREM DreamIsTyped == DreamSpec => []DreamTypeOK
  <1>1. DreamInv => DreamTypeOK
    BY DEF DreamInv
  <1> QED BY <1>1, DreamInvariant, PTL

(* run_promote proposes a set of evidence once, although it checks and      *)
(* inserts in two transactions.                                             *)
THEOREM PromotesOnce == DreamSpec => []PromotionProposedOnce
  <1>1. DreamInv => PromotionProposedOnce
    BY DEF DreamInv
  <1> QED BY <1>1, DreamInvariant, PTL

(* _accept_merge supersedes no memory for two proposals.                    *)
THEOREM MergesStayDisjoint == DreamSpec => []MergesAreDisjoint
  <1>1. DreamInv => MergesAreDisjoint
    BY DEF DreamInv
  <1> QED BY <1>1, DreamInvariant, PTL

(* A decay pass wakes nothing that was retired or merged after it was read. *)
THEOREM DecaySparesTheEnded == DreamSpec => EndedStaysEnded
  <1>1. DreamInv /\ [DreamNext]_dreamVars => [KeepsEnded]_dreamVars
    <2> SUFFICES ASSUME DreamInv, [DreamNext]_dreamVars PROVE KeepsEnded
      OBVIOUS
    <2>1. MemoriesAge
      BY MemNext DEF DreamInv
    <2> QED BY <2>1 DEF MemoriesAge, KeepsEnded
  <1> QED BY <1>1, DreamInvariant, PTL DEF DreamSpec, EndedStaysEnded

----------------------------------------------------------------------------
(* Salience: the reads that count accesses. *)

\* A read, when the rows M have changed.
Straddled(b, M) == [b EXCEPT !.alone = b.at = "idle" \/ (@ /\ M \cap b.bumpable = {})]

(* Rows that differ in the score alone are worth the same score.            *)
LEMMA ScoreIsNoInput ==
    ASSUME NEW a, NEW b, a.access = b.access, a.recent = b.recent, a.trusted = b.trusted,
           a.negative = b.negative, a.cites = b.cites, a.authority = b.authority,
           a.pinned = b.pinned
    PROVE  ComputeSalience(a) = ComputeSalience(b)
  BY DEF ComputeSalience, AccessTerm

(* What a row is worth after a read, and that the read's own write of the   *)
(* score is no input of it.                                                 *)
LEMMA Rescoring ==
    ASSUME NEW row, IsRow(row), NEW read
    PROVE  /\ IsRow(ScoredAsOf(row, read))
           /\ ScoredAsOf(row, read).access = row.access + 1
           /\ \A v : [row EXCEPT !.access = row.access + 1, !.recent = TRUE, !.score = v]
                       = [ReadAgain(row) EXCEPT !.score = v]
           /\ ComputeSalience(ScoredAsOf(row, row)) = ScoredAsOf(row, row).score
  <1> DEFINE again == ReadAgain(row)
  <1>1. IsRow(again) /\ again.access = row.access + 1
    BY DEF IsRow, ReadAgain
  <1>2. \A v : [row EXCEPT !.access = row.access + 1, !.recent = TRUE, !.score = v]
                 = [again EXCEPT !.score = v]
    BY DEF IsRow, ReadAgain
  <1> HIDE DEF again
  <1>3. \A v : LET new == [again EXCEPT !.score = v]
               IN  /\ IsRow(new) /\ new.score = v /\ new.access = again.access
                   /\ new.recent = again.recent /\ new.trusted = again.trusted
                   /\ new.negative = again.negative /\ new.cites = again.cites
                   /\ new.authority = again.authority /\ new.pinned = again.pinned
    BY <1>1 DEF IsRow
  <1>4. \A v : ComputeSalience([again EXCEPT !.score = v]) = ComputeSalience(again)
    BY <1>3, ScoreIsNoInput
  <1> QED BY <1>1, <1>2, <1>3, <1>4 DEF ScoredAsOf, again

(* The row a read turns to is one of its own that it has yet to write.      *)
LEMMA WantsWhatIsLeft ==
    ASSUME SalTypeOK, NEW r \in BumpReaders, ~AllWritten(r)
    PROVE  Wants(r) \in bump[r].bumpable \ WrittenBy(r) /\ Wants(r) \in ReadMemories
  <1> DEFINE ids  == bump[r].ids
             left == {i \in DOMAIN ids : ids[i] \in bump[r].bumpable \ WrittenBy(r)}
  <1>1. /\ ids \in Seq(ReadMemories)
        /\ bump[r].bumpable \subseteq {m \in ReadMemories : Named(ids, m)}
        /\ WrittenBy(r) \subseteq bump[r].bumpable
    BY DEF SalTypeOK, IsBump, WrittenBy
  <1>2. PICK m \in bump[r].bumpable : m \notin WrittenBy(r)
    BY <1>1 DEF AllWritten
  <1>3. left # {} /\ left \subseteq Nat
    BY <1>1, <1>2 DEF Named
  <1>4. (CHOOSE i \in left : \A j \in left : i <= j) \in left
    <2> HIDE DEF left
    <2> QED BY <1>3, Lowest
  <1> QED BY <1>1, <1>4 DEF Wants

LEMMA SalInvInit == SalInit => SalInv
  <1> SUFFICES ASSUME SalInit PROVE SalInv
    OBVIOUS
  <1>1. \A r \in BumpReaders : bump[r] = NoBump
    BY DEF SalInit
  <1>2. IsBump(NoBump) /\ DOMAIN NoBump.written = {} /\ NoBump.bumpable = {}
    BY DEF IsBump, NoBump
  <1>3. SalTypeOK
    <2>1. \A m \in ReadMemories : IsRow(scored_rows[m])
      BY DEF SalInit, IsRow
    <2>2. scored_rows = [m \in ReadMemories |-> scored_rows[m]]
      BY DEF SalInit
    <2>3. bump = [r \in BumpReaders |-> bump[r]] /\ bumpsDone \in [ReadMemories -> Nat]
      BY DEF SalInit
    <2> QED BY <1>1, <1>2, <2>1, <2>2, <2>3 DEF SalTypeOK
  <1>4. WritesAreLocked /\ AloneIsCurrent
    BY <1>1, <1>2 DEF WritesAreLocked, AloneIsCurrent, WrittenBy
  <1> QED BY <1>3, <1>4 DEF SalInv

LEMMA BeginKeeps ==
    ASSUME SalInv, NEW r \in BumpReaders, NEW ids \in ReadLists, BeginBump(r, ids)
    PROVE  SalInv'
  <1> DEFINE b == [at |-> "read", ids |-> ids,
                   bumpable |-> {m \in ReadMemories : Named(ids, m) /\ Bumpable(m)},
                   snap |-> scored_rows, written |-> <<>>, alone |-> TRUE]
  <1>1. bump' = [bump EXCEPT ![r] = b] /\ UNCHANGED <<scored_rows, bumpsDone>>
    BY DEF BeginBump
  <1>2. IsBump(b) /\ b.snap = scored_rows /\ DOMAIN b.written = {}
    BY ReadListsNameOnce DEF IsBump
  <1>3. SalTypeOK /\ WritesAreLocked /\ AloneIsCurrent
    BY DEF SalInv
  <1> HIDE DEF b
  <1>4. bump'[r] = b /\ \A d \in BumpReaders : d # r => bump'[d] = bump[d]
    BY <1>1, <1>3 DEF SalTypeOK
  <1>5. SalTypeOK'
    BY <1>1, <1>2, <1>3, <1>4 DEF SalTypeOK
  <1>6. WritesAreLocked'
    BY <1>1, <1>2, <1>3, <1>4 DEF WritesAreLocked, WrittenBy
  <1>7. AloneIsCurrent'
    BY <1>1, <1>2, <1>3, <1>4 DEF AloneIsCurrent
  <1> QED BY <1>5, <1>6, <1>7 DEF SalInv

LEMMA WriteKeeps ==
    ASSUME SalInv, NEW r \in BumpReaders, WriteBump(r)
    PROVE  SalInv'
  <1> DEFINE m == Wants(r)
             row == ScoredAsOf(scored_rows[m], bump[r].snap[m])
             w == [x \in WrittenBy(r) \cup {m} |-> IF x # m THEN bump[r].written[x] ELSE row]
  <1>1. SalTypeOK /\ WritesAreLocked /\ AloneIsCurrent
    BY DEF SalInv
  <1>2. /\ m \in bump[r].bumpable \ WrittenBy(r) /\ m \in ReadMemories
        /\ \A d \in BumpReaders : m \notin WrittenBy(d)
    BY <1>1, WantsWhatIsLeft DEF WriteBump, RowLocked
  <1>3. row = [scored_rows[m] EXCEPT !.access = AccessAfter(r, m), !.recent = TRUE,
                                     !.score = ComputeSalience(RowAfterRead(r, m))]
    <2>1. IsRow(scored_rows[m])
      BY <1>1, <1>2 DEF SalTypeOK
    <2> QED BY <2>1, Rescoring DEF AccessAfter, RowAfterRead, ScoredAsOf
  <1>4. bump' = [bump EXCEPT ![r].written = w] /\ UNCHANGED <<scored_rows, bumpsDone>>
    BY <1>3 DEF WriteBump
  <1>5. /\ DOMAIN w = WrittenBy(r) \cup {m} /\ w[m] = row
        /\ \A x \in WrittenBy(r) : w[x] = bump[r].written[x]
    BY <1>2
  <1> HIDE DEF w, m, row
  <1>6. IsBump(bump[r]) /\ bump = [d \in BumpReaders |-> bump[d]]
    BY <1>1 DEF SalTypeOK
  <1>7. LET b == [bump[r] EXCEPT !.written = w]
        IN  /\ DOMAIN b = DOMAIN bump[r] /\ b.at = bump[r].at /\ b.ids = bump[r].ids
            /\ b.bumpable = bump[r].bumpable /\ b.snap = bump[r].snap /\ b.written = w
            /\ b.alone = bump[r].alone
    BY <1>6 DEF IsBump
  <1>8. /\ DOMAIN bump'[r] = DOMAIN bump[r] /\ bump'[r].at = bump[r].at
        /\ bump'[r].ids = bump[r].ids /\ bump'[r].bumpable = bump[r].bumpable
        /\ bump'[r].snap = bump[r].snap /\ bump'[r].written = w
        /\ bump'[r].alone = bump[r].alone
        /\ \A d \in BumpReaders : d # r => bump'[d] = bump[d]
        /\ bump' = [d \in BumpReaders |-> bump'[d]]
    BY <1>4, <1>6, <1>7
  <1>9. /\ WrittenBy(r)' = WrittenBy(r) \cup {m}
        /\ \A d \in BumpReaders : d # r => WrittenBy(d)' = WrittenBy(d)
    BY <1>5, <1>8 DEF WrittenBy
  <1>10. SalTypeOK'
    <2>1. bump[r].at = "read"
      BY DEF WriteBump
    <2>2. IsBump(bump'[r])
      BY <1>2, <1>5, <1>6, <1>8, <2>1 DEF IsBump, WrittenBy
    <2> QED BY <1>1, <1>4, <1>8, <2>2 DEF SalTypeOK
  <1>11. WritesAreLocked'
    <2>1. \A e, d \in BumpReaders : e # d => WrittenBy(e) \cap WrittenBy(d) = {}
      BY <1>1 DEF WritesAreLocked
    <2>2. \A e, d \in BumpReaders : e # d => (WrittenBy(e) \cap WrittenBy(d))' = {}
      BY <1>2, <1>9, <2>1
    <2>3. ASSUME NEW d \in BumpReaders, NEW x \in WrittenBy(d)'
          PROVE  bump'[d].written[x] = ScoredAsOf(scored_rows'[x], bump'[d].snap[x])
      <3>1. CASE x \in WrittenBy(d)
        <4>1. bump[d].written[x] = ScoredAsOf(scored_rows[x], bump[d].snap[x])
          BY <1>1, <3>1 DEF WritesAreLocked
        <4>2. bump'[d].written[x] = bump[d].written[x] /\ bump'[d].snap = bump[d].snap
          BY <1>5, <1>8, <3>1
        <4> QED BY <1>4, <4>1, <4>2
      <3>2. CASE x \notin WrittenBy(d)
        <4>1. d = r /\ x = m
          BY <1>9, <3>2
        <4> QED BY <1>4, <1>5, <1>8, <4>1 DEF row
      <3> QED BY <3>1, <3>2
    <2> QED BY <2>2, <2>3 DEF WritesAreLocked
  <1>12. AloneIsCurrent'
    BY <1>1, <1>4, <1>8 DEF AloneIsCurrent
  <1> QED BY <1>10, <1>11, <1>12 DEF SalInv

LEMMA AbortKeeps ==
    ASSUME SalInv, NEW r \in BumpReaders, AbortBump(r)
    PROVE  SalInv'
  <1>1. bump' = [bump EXCEPT ![r] = NoBump] /\ UNCHANGED <<scored_rows, bumpsDone>>
    BY DEF AbortBump
  <1>2. IsBump(NoBump) /\ DOMAIN NoBump.written = {} /\ NoBump.bumpable = {}
    BY DEF IsBump, NoBump
  <1>3. SalTypeOK /\ WritesAreLocked /\ AloneIsCurrent
    BY DEF SalInv
  <1>4. bump'[r] = NoBump /\ \A d \in BumpReaders : d # r => bump'[d] = bump[d]
    BY <1>1, <1>3 DEF SalTypeOK
  <1>5. SalTypeOK'
    BY <1>1, <1>2, <1>3, <1>4 DEF SalTypeOK
  <1>6. WritesAreLocked'
    BY <1>1, <1>2, <1>3, <1>4 DEF WritesAreLocked, WrittenBy
  <1>7. AloneIsCurrent'
    BY <1>1, <1>2, <1>3, <1>4 DEF AloneIsCurrent
  <1> QED BY <1>5, <1>6, <1>7 DEF SalInv

(* What committing changed rows does to the other reads: they know that     *)
(* they were straddled, and lose nothing.                                   *)
LEMMA StraddleKeeps ==
    ASSUME NEW b, NEW M, IsBump(b)
    PROVE  /\ IsBump(Straddled(b, M))
           /\ Straddled(b, M).bumpable = b.bumpable /\ Straddled(b, M).snap = b.snap
           /\ Straddled(b, M).written = b.written /\ Straddled(b, M).at = b.at
           /\ Straddled(b, M).alone => \/ b.at = "idle"
                                       \/ b.alone /\ M \cap b.bumpable = {}
  BY DEF IsBump, Straddled

LEMMA RowsChange ==
    ASSUME SalInv, NEW M \in SUBSET ReadMemories, NEW old,
           old = [d \in BumpReaders |-> old[d]],
           \A d \in BumpReaders : \/ old[d] = bump[d] /\ M \cap WrittenBy(d) = {}
                                  \/ old[d] = NoBump,
           bump' = Straddle(old, M),
           scored_rows' = [m \in ReadMemories |-> scored_rows'[m]],
           \A m \in ReadMemories : IsRow(scored_rows'[m]),
           \A m \in ReadMemories \ M : scored_rows'[m] = scored_rows[m],
           bumpsDone' \in [ReadMemories -> Nat]
    PROVE  SalInv'
  <1>1. SalTypeOK /\ WritesAreLocked /\ AloneIsCurrent
    BY DEF SalInv
  <1>2. IsBump(NoBump) /\ DOMAIN NoBump.written = {} /\ NoBump.bumpable = {}
        /\ NoBump.at = "idle"
    BY DEF IsBump, NoBump
  <1>3. \A d \in BumpReaders : IsBump(old[d])
    BY <1>1, <1>2 DEF SalTypeOK
  <1>4. \A d \in BumpReaders : bump'[d] = Straddled(old[d], M)
    BY DEF Straddle, Straddled
  <1>5. \A d \in BumpReaders :
           /\ IsBump(bump'[d])
           /\ bump'[d].bumpable = old[d].bumpable /\ bump'[d].snap = old[d].snap
           /\ bump'[d].written = old[d].written
           /\ bump'[d].alone => \/ old[d].at = "idle"
                                \/ old[d].alone /\ M \cap old[d].bumpable = {}
    BY <1>3, <1>4, StraddleKeeps
  <1>6. bump' = [d \in BumpReaders |-> bump'[d]]
    BY DEF Straddle
  <1>7. SalTypeOK'
    BY <1>5, <1>6 DEF SalTypeOK
  <1>8. \A d \in BumpReaders : \/ WrittenBy(d)' = {}
                               \/ /\ old[d] = bump[d] /\ WrittenBy(d)' = WrittenBy(d)
                                  /\ M \cap WrittenBy(d) = {}
    BY <1>2, <1>5 DEF WrittenBy
  <1>9. WritesAreLocked'
    <2>1. \A e, d \in BumpReaders : e # d => (WrittenBy(e) \cap WrittenBy(d))' = {}
      BY <1>1, <1>8 DEF WritesAreLocked
    <2>2. ASSUME NEW d \in BumpReaders, NEW x \in WrittenBy(d)'
          PROVE  bump'[d].written[x] = ScoredAsOf(scored_rows'[x], bump'[d].snap[x])
      <3>1. old[d] = bump[d] /\ x \in WrittenBy(d) /\ x \notin M
        BY <1>8
      <3>2. x \in ReadMemories
        BY <1>1, <3>1 DEF SalTypeOK, IsBump, WrittenBy
      <3>3. scored_rows'[x] = scored_rows[x]
        BY <3>1, <3>2
      <3>4. bump'[d].written = bump[d].written /\ bump'[d].snap = bump[d].snap
        BY <1>5, <3>1
      <3>5. bump[d].written[x] = ScoredAsOf(scored_rows[x], bump[d].snap[x])
        BY <1>1, <3>1 DEF WritesAreLocked
      <3> QED BY <3>3, <3>4, <3>5
    <2> QED BY <2>1, <2>2 DEF WritesAreLocked
  <1>10. AloneIsCurrent'
    <2> SUFFICES ASSUME NEW d \in BumpReaders, bump'[d].alone, NEW m \in bump'[d].bumpable
                 PROVE  bump'[d].snap[m] = scored_rows'[m]
      BY DEF AloneIsCurrent
    <2>1. old[d].at # "idle"
      <3>1. IsBump(old[d]) /\ old[d].bumpable # {}
        BY <1>3, <1>5
      <3> QED BY <1>2, <3>1 DEF IsBump
    <2>2. old[d].alone /\ M \cap old[d].bumpable = {} /\ old[d] = bump[d]
      BY <1>2, <1>5, <2>1
    <2>3. m \in ReadMemories \ M
      BY <1>1, <1>5, <2>2 DEF SalTypeOK, IsBump
    <2> QED BY <1>1, <1>5, <2>2, <2>3 DEF AloneIsCurrent
  <1> QED BY <1>7, <1>9, <1>10 DEF SalInv

(* The row a read writes over.                                              *)
LEMMA WrittenRow ==
    ASSUME SalInv, NEW r \in BumpReaders, NEW m \in WrittenBy(r)
    PROVE  /\ m \in ReadMemories /\ m \in bump[r].bumpable
           /\ IsRow(scored_rows[m]) /\ IsRow(bump[r].written[m])
           /\ bump[r].written[m] = ScoredAsOf(scored_rows[m], bump[r].snap[m])
           /\ bump[r].written[m].access = scored_rows[m].access + 1
  <1>1. m \in ReadMemories /\ m \in bump[r].bumpable /\ IsRow(scored_rows[m])
    BY DEF SalInv, SalTypeOK, IsBump, WrittenBy
  <1>2. bump[r].written[m] = ScoredAsOf(scored_rows[m], bump[r].snap[m])
    BY DEF SalInv, WritesAreLocked
  <1>3. /\ IsRow(ScoredAsOf(scored_rows[m], bump[r].snap[m]))
        /\ ScoredAsOf(scored_rows[m], bump[r].snap[m]).access = scored_rows[m].access + 1
    BY <1>1, Rescoring
  <1> QED BY <1>1, <1>2, <1>3

LEMMA CommitKeeps ==
    ASSUME SalInv, NEW r \in BumpReaders, CommitBump(r)
    PROVE  SalInv'
  <1>1. SalTypeOK /\ WritesAreLocked
    BY DEF SalInv
  <1>2. WrittenBy(r) \in SUBSET ReadMemories
    BY <1>1 DEF SalTypeOK, IsBump, WrittenBy
  <1>3. \A m \in ReadMemories :
           scored_rows'[m] = IF m \in WrittenBy(r) THEN bump[r].written[m] ELSE scored_rows[m]
    BY DEF CommitBump
  <1>4. \A m \in ReadMemories : IsRow(scored_rows'[m])
    BY <1>1, <1>3, WrittenRow DEF SalTypeOK
  <1>5. /\ scored_rows' = [m \in ReadMemories |-> scored_rows'[m]]
        /\ bumpsDone' \in [ReadMemories -> Nat]
    BY <1>1 DEF CommitBump, SalTypeOK
  <1> DEFINE old == [bump EXCEPT ![r] = NoBump]
  <1>6. /\ old = [d \in BumpReaders |-> old[d]]
        /\ \A d \in BumpReaders : \/ old[d] = bump[d] /\ WrittenBy(r) \cap WrittenBy(d) = {}
                                  \/ old[d] = NoBump
    BY <1>1 DEF SalTypeOK, WritesAreLocked
  <1>7. bump' = Straddle(old, WrittenBy(r))
    BY DEF CommitBump
  <1> HIDE DEF old
  <1> QED BY <1>2, <1>3, <1>4, <1>5, <1>6, <1>7, RowsChange

LEMMA EditKeeps ==
    ASSUME SalInv, NEW m \in ReadMemories, NEW row, IsRow(row), EditRow(m, row)
    PROVE  SalInv'
  <1>1. SalTypeOK
    BY DEF SalInv
  <1>2. scored_rows' = [scored_rows EXCEPT ![m] = row] /\ UNCHANGED bumpsDone
    BY DEF EditRow
  <1>3. /\ scored_rows' = [x \in ReadMemories |-> scored_rows'[x]]
        /\ \A x \in ReadMemories : IsRow(scored_rows'[x])
        /\ \A x \in ReadMemories \ {m} : scored_rows'[x] = scored_rows[x]
        /\ bumpsDone' \in [ReadMemories -> Nat]
    BY <1>1, <1>2 DEF SalTypeOK
  <1>4. \A d \in BumpReaders : bump[d] = bump[d] /\ {m} \cap WrittenBy(d) = {}
    BY DEF EditRow, RowLocked
  <1>5. bump = [d \in BumpReaders |-> bump[d]] /\ bump' = Straddle(bump, {m})
    BY <1>1 DEF SalTypeOK, EditRow
  <1> QED BY <1>3, <1>4, <1>5, RowsChange

(* What the writers other than the reads do to a row.                       *)
LEMMA EditKinds ==
    ASSUME SalInv, NEW m \in ReadMemories, UpdateInputs(m) \/ CiteRow(m) \/ RescoreRow(m)
    PROVE  \E row : EditRow(m, row) /\ IsRow(row) /\ row.access = scored_rows[m].access
  <1>1. IsRow(scored_rows[m])
    BY DEF SalInv, SalTypeOK
  <1> DEFINE old == scored_rows[m]
             Fine(row) == IsRow(row) /\ row.access = old.access
  <1>2. \A v : /\ Fine([old EXCEPT !.trusted = v]) /\ Fine([old EXCEPT !.pinned = v])
               /\ Fine([old EXCEPT !.status = v]) /\ Fine([old EXCEPT !.cites = v])
    BY <1>1 DEF IsRow
  <1>3. \A v, x : Fine([[old EXCEPT !.recent = v] EXCEPT !.score = x])
    BY <1>1 DEF IsRow
  <1>4. \A k, v : [old EXCEPT !.cites[k] = v] = [old EXCEPT !.cites = [old.cites EXCEPT ![k] = v]]
    BY <1>1 DEF IsRow
  <1> HIDE DEF Fine
  <1>5. CASE UpdateInputs(m)
    BY <1>2, <1>5 DEF UpdateInputs, Fine
  <1>6. CASE CiteRow(m)
    BY <1>2, <1>4, <1>6 DEF CiteRow, Fine
  <1>7. CASE RescoreRow(m)
    BY <1>3, <1>7 DEF RescoreRow, Fine
  <1> QED BY <1>5, <1>6, <1>7

LEMMA SalInvNext == SalInv /\ [SalNext]_salVars => SalInv'
  <1> SUFFICES ASSUME SalInv, [SalNext]_salVars PROVE SalInv'
    OBVIOUS
  <1>1. ASSUME NEW r \in BumpReaders, ReadSteps(r) PROVE SalInv'
    BY <1>1, WriteKeeps, AbortKeeps, CommitKeeps DEF ReadSteps
  <1>2. ASSUME NEW r \in BumpReaders, NEW ids \in ReadLists, BeginBump(r, ids) PROVE SalInv'
    BY <1>2, BeginKeeps
  <1>3. ASSUME NEW m \in ReadMemories, UpdateInputs(m) \/ CiteRow(m) \/ RescoreRow(m)
        PROVE  SalInv'
    BY <1>3, EditKinds, EditKeeps
  <1>4. CASE UNCHANGED salVars
    BY <1>4 DEF salVars, SalInv, SalTypeOK, WritesAreLocked, AloneIsCurrent, WrittenBy
  <1> QED BY <1>1, <1>2, <1>3, <1>4 DEF SalNext

(* Rows and reads are records; a read holds the rows it has written until   *)
(* it commits, and knows when what it read has changed.                     *)
THEOREM SalienceInvariant == SalSpec => []SalInv
  <1> QED BY SalInvInit, SalInvNext, PTL DEF SalSpec

(* Each read of a memory counts: access_count grows by one for every read   *)
(* that commits and for nothing else, however reads overlap                 *)
(* (memory_get, memory_get_many).                                           *)
THEOREM AccessesCount == SalSpec => AccessesAreCounted
  <1> DEFINE P == \A m \in ReadMemories :
                     scored_rows'[m].access - scored_rows[m].access = bumpsDone'[m] - bumpsDone[m]
  <1>1. SalInv /\ [SalNext]_salVars => [P]_salVars
    <2> SUFFICES ASSUME SalInv, SalNext, NEW m \in ReadMemories
                 PROVE  scored_rows'[m].access - scored_rows[m].access
                          = bumpsDone'[m] - bumpsDone[m]
      OBVIOUS
    <2>1. scored_rows[m].access \in Nat /\ bumpsDone[m] \in Nat
      BY DEF SalInv, SalTypeOK, IsRow
    <2>2. CASE UNCHANGED <<scored_rows, bumpsDone>>
      BY <2>1, <2>2
    <2>3. ASSUME NEW r \in BumpReaders, CommitBump(r)
          PROVE  scored_rows'[m].access - scored_rows[m].access = bumpsDone'[m] - bumpsDone[m]
      <3>1. /\ scored_rows'[m] = IF m \in WrittenBy(r) THEN bump[r].written[m] ELSE scored_rows[m]
            /\ bumpsDone'[m] = IF m \in WrittenBy(r) THEN bumpsDone[m] + 1 ELSE bumpsDone[m]
        BY <2>3 DEF CommitBump
      <3>2. m \in WrittenBy(r) => bump[r].written[m].access = scored_rows[m].access + 1
        BY WrittenRow
      <3> QED BY <2>1, <3>1, <3>2
    <2>4. ASSUME NEW x \in ReadMemories, UpdateInputs(x) \/ CiteRow(x) \/ RescoreRow(x)
          PROVE  scored_rows'[m].access - scored_rows[m].access = bumpsDone'[m] - bumpsDone[m]
      <3>1. PICK row : EditRow(x, row) /\ row.access = scored_rows[x].access
        BY <2>4, EditKinds
      <3>2. scored_rows'[m].access = scored_rows[m].access /\ bumpsDone'[m] = bumpsDone[m]
        BY <3>1 DEF EditRow, SalInv, SalTypeOK
      <3> QED BY <2>1, <3>2
    <2> QED BY <2>2, <2>3, <2>4 DEF SalNext, ReadSteps, BeginBump, WriteBump, AbortBump
  <1> QED BY <1>1, SalienceInvariant, PTL DEF SalSpec, AccessesAreCounted

(* A read that nothing straddled scores the row it commits, for all that    *)
(* the score was computed before the row was locked (compute_salience).     *)
THEOREM QuietReadsScore == SalSpec => QuietBumpScoresTheRow
  <1> DEFINE P == \A r \in BumpReaders :
                     (bump[r].at = "read" /\ bump'[r].at = "idle" /\ bump[r].alone) =>
                         \A m \in WrittenBy(r) :
                             bumpsDone'[m] # bumpsDone[m] =>
                                 scored_rows'[m].score = ComputeSalience(scored_rows'[m])
  <1>1. SalInv /\ [SalNext]_salVars => [P]_salVars
    <2> SUFFICES ASSUME SalInv, SalNext, NEW r \in BumpReaders,
                        bump[r].at = "read", bump'[r].at = "idle", bump[r].alone,
                        NEW m \in WrittenBy(r), bumpsDone'[m] # bumpsDone[m]
                 PROVE  scored_rows'[m].score = ComputeSalience(scored_rows'[m])
      OBVIOUS
    <2>1. CommitBump(r)
      <3>1. ~UNCHANGED bumpsDone
        OBVIOUS
      <3>2. PICK d \in BumpReaders : CommitBump(d)
        BY <3>1 DEF SalNext, ReadSteps, BeginBump, WriteBump, AbortBump, UpdateInputs,
                    CiteRow, RescoreRow, EditRow
      <3>3. ASSUME d # r PROVE FALSE
        <4>1. bump'[r].at = bump[r].at
          BY <3>2, <3>3 DEF CommitBump, Straddle, SalInv, SalTypeOK, IsBump
        <4> QED BY <4>1
      <3> QED BY <3>2, <3>3
    <2>2. /\ m \in ReadMemories /\ m \in bump[r].bumpable /\ IsRow(scored_rows[m])
          /\ bump[r].written[m] = ScoredAsOf(scored_rows[m], bump[r].snap[m])
      BY WrittenRow
    <2>3. scored_rows'[m] = bump[r].written[m]
      BY <2>1, <2>2 DEF CommitBump
    <2>4. bump[r].snap[m] = scored_rows[m]
      BY <2>2 DEF SalInv, AloneIsCurrent
    <2>5. scored_rows'[m] = ScoredAsOf(scored_rows[m], scored_rows[m])
      BY <2>2, <2>3, <2>4
    <2>6. ComputeSalience(ScoredAsOf(scored_rows[m], scored_rows[m]))
            = ScoredAsOf(scored_rows[m], scored_rows[m]).score
      BY <2>2, Rescoring
    <2> QED BY <2>5, <2>6
  <1> QED BY <1>1, SalienceInvariant, PTL DEF SalSpec, QuietBumpScoresTheRow

=============================================================================
