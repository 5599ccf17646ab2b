------------------------------- MODULE Dream -------------------------------
(***************************************************************************)
(* Dream curation of one env: the passes of the dream worker, the advisory *)
(* lock and the run rows around them (dream_worker/, dream/passes/), and   *)
(* the reviewer who acts on their proposals (dream/api.py).                *)
(*                                                                         *)
(* A runner is whoever calls run_dream_pass: a replica's scheduler tick or *)
(* a dream_run tool call.  Every read, insert and update of a pass is a    *)
(* transaction of its own, so clients, reviewers and other runners move    *)
(* between any two of them.  Kinds, salience, similarity and idleness are  *)
(* left open: a pass may select any rows that its query could admit.  What *)
(* the recount pass does is in Popularity and Authority.                   *)
(***************************************************************************)
EXTENDS Naturals, FiniteSets

CONSTANTS
    Runners,       \* concurrent callers of run_dream_pass, numbers from 1
    Modes,         \* DreamMode, a subset of AllModes
    Given,         \* memories there are at the start, all active
    Subjects,      \* entities that observations name
    Cap,           \* batch caps: items one load of a pass returns
    MaxMems,       \* bound: memory ids handed out
    MaxMoves,      \* bound: changes that clients make
    MaxProposals,  \* bound: proposals inserted
    MaxRuns,       \* bound: passes begun
    MaxFaults      \* bound: crashes and database errors outside a pass body

AllModes == {"decay", "dedupe", "promote", "decision_conflicts"}
Mems == 1..MaxMems
RunIds == 1..MaxRuns
ProposalIds == 1..MaxProposals
Nobody == 0
NoSubject == "none"

ASSUME DreamModes == Modes \subseteq AllModes
ASSUME DreamGiven == Given \subseteq Mems
ASSUME DreamRunners == Runners \subseteq Nat \ {Nobody}
ASSUME DreamBounds == {MaxMems, MaxProposals, MaxRuns} \subseteq Nat

VARIABLES
    mem,        \* mem[m]: status and version of a memory
    proposal,   \* proposal[p]: kind, dedupe_key and status
    runRow,     \* runRow[i]: status of the dream_runs row, "none" before it
    beat,       \* beat[mode]: status of the dream_heartbeats row
    lock,       \* lock[mode]: runner whose connection holds the advisory lock
    leak,       \* modes whose lock went back to the pool with its connection
    pass,       \* pass[r]: where runner r is in run_dream_pass
    nextRun,    \* next run id
    malformed,  \* a dream_review call answered InvalidInputError
    faults,     \* faults so far
    moves       \* changes by clients so far

passVars == <<runRow, beat, lock, leak, pass, nextRun>>
dreamVars == <<mem, proposal, passVars, malformed, faults, moves>>

MemStatuses == {"none", "active", "stale", "archived", "superseded", "retired", "gone"}
NoMem == [status |-> "none", ver |-> 0]
NoKey == [of |-> NoSubject, ids |-> {}]
NoProposal == [kind |-> "none", key |-> NoKey, status |-> "none"]
Idle == [at |-> "idle", mode |-> "none", run |-> 0, leg |-> "none",
         todo |-> {}, key |-> NoKey, seen |-> {}]

With(status) == {m \in Mems : mem[m].status = status}
Known == Mems \ With("none")
Upto(S, n) == {T \in SUBSET S : Cardinality(T) <= n}

\* Changes of a memory row: always the next version.
Moved(m, s) == [mem EXCEPT ![m].status = s, ![m].ver = @ + 1]

OnlyPassMoved == UNCHANGED <<mem, proposal, runRow, beat, lock, leak, nextRun,
                             malformed, faults, moves>>

Put(r, rec) == pass' = [pass EXCEPT ![r] = rec]

----------------------------------------------------------------------------
(* run_dream_pass around the body *)

\* Mutant: the pass runs whether or not the lock was taken.
LockFree_Always(r, mode) == TRUE

\* pg_try_advisory_lock: free, or already held by the very connection the pool
\* hands out (session locks are re-entrant).  Else the pass is skipped.
LockFree(r, mode) == lock[mode] = Nobody \/ (mode \in leak /\ lock[mode] = r)

BeginPass(r, mode) ==
    /\ pass[r].at = "idle" /\ nextRun <= MaxRuns
    /\ LockFree(r, mode)
    /\ lock' = [lock EXCEPT ![mode] = r]
    /\ nextRun' = nextRun + 1
    /\ Put(r, [Idle EXCEPT !.at = "locked", !.mode = mode, !.run = nextRun])
    /\ UNCHANGED <<mem, proposal, runRow, beat, leak, malformed, faults, moves>>

InsertRun(r) ==
    /\ pass[r].at = "locked"
    /\ runRow' = [runRow EXCEPT ![pass[r].run] = "running"]
    /\ Put(r, [pass[r] EXCEPT !.at = "body", !.leg = "load"])
    /\ UNCHANGED <<mem, proposal, beat, lock, leak, nextRun, malformed, faults, moves>>

FinalizeRun(r) ==
    /\ pass[r].at \in {"done", "failed"}
    /\ runRow' = [runRow EXCEPT ![pass[r].run] = pass[r].at]
    /\ Put(r, [pass[r] EXCEPT !.at = "beat"])
    /\ UNCHANGED <<mem, proposal, beat, lock, leak, nextRun, malformed, faults, moves>>

\* update_heartbeat: healthy after success, down after a failure.
Heartbeat(r) ==
    /\ pass[r].at = "beat"
    /\ beat' = [beat EXCEPT ![pass[r].mode] =
                  IF runRow[pass[r].run] = "done" THEN "healthy" ELSE "down"]
    /\ Put(r, [pass[r] EXCEPT !.at = "unlock"])
    /\ UNCHANGED <<mem, proposal, runRow, lock, leak, nextRun, malformed, faults, moves>>

\* pg_advisory_unlock undoes one acquisition: a leaked one remains.
Unlock(r) ==
    /\ pass[r].at = "unlock"
    /\ lock' = IF pass[r].mode \in leak THEN lock
               ELSE [lock EXCEPT ![pass[r].mode] = Nobody]
    /\ Put(r, Idle)
    /\ UNCHANGED <<mem, proposal, runRow, beat, leak, nextRun, malformed, faults, moves>>

\* The insert, the finalize or the heartbeat raises, or the task is cancelled:
\* session_scope rolls back and returns the connection to the pool, lock and all.
DatabaseError(r) ==
    /\ pass[r].at \notin {"idle", "down"} /\ faults < MaxFaults
    /\ leak' = leak \cup {pass[r].mode}
    /\ Put(r, Idle)
    /\ faults' = faults + 1
    /\ UNCHANGED <<mem, proposal, runRow, beat, lock, nextRun, malformed, moves>>

\* The process dies; Postgres frees the locks of its connections.
KillRunner(r) ==
    /\ pass[r].at # "down" /\ faults < MaxFaults
    /\ lock' = [mode \in Modes |-> IF lock[mode] = r THEN Nobody ELSE lock[mode]]
    /\ leak' = {mode \in leak : lock[mode] # r}
    /\ Put(r, [Idle EXCEPT !.at = "down"])
    /\ faults' = faults + 1
    /\ UNCHANGED <<mem, proposal, runRow, beat, nextRun, malformed, moves>>

RestartRunner(r) ==
    /\ pass[r].at = "down"
    /\ Put(r, Idle)
    /\ OnlyPassMoved

----------------------------------------------------------------------------
(* The bodies.  leg is the load or loop the body is in, todo what it loaded *)
(* and has not handled, key what it checked and is about to insert.         *)

InBody(r, mode, leg) ==
    pass[r].at = "body" /\ pass[r].mode = mode /\ pass[r].leg = leg

Load(r, leg, items) ==
    /\ Put(r, [pass[r] EXCEPT !.leg = leg, !.todo = items])
    /\ OnlyPassMoved

Candidate(m) == [of |-> NoSubject, ids |-> {m}, ver |-> mem[m].ver]
Item(e, ids) == [of |-> e, ids |-> ids, ver |-> 0]

\* _build_dedupe_key: the ids of the memories, and for promote the entity.
DedupeKey(e, ids) == [of |-> e, ids |-> ids]

\* Decay, first leg: idle active memories that are not pinned.
LoadActive(r) ==
    /\ InBody(r, "decay", "load")
    /\ \E S \in Upto(With("active"), Cap) : Load(r, "active", {Candidate(m) : m \in S})

\* Second leg, read after the first is through.
LoadStale(r) ==
    /\ InBody(r, "decay", "active") /\ pass[r].todo = {}
    /\ \E S \in Upto(With("stale"), Cap) : Load(r, "stale", {Candidate(m) : m \in S})

DropItem(r, i) == Put(r, [pass[r] EXCEPT !.todo = @ \ {i}])

\* Mutant: memory_update is called without expected_version.
Unchanged_Unchecked(m, v) == mem[m].status # "gone"

Unchanged(m, v) == mem[m].status # "gone" /\ mem[m].ver = v

\* memory_update(expected_version) under the row lock: the next status, or a
\* version conflict that is counted and skipped.
DecayOne(r) ==
    \E leg \in {"active", "stale"}, i \in pass[r].todo :
      \E m \in i.ids :
        /\ InBody(r, "decay", leg)
        /\ mem[m].status # "gone"
        /\ mem' = IF Unchanged(m, i.ver)
                  THEN Moved(m, IF leg = "active" THEN "stale" ELSE "archived") ELSE mem
        /\ DropItem(r, i)
        /\ UNCHANGED <<proposal, runRow, beat, lock, leak, nextRun, malformed, faults, moves>>

\* Mutant: the error leaves run_dream_pass.
Failed_Escapes(r) == Put(r, Idle)

\* except Exception: the run is to be finalized as failed.
Failed(r) == Put(r, [pass[r] EXCEPT !.at = "failed", !.todo = {}, !.key = NoKey])

\* The candidate was hard-deleted: NotFoundError is not the conflict _run_leg
\* expects, and ends the pass.
DecayMissing(r) ==
    /\ \E leg \in {"active", "stale"} : InBody(r, "decay", leg)
    /\ \E i \in pass[r].todo : \E m \in i.ids : mem[m].status = "gone"
    /\ Failed(r)
    /\ OnlyPassMoved

\* Dedupe: recently updated active memories are the seeds.
LoadSeeds(r) ==
    /\ InBody(r, "dedupe", "load")
    /\ \E S \in Upto(With("active"), Cap) : Load(r, "seeds", {Item(NoSubject, {m}) : m \in S})

\* Promote: active observations and, for each entity that enough of them name,
\* the newest of those as evidence; two entities may share it.
LoadEvidence(r) ==
    /\ InBody(r, "promote", "load")
    /\ \E E \in SUBSET Subjects :
          \E evidence \in [E -> {S \in SUBSET With("active") : Cardinality(S) >= 2}] :
              Load(r, "clusters", {Item(e, evidence[e]) : e \in E})

\* Decision conflicts: close pairs of decisions, whatever status the rows have.
LoadPairs(r) ==
    /\ InBody(r, "decision_conflicts", "load")
    /\ \E P \in Upto({S \in SUBSET (Known \ With("gone")) : Cardinality(S) = 2}, Cap) :
              Load(r, "pairs", {Item(NoSubject, S) : S \in P})

\* Qdrant's answer for a seed: memories of its kind whose points say active,
\* which may lag behind the rows.
Neighbours(m) == Known \ {m}

ProposalKind(mode) ==
    CASE mode = "dedupe"             -> "merge_candidate"
      [] mode = "promote"            -> "promotion_candidate"
      [] mode = "decision_conflicts" -> "decision_conflict_candidate"

Proposed(mode, key, S) ==
    \E p \in ProposalIds : /\ proposal[p].kind = ProposalKind(mode)
                           /\ proposal[p].key = key
                           /\ proposal[p].status \in S

Reviewed == {"accepted", "dismissed"}

\* Mutant: promote looks at open proposals, as dedupe does.
CheckedStatuses_Open(mode) == IF mode = "decision_conflicts" THEN {} ELSE {"open"}

\* _open_proposal_exists: open ones for dedupe, any for promote, no check for
\* decision conflicts.
CheckedStatuses(mode) ==
    CASE mode = "dedupe"             -> {"open"}
      [] mode = "promote"            -> {"open"} \cup Reviewed
      [] mode = "decision_conflicts" -> {}

\* The next item: its key is skipped if this run or a checked proposal has it,
\* and summarized otherwise.
CheckKey(r, i, key) ==
    LET known == \/ key \in pass[r].seen
                 \/ Proposed(pass[r].mode, key, CheckedStatuses(pass[r].mode))
    IN  /\ Put(r, [pass[r] EXCEPT !.todo = @ \ {i},
                                   !.key = IF known THEN NoKey ELSE key,
                                   !.seen = IF known /\ pass[r].mode = "dedupe"
                                            THEN @ \cup {key} ELSE @])
        /\ OnlyPassMoved

CheckCluster(r) ==
    /\ InBody(r, "dedupe", "seeds") /\ pass[r].key = NoKey
    /\ \E i \in pass[r].todo : \E m \in i.ids : \E N \in SUBSET Neighbours(m) :
          CheckKey(r, i, IF N = {} THEN NoKey ELSE DedupeKey(NoSubject, N \cup {m}))

\* proposals_emitted reached the cap: promote leaves the other entities.
CapReached(r) == pass[r].mode = "promote" /\ Cardinality(pass[r].seen) >= Cap

CheckItem(r) ==
    /\ InBody(r, "promote", "clusters") \/ InBody(r, "decision_conflicts", "pairs")
    /\ pass[r].key = NoKey /\ ~CapReached(r)
    /\ \E i \in pass[r].todo : CheckKey(r, i, DedupeKey(i.of, i.ids))

\* INSERT ... ON CONFLICT DO NOTHING on the unique index over open proposals.
InsertProposal(r) ==
    LET mode == pass[r].mode
        key == pass[r].key
        free == {p \in ProposalIds : proposal[p] = NoProposal}
    IN  /\ pass[r].at = "body" /\ key # NoKey /\ free # {}
        /\ proposal' = IF Proposed(mode, key, {"open"}) THEN proposal
                       ELSE [proposal EXCEPT ![CHOOSE p \in free : \A q \in free : p <= q] =
                               [kind |-> ProposalKind(mode), key |-> key, status |-> "open"]]
        /\ Put(r, [pass[r] EXCEPT !.key = NoKey, !.seen = @ \cup {key}])
        /\ UNCHANGED <<mem, runRow, beat, lock, leak, nextRun, malformed, faults, moves>>

\* The loop ends: everything handled, or the cap on proposals reached (in the
\* other passes the cap on items and the bound on proposals stand for it).
EndBody(r) ==
    /\ pass[r].at = "body" /\ pass[r].leg \notin {"load", "active"}
    /\ \/ pass[r].key = NoKey /\ (pass[r].todo = {} \/ CapReached(r))
       \/ \A p \in ProposalIds : proposal[p] # NoProposal
    /\ Put(r, [pass[r] EXCEPT !.at = "done", !.todo = {}, !.key = NoKey, !.seen = {}])
    /\ OnlyPassMoved

----------------------------------------------------------------------------
(* dream_review: one transaction under the row lock of the proposal *)

Answers == UNCHANGED <<passVars, malformed, faults, moves>>

\* InvalidTransitionError and the like: the transaction rolls back.
Refuses == Answers /\ UNCHANGED <<mem, proposal>>

Close(p, s) == proposal' = [proposal EXCEPT ![p].status = s]

\* Mutant: accepting looks only at whether the rows exist.
Mergeable_Exists(m) == mem[m].status \notin {"none", "gone"}

Mergeable(m) == mem[m].status \in {"active", "stale"}

\* _accept_merge: the sources, locked in id order, become superseded by a new
\* active memory.
AcceptMerge(p) ==
    LET free == With("none")
        ids == proposal[p].key.ids
    IN  /\ proposal[p].kind = "merge_candidate" /\ proposal[p].status = "open"
        /\ \A m \in ids : Mergeable(m)
        /\ free # {}
        /\ LET n == CHOOSE n \in free : \A k \in free : n <= k
           IN  mem' = [m \in Mems |->
                         IF m \in ids THEN [mem[m] EXCEPT !.status = "superseded", !.ver = @ + 1]
                         ELSE IF m = n THEN [status |-> "active", ver |-> 1]
                         ELSE mem[m]]
        /\ Close(p, "accepted")
        /\ Answers

RefuseMerge(p) ==
    /\ proposal[p].kind = "merge_candidate" /\ proposal[p].status = "open"
    /\ \E m \in proposal[p].key.ids : ~Mergeable(m)
    /\ Refuses

\* _accept_promotion reads observation_ids, and run_promote writes the ids
\* under all_observation_ids and evidence_observation_ids.
RefusePromotion(p) ==
    /\ proposal[p].kind = "promotion_candidate" /\ proposal[p].status = "open"
    /\ malformed' = TRUE
    /\ UNCHANGED <<mem, proposal, passVars, faults, moves>>

\* Accepting a conflict changes nothing but the proposal.
AcceptConflict(p) ==
    /\ proposal[p].kind = "decision_conflict_candidate" /\ proposal[p].status = "open"
    /\ Close(p, "accepted")
    /\ Answers
    /\ UNCHANGED mem

\* reject and defer differ in the name of the status alone.
DismissProposal(p) ==
    /\ proposal[p].status = "open"
    /\ Close(p, "dismissed")
    /\ Answers
    /\ UNCHANGED mem

\* A proposal that is no longer open.
ReviewTooLate(p) ==
    /\ proposal[p].status \in Reviewed
    /\ Refuses

----------------------------------------------------------------------------
(* Clients of the memory tools, as far as curation meets them *)

ClientMove == /\ moves < MaxMoves
              /\ moves' = moves + 1
              /\ UNCHANGED <<proposal, passVars, malformed, faults>>

\* memory_update: wake a memory that decayed, or retire one.
ClientUpdate(m) ==
    /\ \/ mem[m].status \in {"stale", "archived"} /\ mem' = Moved(m, "active")
       \/ mem[m].status \in {"active", "stale", "archived"} /\ mem' = Moved(m, "retired")
    /\ ClientMove

\* memory_hard_delete: refused for a memory with lineage, as every source and
\* every result of a merge has.
ClientDelete(m) ==
    /\ m \in Given
    /\ mem[m].status \notin {"none", "gone", "superseded"}
    /\ mem' = [mem EXCEPT ![m].status = "gone"]
    /\ ClientMove

----------------------------------------------------------------------------
DreamInit ==
    /\ mem = [m \in Mems |-> IF m \in Given THEN [status |-> "active", ver |-> 1] ELSE NoMem]
    /\ proposal = [p \in ProposalIds |-> NoProposal]
    /\ runRow = [i \in RunIds |-> "none"]
    /\ beat = [mode \in Modes |-> "none"]
    /\ lock = [mode \in Modes |-> Nobody]
    /\ leak = {}
    /\ pass = [r \in Runners |-> Idle]
    /\ nextRun = 1
    /\ malformed = FALSE
    /\ faults = 0
    /\ moves = 0

\* What a runner inside a pass does by itself.
PassStep(r) ==
    \/ InsertRun(r)    \/ FinalizeRun(r)  \/ Heartbeat(r) \/ Unlock(r)
    \/ LoadActive(r)   \/ LoadStale(r)    \/ DecayOne(r)  \/ DecayMissing(r)
    \/ LoadSeeds(r)    \/ LoadEvidence(r) \/ LoadPairs(r)
    \/ CheckCluster(r) \/ CheckItem(r)    \/ InsertProposal(r) \/ EndBody(r)

ReviewStep(p) ==
    \/ AcceptMerge(p)    \/ RefuseMerge(p)   \/ RefusePromotion(p)
    \/ AcceptConflict(p) \/ ReviewTooLate(p) \/ DismissProposal(p)

DreamNext ==
    \/ \E r \in Runners : \/ \E mode \in Modes : BeginPass(r, mode)
                          \/ PassStep(r)
                          \/ DatabaseError(r) \/ KillRunner(r) \/ RestartRunner(r)
    \/ \E p \in ProposalIds : ReviewStep(p)
    \/ \E m \in Mems : ClientUpdate(m) \/ ClientDelete(m)

(* A runner that is in a pass goes on with it; nothing is assumed of the    *)
(* scheduler, the reviewers or the clients.                                 *)
DreamFairness == \A r \in Runners : WF_dreamVars(PassStep(r))
DreamSpec == DreamInit /\ [][DreamNext]_dreamVars /\ DreamFairness

----------------------------------------------------------------------------
(* Properties *)

Keys == [of : Subjects \cup {NoSubject}, ids : SUBSET Mems]
Proposals == [kind : {"none"} \cup {ProposalKind(mode) : mode \in AllModes \ {"decay"}},
              key : Keys, status : {"none", "open"} \cup Reviewed]
Items == [of : Subjects \cup {NoSubject}, ids : SUBSET Mems, ver : Nat]
Passes == [at : {"idle", "locked", "body", "done", "failed", "beat", "unlock", "down"},
           mode : Modes \cup {"none"}, run : Nat, todo : SUBSET Items, key : Keys,
           leg : {"none", "load", "active", "stale", "seeds", "clusters", "pairs"},
           seen : SUBSET Keys]

(* Types; and a lock is held exactly by a pass in progress or by a leak.    *)
DreamTypeOK ==
    /\ mem \in [Mems -> [status : MemStatuses, ver : Nat]]
    /\ proposal \in [ProposalIds -> Proposals]
    /\ runRow \in [RunIds -> {"none", "running", "done", "failed"}]
    /\ lock \in [Modes -> Runners \cup {Nobody}]
    /\ leak \subseteq Modes
    /\ pass \in [Runners -> Passes]
    /\ nextRun \in Nat \ {0}
    /\ \A mode \in Modes :
          lock[mode] # Nobody <=> \/ mode \in leak
                                  \/ \E r \in Runners : pass[r].mode = mode /\ lock[mode] = r
    /\ \A i \in RunIds : i >= nextRun => runRow[i] = "none"

(* What is known of an entity is proposed for promotion once per set of     *)
(* evidence, however its proposal was reviewed meanwhile and whoever runs   *)
(* passes: the check and the insert are two transactions, and the lock of   *)
(* the mode keeps others out.  Another entity over the same observations    *)
(* has a proposal of its own.                                               *)
PromotionProposedOnce ==
    \A p, q \in ProposalIds :
        /\ proposal[p].kind = "promotion_candidate" /\ proposal[q].kind = proposal[p].kind
        /\ proposal[p].key = proposal[q].key
        => p = q

(* Overlapping merge proposals are open together, and no memory is merged   *)
(* by two of them.                                                          *)
MergesAreDisjoint ==
    \A p, q \in ProposalIds :
        /\ proposal[p].kind = "merge_candidate" /\ proposal[q].kind = "merge_candidate"
        /\ proposal[p].status = "accepted" /\ proposal[q].status = "accepted"
        /\ p # q
        => proposal[p].key.ids \cap proposal[q].key.ids = {}

(* What a client retired or a reviewer merged stays so, although a decay    *)
(* pass that read it while it was active still has it on its list.          *)
KeepsEnded ==
    \A m \in Mems : mem[m].status \in {"superseded", "retired"}
                       => mem'[m].status \in {mem[m].status, "gone"}
EndedStaysEnded == [][KeepsEnded]_dreamVars

(* The inductive invariant behind the proofs (DreamProofs).  A runner in a  *)
(* pass holds the lock of its mode.                                         *)
PassesHoldLocks ==
    \A r \in Runners :
        /\ pass[r].at \in {"idle", "down"} <=> pass[r].mode = "none"
        /\ pass[r].mode # "none" => /\ lock[pass[r].mode] = r
                                    /\ pass[r].run \in RunIds /\ pass[r].run < nextRun

(* A candidate of the decay pass that still has the version it was read at  *)
(* has the status it was read with (legs are named after it), or is gone.   *)
AsRead(i, leg) ==
    \A m \in i.ids : /\ mem[m].status # "none" /\ i.ver <= mem[m].ver
                     /\ i.ver = mem[m].ver => mem[m].status \in {leg, "gone"}
CandidatesAreAsRead ==
    \A r \in Runners : \A leg \in {"active", "stale"} :
        InBody(r, "decay", leg) => \A i \in pass[r].todo : AsRead(i, leg)

(* What a promote pass has checked is not proposed before it inserts it;    *)
(* the decay pass proposes nothing.                                         *)
CheckedIsNew ==
    \A r \in Runners : pass[r].key # NoKey =>
        /\ pass[r].mode \notin {"none", "decay"}
        /\ pass[r].mode = "promote" =>
              \A p \in ProposalIds : proposal[p].kind = "promotion_candidate"
                                        => proposal[p].key # pass[r].key

(* The sources of an accepted merge are superseded; and a slot is used as a *)
(* whole.                                                                   *)
MergedAreSuperseded ==
    \A p \in ProposalIds :
        /\ proposal[p].kind = "merge_candidate" /\ proposal[p].status = "accepted"
              => \A m \in proposal[p].key.ids : mem[m].status = "superseded"
        /\ proposal[p].status = "none" => proposal[p].kind = "none"

DreamInv == /\ DreamTypeOK /\ PassesHoldLocks /\ CandidatesAreAsRead
            /\ CheckedIsNew /\ PromotionProposedOnce
            /\ MergedAreSuperseded /\ MergesAreDisjoint

(* Without a fault around its body every pass that began ends its run row,  *)
(* done or failed, whatever happens to the memories it works on.            *)
EveryRunEnds ==
    \A i \in RunIds : runRow[i] = "running" ~> runRow[i] \in {"done", "failed"} \/ faults > 0

(* "dispatches to the merge or promotion accept handler": an accept finds   *)
(* in the payload what the pass that wrote it put there.                    *)
PayloadsAreReadable == ~malformed
=============================================================================
