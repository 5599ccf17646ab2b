------------------------------ MODULE Salience ------------------------------
(***************************************************************************)
(* The salience of a memory (dream/salience.py) and the reads that renew   *)
(* it: memory_get and memory_get_many (memories.py) read their rows        *)
(* without a lock, compute the salience each row will have after the read, *)
(* and write it by id. memory_update, the triggers on citations and the    *)
(* recount's re-scoring write the same rows.                               *)
(*                                                                         *)
(* Scores are fixed-point: Full stands for 1.0.                            *)
(***************************************************************************)
EXTENDS Integers, Sequences, FiniteSets, FiniteSetsExt

CONSTANTS
    ReadMemories,   \* memories
    BumpReaders,    \* concurrent reads
    ReadLists,      \* bound: the id lists that callers pass (one id: memory_get)
    CiteKinds,      \* the kinds of citations that are counted
    KindWeight,     \* KindWeight[k]: dream_salience_w_references_<k>
    KindWindow,     \* KindWindow[k]: dream_salience_window_<k>
    AccessWindow,   \* dream_salience_access_window
    LogOnePlus,     \* LogOnePlus[n]: log1p(n)
    MaxBumps,       \* bound: reads begun
    MaxEditsOfRows  \* bound: changes by others

Full == 10000
Weights == [access |-> 3000, recency |-> 2500, confidence |-> 3000, negative |-> 4600,
           references |-> 1500, authority |-> 1000, pinned |-> 3000, verified |-> 1000]

\* What a caller does by naming a memory twice is left out.
ASSUME ReadListsNameOnce ==
    \A ids \in ReadLists : /\ ids \in Seq(ReadMemories)
                           /\ \A i, j \in DOMAIN ids : ids[i] = ids[j] => i = j
ASSUME SalienceBounds == {MaxBumps, MaxEditsOfRows} \subseteq Nat
ASSUME KindsWeighted == \A k \in CiteKinds : KindWeight[k] > 0 /\ KindWindow[k] > 0

VARIABLES
    scored_rows,  \* the committed rows: the formula's inputs, and the salience
    bump,         \* bump[r]: the read of reader r
    bumpsDone,    \* bumpsDone[m]: committed access bumps of m
    bumpsBegun,   \* reads so far
    rowEdits      \* changes by others so far

salVars == <<scored_rows, bump, bumpsDone, bumpsBegun, rowEdits>>

NoBump == [at |-> "idle", ids |-> <<>>, bumpable |-> {}, snap |-> <<>>, written |-> <<>>,
           alone |-> TRUE]

----------------------------------------------------------------------------
(* The formula *)

Clamp01(x) == IF x < 0 THEN 0 ELSE IF x > Full THEN Full ELSE x

Saturating(n, window) == Clamp01((Full * LogOnePlus[n]) \div LogOnePlus[window])

\* _references_term: the weighted average over the kinds, each saturating by itself.
References(cites) ==
    MapThenSumSet(LAMBDA k : KindWeight[k] * Saturating(cites[k], KindWindow[k]), CiteKinds)
        \div MapThenSumSet(LAMBDA k : KindWeight[k], CiteKinds)

AccessTerm(row) == (Weights.access * Saturating(row.access, AccessWindow)) \div Full

ComputeSalience(row) ==
    Clamp01(AccessTerm(row)
            + (IF row.recent THEN Weights.recency ELSE 0)
            + (IF row.trusted THEN Weights.confidence ELSE 0)
            - ((Weights.negative * LogOnePlus[row.negative]) \div Full)
            + (Weights.references * References(row.cites)) \div Full
            + (IF row.authority THEN Weights.authority ELSE 0)
            + (IF row.pinned THEN Weights.pinned + Weights.verified ELSE 0))

\* A row once more read.
ReadAgain(row) == [row EXCEPT !.access = @ + 1, !.recent = TRUE]

----------------------------------------------------------------------------
(* Reads *)

\* Only visible memories are bumped.
Bumpable(m) == scored_rows[m].status \in {"active", "stale"}

Named(ids, m) == \E i \in DOMAIN ids : ids[i] = m

\* The SELECT of the rows.
BeginBump(r, ids) ==
    /\ bump[r] = NoBump /\ bumpsBegun < MaxBumps
    /\ bump' = [bump EXCEPT ![r] =
                   [at |-> "read", ids |-> ids,
                    bumpable |-> {m \in ReadMemories : Named(ids, m) /\ Bumpable(m)},
                    snap |-> scored_rows, written |-> <<>>, alone |-> TRUE]]
    /\ bumpsBegun' = bumpsBegun + 1
    /\ UNCHANGED <<scored_rows, bumpsDone, rowEdits>>

WrittenBy(r) == DOMAIN bump[r].written
RowLocked(m) == \E r \in BumpReaders : m \in WrittenBy(r)
AllWritten(r) == WrittenBy(r) = bump[r].bumpable

\* The rows are written in the order of the caller's list.
Wants(r) ==
    LET ids  == bump[r].ids
        left == {i \in DOMAIN ids : ids[i] \in bump[r].bumpable \ WrittenBy(r)}
    IN  ids[CHOOSE i \in left : \A j \in left : i <= j]

\* Mutant: the citations are not passed on.
RowAfterRead_NoCitations(r, m) ==
    [bump[r].snap[m] EXCEPT !.access = @ + 1, !.recent = TRUE, !.cites = [k \in CiteKinds |-> 0]]

\* What the salience is computed from: the row as it was read, once more read.
RowAfterRead(r, m) == ReadAgain(bump[r].snap[m])

\* Mutant: the counter is written as it was read, plus one.
AccessAfter_Snapshot(r, m) == RowAfterRead(r, m).access

\* UPDATE ... SET access_count = access_count + 1
AccessAfter(r, m) == scored_rows[m].access + 1

\* UPDATE ... WHERE id = m: waits for the row's lock and holds it to the commit;
\* whatever the status is by now.
WriteBump(r) ==
    /\ bump[r].at = "read" /\ ~AllWritten(r)
    /\ LET m == Wants(r)
       IN  /\ ~RowLocked(m)
           /\ bump' = [bump EXCEPT ![r].written =
                  [x \in WrittenBy(r) \cup {m} |->
                      IF x # m THEN bump[r].written[x]
                      ELSE [scored_rows[m] EXCEPT !.access = AccessAfter(r, m), !.recent = TRUE,
                                                  !.score = ComputeSalience(RowAfterRead(r, m))]]]
    /\ UNCHANGED <<scored_rows, bumpsDone, bumpsBegun, rowEdits>>

WaitsFor(r, d) == /\ bump[r].at = "read" /\ ~AllWritten(r)
                  /\ d # r /\ Wants(r) \in WrittenBy(d)

\* Postgres breaks a circle of waits: the transaction is rolled back. (A bulk
\* read takes its rows in the order its caller names them.)
BreakBumpDeadlock(r) == \E d \in BumpReaders : WaitsFor(r, d) /\ WaitsFor(d, r)

AbortBump(r) ==
    /\ BreakBumpDeadlock(r)
    /\ bump' = [bump EXCEPT ![r] = NoBump]
    /\ UNCHANGED <<scored_rows, bumpsDone, bumpsBegun, rowEdits>>

\* Changed rows straddle the other reads.
Straddle(b, M) == [r \in BumpReaders |->
    [b[r] EXCEPT !.alone = b[r].at = "idle" \/ (@ /\ M \cap b[r].bumpable = {})]]

CommitBump(r) ==
    /\ bump[r].at = "read" /\ AllWritten(r)
    /\ scored_rows' = [m \in ReadMemories |->
          IF m \in WrittenBy(r) THEN bump[r].written[m] ELSE scored_rows[m]]
    /\ bumpsDone' = [m \in ReadMemories |-> IF m \in WrittenBy(r) THEN bumpsDone[m] + 1
                                            ELSE bumpsDone[m]]
    /\ bump' = Straddle([bump EXCEPT ![r] = NoBump], WrittenBy(r))
    /\ UNCHANGED <<bumpsBegun, rowEdits>>

----------------------------------------------------------------------------
(* Others *)

EditRow(m, row) ==
    /\ rowEdits < MaxEditsOfRows /\ ~RowLocked(m) /\ row # scored_rows[m]
    /\ scored_rows' = [scored_rows EXCEPT ![m] = row]
    /\ bump' = Straddle(bump, {m})
    /\ rowEdits' = rowEdits + 1
    /\ UNCHANGED <<bumpsDone, bumpsBegun>>

\* memory_update: the salience stays as it was.
UpdateInputs(m) ==
    \/ EditRow(m, [scored_rows[m] EXCEPT !.trusted = ~@])
    \/ EditRow(m, [scored_rows[m] EXCEPT !.pinned = ~@])
    \/ EditRow(m, [scored_rows[m] EXCEPT !.status = "retired"])

\* A citation: the trigger's UPDATE of a counter.
CiteRow(m) == \E k \in CiteKinds : EditRow(m, [scored_rows[m] EXCEPT !.cites[k] = @ + 1])

\* _recompute_salience_for, some time after the last access.
RescoreRow(m) ==
    /\ scored_rows[m].status = "active"
    /\ LET row == [scored_rows[m] EXCEPT !.recent = FALSE]
       IN  EditRow(m, [row EXCEPT !.score = ComputeSalience(row)])

----------------------------------------------------------------------------
\* Memories as earlier runs or an import left them.
SalInit ==
    /\ \E a \in {0, 2}, n \in {0, 5} :
          scored_rows = [m \in ReadMemories |->
              [status |-> "active", access |-> a, recent |-> FALSE, trusted |-> FALSE,
               pinned |-> FALSE, negative |-> n, cites |-> [k \in CiteKinds |-> KindWindow[k]],
               authority |-> n > 0, score |-> Full \div 2]]
    /\ bump = [r \in BumpReaders |-> NoBump]
    /\ bumpsDone = [m \in ReadMemories |-> 0]
    /\ bumpsBegun = 0
    /\ rowEdits = 0

ReadSteps(r) == WriteBump(r) \/ AbortBump(r) \/ CommitBump(r)

SalNext ==
    \/ \E r \in BumpReaders : ReadSteps(r) \/ \E ids \in ReadLists : BeginBump(r, ids)
    \/ \E m \in ReadMemories : UpdateInputs(m) \/ CiteRow(m) \/ RescoreRow(m)

(* A read goes on when the row it waits for is free; Postgres queues the    *)
(* waiters of a row lock.                                                   *)
SalFairness == \A r \in BumpReaders : SF_salVars(ReadSteps(r))
SalSpec == SalInit /\ [][SalNext]_salVars /\ SalFairness

----------------------------------------------------------------------------
(* Properties *)

(* No access is lost: concurrent reads of one memory count each, though     *)
(* each read the counter before either wrote it.                            *)
AccessesAreCounted ==
    [][\A m \in ReadMemories :
          scored_rows'[m].access - scored_rows[m].access = bumpsDone'[m] - bumpsDone[m]]_salVars

(* A read that nobody straddled leaves the salience its row asks for,       *)
(* citations included.                                                      *)
QuietBumpScoresTheRow ==
    [][\A r \in BumpReaders :
          (bump[r].at = "read" /\ bump'[r].at = "idle" /\ bump[r].alone) =>
              \A m \in WrittenBy(r) :
                  bumpsDone'[m] # bumpsDone[m] =>
                      scored_rows'[m].score = ComputeSalience(scored_rows'[m])]_salVars

(* The dominance that salience.py derives: five negatives bring a memory    *)
(* that is neither trusted, pinned nor verified to zero, however often it   *)
(* is read, cited or vouched for.                                           *)
NegativesDominate ==
    \A m \in ReadMemories :
        LET row == scored_rows[m]
        IN  row.negative >= 5 /\ ~row.trusted /\ ~row.pinned
                => ComputeSalience([row EXCEPT !.recent = TRUE, !.authority = TRUE]) = 0

(* The inductive invariant behind the proofs (DreamProofs): rows and reads  *)
(* have their columns, and an idle read has no rows.                        *)
IsRow(row) ==
    /\ row.access \in Nat
    /\ DOMAIN row = {"status", "access", "recent", "trusted", "pinned", "negative", "cites",
                     "authority", "score"}
IsBump(b) ==
    /\ DOMAIN b = {"at", "ids", "bumpable", "snap", "written", "alone"}
    /\ b.at \in {"idle", "read"} /\ b.ids \in Seq(ReadMemories)
    /\ b.bumpable \subseteq {m \in ReadMemories : Named(b.ids, m)}
    /\ DOMAIN b.written \subseteq b.bumpable
    /\ b.at = "idle" => b.bumpable = {}
SalTypeOK ==
    /\ scored_rows = [m \in ReadMemories |-> scored_rows[m]]
    /\ \A m \in ReadMemories : IsRow(scored_rows[m])
    /\ bump = [r \in BumpReaders |-> bump[r]]
    /\ \A r \in BumpReaders : IsBump(bump[r])
    /\ bumpsDone \in [ReadMemories -> Nat]

\* A row once more read, with the score of an earlier reading.
ScoredAsOf(row, read) == [ReadAgain(row) EXCEPT !.score = ComputeSalience(ReadAgain(read))]

(* A row is written by one read at a time, and until that read commits it   *)
(* stays as it was written over.                                            *)
WritesAreLocked ==
    /\ \A r, d \in BumpReaders : r # d => WrittenBy(r) \cap WrittenBy(d) = {}
    /\ \A r \in BumpReaders : \A m \in WrittenBy(r) :
          bump[r].written[m] = ScoredAsOf(scored_rows[m], bump[r].snap[m])

(* What a read that nobody straddled has read is so still.                  *)
AloneIsCurrent ==
    \A r \in BumpReaders : bump[r].alone =>
        \A m \in bump[r].bumpable : bump[r].snap[m] = scored_rows[m]

SalInv == SalTypeOK /\ WritesAreLocked /\ AloneIsCurrent
=============================================================================
