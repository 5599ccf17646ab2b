------------------------------- MODULE Digest -------------------------------
(***************************************************************************)
(* mem_digest (memory_mcp/digest): a digest reads the journal entries      *)
(* since the latest digest was created, spends seconds in a language       *)
(* model, and is written as a memory of its own, whose created_at is where *)
(* the next digest starts.  Clients keep writing journal entries meanwhile,*)
(* and an entry's created_at is the start of its transaction, not its      *)
(* commit.                                                                 *)
(***************************************************************************)
EXTENDS Integers, FiniteSets, FiniteSetsExt

CONSTANTS
    Digesters,       \* clients calling mem_digest
    JournalEntries,  \* journal entries, numbered by falling salience
    MaxDigests,      \* bound on the digests written
    DigestLimit      \* _DIGEST_CANDIDATE_LIMIT

ASSUME DigestAssumption == /\ JournalEntries \subseteq Nat \ {0} /\ MaxDigests \in Nat
                           /\ DigestLimit \in Nat \ {0}

VARIABLES
    tick,       \* the database's clock, one tick per statement that reads it
    entry,      \* entry[j]: its status and created_at
    digests,    \* the digest memories written: created_at and status
    digester,   \* the calls in flight
    covered,    \* history: the entries some written digest was made from
    overtaken   \* history: the entries that may miss every digest, see below

digestVars == <<tick, entry, digests, digester, covered, overtaken>>

DigestInit ==
    /\ tick = 1
    /\ entry = [j \in JournalEntries |-> [status |-> "none", at |-> 0]]
    /\ digests = {}
    /\ digester = [c \in Digesters |-> [pc |-> "idle"]]
    /\ covered = {}
    /\ overtaken = {}

InFlight == \E c \in Digesters : digester[c].pc = "summarize"

-----------------------------------------------------------------------------
(* Journal entries                                                         *)

\* A digest in flight while the entry's transaction runs makes it overtaken.
StartEntry(j) ==
    /\ entry[j].status = "none"
    /\ entry' = [entry EXCEPT ![j] = [status |-> "open", at |-> tick]]
    /\ tick' = tick + 1
    /\ overtaken' = IF InFlight THEN overtaken \cup {j} ELSE overtaken
    /\ UNCHANGED <<digests, digester, covered>>

SetEntry(j, from, to) ==
    /\ entry[j].status = from
    /\ entry' = [entry EXCEPT ![j].status = to]
    /\ UNCHANGED <<tick, digests, digester, covered, overtaken>>

CommitEntry(j) == SetEntry(j, "open", "active")

\* Decay makes an entry stale; stale entries are digested all the same.
DecayEntry(j) == SetEntry(j, "active", "stale")

ArchiveDigest(d) ==
    /\ d.status = "active"
    /\ digests' = (digests \ {d}) \cup {[d EXCEPT !.status = "archived"]}
    /\ UNCHANGED <<tick, entry, digester, covered, overtaken>>

-----------------------------------------------------------------------------
(* Digests                                                                 *)

Unarchived == {d \in digests : d.status # "archived"}
LatestDigest == IF Unarchived = {} THEN 0 ELSE Max({d.at : d \in Unarchived})

\* journal_cutoff: the caller's since_ts, or else the latest digest.
Cutoff(since) == IF since # 0 THEN since ELSE LatestDigest

\* Mutant: entries the decay pass made stale are left out.
Digestible_ActiveOnly(j) == entry[j].status = "active"

Digestible(j) == entry[j].status \in {"active", "stale"}

Since(cut) == {j \in JournalEntries : Digestible(j) /\ entry[j].at >= cut}

\* The query's limit keeps the most salient.
Chosen(js) == {j \in js : Cardinality({k \in js : k < j}) < DigestLimit}

Load(c, since) ==
    LET got == Chosen(Since(Cutoff(since))) IN
    /\ digester[c].pc = "idle" /\ Cardinality(digests) < MaxDigests
    /\ digester' = [digester EXCEPT ![c] = [pc |-> "summarize", got |-> got]]
    /\ overtaken' = overtaken
         \cup {j \in JournalEntries : entry[j].status = "open"}
         \cup (Since(Cutoff(0)) \ (got \cup covered))
    /\ UNCHANGED <<tick, entry, digests, covered>>

\* Whether the text is the model's or the template's, there is one.
NewDigest == [at |-> tick, status |-> "active"]

WriteDigest(c) ==
    /\ digester[c].pc = "summarize"
    /\ digests' = digests \cup {NewDigest}
    /\ tick' = tick + 1
    /\ covered' = covered \cup digester[c].got
    /\ digester' = [digester EXCEPT ![c] = [pc |-> "idle"]]
    /\ UNCHANGED <<entry, overtaken>>

\* memory_write fails, or the client goes away.
LoseDigest(c) ==
    /\ digester[c].pc = "summarize"
    /\ digester' = [digester EXCEPT ![c] = [pc |-> "idle"]]
    /\ UNCHANGED <<tick, entry, digests, covered, overtaken>>

DigestNext ==
    \/ \E j \in JournalEntries : StartEntry(j) \/ CommitEntry(j) \/ DecayEntry(j)
    \/ \E d \in digests : ArchiveDigest(d)
    \/ \E c \in Digesters : \/ WriteDigest(c) \/ LoseDigest(c)
                            \/ \E since \in {0, tick - 1} : Load(c, since)

DigestSpec == DigestInit /\ [][DigestNext]_digestVars

-----------------------------------------------------------------------------
\* A committed journal entry no digest was made from is still ahead of the
\* cutoff of the next one.  The exceptions are the entries whose transaction
\* overlapped a digest call, and those a digest skipped for its limit or for
\* an explicit since_ts: they fall between two digests and no later one with
\* the default cutoff ever reads them.
NoEntryFallsBehind ==
    \A j \in JournalEntries :
      entry[j].status \in {"active", "stale"} /\ j \notin covered \cup overtaken
        => entry[j].at >= LatestDigest

\* The inductive invariant behind its proof (ServiceProofs).
DigestTypeOK ==
    /\ tick \in Nat
    /\ entry \in [JournalEntries -> [status : {"none", "open", "active", "stale"}, at : Nat]]
    /\ digests \subseteq [at : Nat, status : {"active", "archived"}]
    /\ digester \in [Digesters -> [pc : {"idle"}]
                                    \cup [pc : {"summarize"}, got : SUBSET JournalEntries]]

Begun(j) == entry[j].status # "none"
MayBeMissed == covered \cup overtaken

\* What has a date has one that is over.
DatesAreOver == /\ \A j \in JournalEntries : Begun(j) => entry[j].at < tick
                /\ \A d \in digests : d.at < tick

\* A call that is about to write a digest knows every entry there is, or the
\* entry is one of the exceptions.
CallsKnow ==
    \A c \in Digesters : digester[c].pc = "summarize" =>
        \A j \in JournalEntries : Begun(j) => j \in MayBeMissed \cup digester[c].got

\* The others are ahead of every digest, already before they are committed.
OthersAreAhead ==
    \A j \in JournalEntries : Begun(j) /\ j \notin MayBeMissed =>
        \A d \in Unarchived : d.at <= entry[j].at

DigestInv == DigestTypeOK /\ DatesAreOver /\ CallsKnow /\ OthersAreAhead
=============================================================================
