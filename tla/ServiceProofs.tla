---------------------------- MODULE ServiceProofs ----------------------------
(***************************************************************************)
(* Proofs about services that callers reach through one tool call each:    *)
(* digests of the journal (Digest), for any entries, calls and limit;      *)
(* copies of entities that have names (NamedCopies), for any names, modes  *)
(* and changes by callers; entities and the inbox (Entities), for any      *)
(* number of concurrent calls; and paged listings (Listing), for any rows, *)
(* changes and page sizes.                                                 *)
(***************************************************************************)
EXTENDS Digest, NamedCopies, Entities, Listing, FiniteSetTheorems, WellFoundedInduction,
        TLAPS

(* A set of natural numbers has a smallest one, and a bounded one has a     *)
(* largest.                                                                 *)
LEMMA Smallest ==
    ASSUME NEW S, S \subseteq Nat, S # {}
    PROVE  \E n \in S : \A k \in S : n <= k
  <1>1. PICK n \in S : \A k \in S : ~(<<k, n>> \in OpToRel(<, Nat))
    BY NatLessThanWellFounded, WFMin
  <1>2. \A k \in S : ~(k < n)
    BY <1>1 DEF OpToRel
  <1>3. \A k \in S : n <= k
    BY <1>2
  <1> QED BY <1>3

LEMMA Largest ==
    ASSUME NEW S, S \subseteq Nat, S # {}, NEW b \in Nat, \A x \in S : x <= b
    PROVE  Max(S) \in S /\ \A x \in S : Max(S) >= x
  <1> DEFINE T == {b - x : x \in S}
  <1>1. T \subseteq Nat /\ T # {}
    <2>1. \A x \in S : x \in Nat /\ x <= b
      OBVIOUS
    <2>2. \A x \in S : b - x \in Nat
      BY <2>1
    <2> QED BY <2>2
  <1>2. PICK n \in T : \A k \in T : n <= k
    BY <1>1, Smallest
  <1>3. PICK x \in S : n = b - x
    BY <1>2
  <1>4. \A y \in S : b - x <= b - y
    BY <1>2, <1>3
  <1>5. \A y \in S : x >= y
    BY <1>4
  <1> QED BY <1>5 DEF Max

----------------------------------------------------------------------------
(* Digests of the journal *)

(* The cutoff is the date of a digest, so entries that are ahead of every   *)
(* digest are not behind it.                                                *)
LEMMA AheadOfCutoff ==
    ASSUME DigestInv, NEW j \in JournalEntries, Begun(j), j \notin MayBeMissed
    PROVE  entry[j].at >= LatestDigest
  <1>1. entry[j].at \in Nat /\ tick \in Nat
    BY DEF DigestInv, DigestTypeOK
  <1>2. CASE Unarchived = {}
    BY <1>1, <1>2 DEF LatestDigest
  <1>3. CASE Unarchived # {}
    <2> DEFINE S == {d.at : d \in Unarchived}
    <2>1. /\ S \subseteq Nat /\ S # {} /\ \A x \in S : x <= tick
          /\ \A x \in S : x <= entry[j].at
      <3>1. ASSUME NEW d \in Unarchived PROVE d.at \in Nat /\ d.at <= tick /\ d.at <= entry[j].at
        BY <1>1 DEF DigestInv, DigestTypeOK, DatesAreOver, OthersAreAhead, Unarchived
      <3> QED BY <1>3, <3>1
    <2>2. Max(S) \in S
      BY <1>1, <2>1, Largest
    <2> QED BY <1>1, <1>3, <2>1, <2>2 DEF LatestDigest
  <1> QED BY <1>2, <1>3

LEMMA DigestInvInit == DigestInit => DigestInv
  <1> SUFFICES ASSUME DigestInit PROVE DigestInv
    OBVIOUS
  <1>1. DigestTypeOK
    BY DEF DigestInit, DigestTypeOK
  <1>2. \A c \in Digesters : digester[c].pc # "summarize"
    BY DEF DigestInit
  <1>3. \A j \in JournalEntries : ~Begun(j)
    BY DEF DigestInit, Begun
  <1>4. digests = {}
    BY DEF DigestInit
  <1> QED BY <1>1, <1>2, <1>3, <1>4 DEF DigestInv, DatesAreOver, CallsKnow, OthersAreAhead

(* An entry is begun after every digest; it is overtaken where a call that  *)
(* has read the journal goes on to write one.                               *)
LEMMA StartEntryNext ==
    ASSUME DigestInv, NEW j \in JournalEntries, StartEntry(j)
    PROVE  DigestInv'
  <1> DEFINE row == [status |-> "open", at |-> tick]
  <1>1. /\ DigestTypeOK /\ tick \in Nat /\ tick' = tick + 1 /\ tick' \in Nat
        /\ entry' = [entry EXCEPT ![j] = row]
        /\ overtaken' = IF InFlight THEN overtaken \cup {j} ELSE overtaken
        /\ UNCHANGED <<digests, digester, covered>>
    BY DEF StartEntry, DigestInv, DigestTypeOK
  <1>2. row \in [status : {"none", "open", "active", "stale"}, at : Nat] /\ row.at = tick
    BY <1>1
  <1> HIDE DEF row
  <1>3. entry'[j].at = tick /\ \A i \in JournalEntries : i # j => entry'[i] = entry[i]
    BY <1>1, <1>2 DEF DigestTypeOK
  <1>4. DigestTypeOK'
    BY <1>1, <1>2 DEF DigestTypeOK
  <1>5. DatesAreOver'
    <2>1. \A d \in digests : d.at \in Nat
      BY <1>1 DEF DigestTypeOK
    <2>2. \A i \in JournalEntries : entry[i].at \in Nat
      BY <1>1 DEF DigestTypeOK
    <2> QED BY <1>1, <1>3, <2>1, <2>2 DEF DatesAreOver, DigestInv, Begun
  <1>6. CallsKnow'
    BY <1>1, <1>3 DEF CallsKnow, DigestInv, Begun, MayBeMissed, InFlight
  <1>7. OthersAreAhead'
    <2>1. \A d \in Unarchived : d.at \in Nat /\ d.at < tick
      BY <1>1 DEF DigestTypeOK, DigestInv, DatesAreOver, Unarchived
    <2>2. \A d \in Unarchived : d.at <= tick
      BY <1>1, <2>1
    <2>3. Unarchived' = Unarchived
      BY <1>1 DEF Unarchived
    <2> QED BY <1>1, <1>3, <2>2, <2>3 DEF OthersAreAhead, DigestInv, Begun, MayBeMissed
  <1> QED BY <1>4, <1>5, <1>6, <1>7 DEF DigestInv

LEMMA SetEntryNext ==
    ASSUME DigestInv, NEW j \in JournalEntries, NEW from \in {"open", "active"},
           NEW to \in {"active", "stale"}, SetEntry(j, from, to)
    PROVE  DigestInv'
  <1>1. /\ DigestTypeOK /\ entry[j].status = from
        /\ entry' = [entry EXCEPT ![j].status = to]
        /\ UNCHANGED <<tick, digests, digester, covered, overtaken>>
    BY DEF SetEntry, DigestInv
  <1>2. PICK a \in Nat : entry[j] = [status |-> from, at |-> a]
    BY <1>1 DEF DigestTypeOK
  <1> DEFINE row == [status |-> to, at |-> a]
  <1>3. [entry[j] EXCEPT !.status = to] = row
    BY <1>2
  <1>4. entry' = [entry EXCEPT ![j] = [entry[j] EXCEPT !.status = to]]
    BY <1>1
  <1>5. entry' = [entry EXCEPT ![j] = row]
    BY <1>3, <1>4
  <1>6. row \in [status : {"none", "open", "active", "stale"}, at : Nat] /\ row.at = entry[j].at
    BY <1>2
  <1> HIDE DEF row
  <1>7. DigestTypeOK'
    BY <1>1, <1>5, <1>6 DEF DigestTypeOK
  <1>8. \A i \in JournalEntries : entry'[i].at = entry[i].at /\ (Begun(i)' => Begun(i))
    BY <1>1, <1>5, <1>6 DEF DigestTypeOK, Begun
  <1>9. Unarchived' = Unarchived
    BY <1>1 DEF Unarchived
  <1> QED BY <1>1, <1>7, <1>8, <1>9
          DEF DigestInv, DatesAreOver, CallsKnow, OthersAreAhead, MayBeMissed

LEMMA ArchiveDigestNext ==
    ASSUME DigestInv, NEW d \in digests, ArchiveDigest(d)
    PROVE  DigestInv'
  <1>1. /\ DigestTypeOK /\ d.status = "active"
        /\ digests' = (digests \ {d}) \cup {[d EXCEPT !.status = "archived"]}
        /\ UNCHANGED <<tick, entry, digester, covered, overtaken>>
    BY DEF ArchiveDigest, DigestInv
  <1>2. PICK a \in Nat : d = [at |-> a, status |-> "active"]
    BY <1>1 DEF DigestTypeOK
  <1> DEFINE row == [at |-> a, status |-> "archived"]
  <1>3. [d EXCEPT !.status = "archived"] = row
    BY <1>2
  <1>4. row \in [at : Nat, status : {"active", "archived"}] /\ row.at = d.at
           /\ row.status = "archived"
    BY <1>2
  <1>5. digests' = (digests \ {d}) \cup {row}
    BY <1>1, <1>3
  <1> HIDE DEF row
  <1>6. DigestTypeOK'
    BY <1>1, <1>4, <1>5 DEF DigestTypeOK
  <1>7. Unarchived' \subseteq Unarchived
    BY <1>4, <1>5 DEF Unarchived
  <1>8. DatesAreOver'
    BY <1>1, <1>4, <1>5 DEF DatesAreOver, DigestInv, Begun
  <1> QED BY <1>1, <1>6, <1>7, <1>8 DEF DigestInv, CallsKnow, OthersAreAhead, MayBeMissed, Begun

(* A call reads the journal: what it does not get, of what there is, is     *)
(* open, in an earlier digest, or an exception from now on.                 *)
LEMMA LoadNext ==
    ASSUME DigestInv, NEW c \in Digesters, NEW since, Load(c, since)
    PROVE  DigestInv'
  <1> DEFINE got == Chosen(Since(Cutoff(since)))
             row == [pc |-> "summarize", got |-> got]
  <1>1. /\ DigestTypeOK /\ digester' = [digester EXCEPT ![c] = row]
        /\ overtaken' = overtaken
             \cup {j \in JournalEntries : entry[j].status = "open"}
             \cup (Since(Cutoff(0)) \ (got \cup covered))
        /\ UNCHANGED <<tick, entry, digests, covered>>
    BY DEF Load, DigestInv
  <1>2. got \subseteq JournalEntries
    BY DEF Chosen, Since
  <1>3. ASSUME NEW j \in JournalEntries, Begun(j) PROVE j \in covered \cup overtaken' \cup got
    <2>1. CASE j \in MayBeMissed
      BY <1>1, <2>1 DEF MayBeMissed
    <2>2. CASE entry[j].status = "open"
      BY <1>1, <2>2
    <2>3. CASE j \notin MayBeMissed /\ entry[j].status # "open"
      <3>1. entry[j].status \in {"active", "stale"}
        BY <1>1, <1>3, <2>3 DEF Begun, DigestTypeOK
      <3>2. entry[j].at >= LatestDigest
        BY <1>3, <2>3, AheadOfCutoff
      <3>3. Cutoff(0) = LatestDigest
        BY DEF Cutoff
      <3>4. j \in Since(Cutoff(0))
        BY <3>1, <3>2, <3>3 DEF Since, Digestible
      <3> HIDE DEF got
      <3> QED BY <1>1, <3>4
    <2> QED BY <2>1, <2>2, <2>3
  <1>4. row \in [pc : {"summarize"}, got : SUBSET JournalEntries] /\ row.got = got
    BY <1>2
  <1> HIDE DEF got, row
  <1>5. DigestTypeOK'
    BY <1>1, <1>4 DEF DigestTypeOK
  <1>6. CallsKnow'
    <2> SUFFICES ASSUME NEW d \in Digesters, digester'[d].pc = "summarize",
                        NEW j \in JournalEntries, Begun(j)
                 PROVE  j \in MayBeMissed' \cup digester'[d].got
      BY <1>1 DEF CallsKnow, Begun
    <2>1. CASE d = c
      <3>1. digester'[d] = row
        BY <1>1, <2>1 DEF DigestTypeOK
      <3> QED BY <1>1, <1>3, <1>4, <3>1 DEF MayBeMissed
    <2>2. CASE d # c
      <3>1. digester'[d] = digester[d]
        BY <1>1, <2>2 DEF DigestTypeOK
      <3> QED BY <1>1, <3>1 DEF MayBeMissed, DigestInv, CallsKnow
    <2> QED BY <2>1, <2>2
  <1>7. Unarchived' = Unarchived
    BY <1>1 DEF Unarchived
  <1> QED BY <1>1, <1>5, <1>6, <1>7
          DEF DigestInv, DatesAreOver, OthersAreAhead, MayBeMissed, Begun

(* The new digest is younger than every entry, but its call knew them all.  *)
LEMMA WriteDigestNext ==
    ASSUME DigestInv, NEW c \in Digesters, WriteDigest(c)
    PROVE  DigestInv'
  <1> DEFINE idle == [pc |-> "idle"]
  <1>1. /\ DigestTypeOK /\ digester[c].pc = "summarize" /\ tick \in Nat
        /\ digests' = digests \cup {NewDigest} /\ tick' = tick + 1 /\ tick' \in Nat
        /\ covered' = covered \cup digester[c].got
        /\ digester' = [digester EXCEPT ![c] = idle]
        /\ UNCHANGED <<entry, overtaken>>
    BY DEF WriteDigest, DigestInv, DigestTypeOK
  <1>2. idle \in [pc : {"idle"}] /\ idle.pc # "summarize"
    OBVIOUS
  <1>3. NewDigest \in [at : Nat, status : {"active", "archived"}] /\ NewDigest.at = tick
    BY <1>1 DEF NewDigest
  <1> HIDE DEF idle
  <1>4. DigestTypeOK'
    BY <1>1, <1>2, <1>3 DEF DigestTypeOK
  <1>5. DatesAreOver'
    <2>1. \A d \in digests : d.at \in Nat
      BY <1>1 DEF DigestTypeOK
    <2>2. \A i \in JournalEntries : entry[i].at \in Nat
      BY <1>1 DEF DigestTypeOK
    <2> QED BY <1>1, <1>3, <2>1, <2>2 DEF DatesAreOver, DigestInv, Begun
  <1>6. CallsKnow'
    <2>1. \A d \in Digesters : digester'[d].pc = "summarize" => digester'[d] = digester[d]
      BY <1>1, <1>2 DEF DigestTypeOK
    <2> QED BY <1>1, <2>1 DEF CallsKnow, DigestInv, MayBeMissed, Begun
  <1>7. OthersAreAhead'
    BY <1>1 DEF OthersAreAhead, DigestInv, CallsKnow, MayBeMissed, Begun
  <1> QED BY <1>4, <1>5, <1>6, <1>7 DEF DigestInv

LEMMA LoseDigestNext ==
    ASSUME DigestInv, NEW c \in Digesters, LoseDigest(c)
    PROVE  DigestInv'
  <1> DEFINE idle == [pc |-> "idle"]
  <1>1. /\ DigestTypeOK /\ digester' = [digester EXCEPT ![c] = idle]
        /\ UNCHANGED <<tick, entry, digests, covered, overtaken>>
    BY DEF LoseDigest, DigestInv
  <1>2. idle \in [pc : {"idle"}] /\ idle.pc # "summarize"
    OBVIOUS
  <1> HIDE DEF idle
  <1>3. DigestTypeOK'
    BY <1>1, <1>2 DEF DigestTypeOK
  <1>4. \A d \in Digesters : digester'[d].pc = "summarize" => digester'[d] = digester[d]
    BY <1>1, <1>2 DEF DigestTypeOK
  <1>5. Unarchived' = Unarchived
    BY <1>1 DEF Unarchived
  <1> QED BY <1>1, <1>3, <1>4, <1>5
          DEF DigestInv, DatesAreOver, CallsKnow, OthersAreAhead, MayBeMissed, Begun

LEMMA DigestInvNext == DigestInv /\ [DigestNext]_digestVars => DigestInv'
  <1> SUFFICES ASSUME DigestInv, [DigestNext]_digestVars PROVE DigestInv'
    OBVIOUS
  <1>1. ASSUME NEW j \in JournalEntries, StartEntry(j) \/ CommitEntry(j) \/ DecayEntry(j)
        PROVE  DigestInv'
    BY <1>1, StartEntryNext, SetEntryNext DEF CommitEntry, DecayEntry
  <1>2. ASSUME NEW d \in digests, ArchiveDigest(d) PROVE DigestInv'
    BY <1>2, ArchiveDigestNext
  <1>3. ASSUME NEW c \in Digesters,
               WriteDigest(c) \/ LoseDigest(c) \/ \E since \in {0, tick - 1} : Load(c, since)
        PROVE  DigestInv'
    BY <1>3, WriteDigestNext, LoseDigestNext, LoadNext
  <1>4. CASE UNCHANGED digestVars
    BY <1>4 DEF digestVars, DigestInv, DigestTypeOK, DatesAreOver, CallsKnow, OthersAreAhead,
                MayBeMissed, Begun, Unarchived
  <1> QED BY <1>1, <1>2, <1>3, <1>4 DEF DigestNext

(* mem_digest: an entry that no digest was made from is not behind the      *)
(* cutoff of the next one, whatever overlaps, is archived or lost, for      *)
(* every limit, unless it is one of the exceptions that overtaken names.    *)
THEOREM DigestsMissNothingElse == DigestSpec => []NoEntryFallsBehind
  <1>1. DigestInv => NoEntryFallsBehind
    BY AheadOfCutoff DEF NoEntryFallsBehind, Begun, MayBeMissed
  <1> QED BY <1>1, DigestInvInit, DigestInvNext, PTL DEF DigestSpec

----------------------------------------------------------------------------
(* Copying entities that have names *)

(* The oldest of the copies to merge is one of them.                        *)

LEMMA CopyNumbers ==
    /\ Entries \subseteq 1 .. 9 /\ Natives \subseteq 10 .. 99
    /\ \A n \in EntityNames : n # Unasked
  BY NamedCopiesAssumption, Zenon

LEMMA NextPairIsPending ==
    ASSUME MergesToMake, copier.at # "idle", copier.todo # {}
    PROVE  /\ NextPair \in copier.todo /\ NextPair[1] \in Natives /\ NextPair[2] \in Copies
           /\ NextPair[1] # NextPair[2]
  <1> DEFINE S == {p[2] : p \in copier.todo}
  <1>1. \A p \in copier.todo : p[1] \in Natives /\ p[2] \in Copies
    BY DEF MergesToMake
  <1>2. \A x \in Copies : x \in Nat /\ x > 100
    BY CopyNumbers DEF Copies, CopyOf
  <1>3. S \subseteq Nat /\ S # {}
    BY <1>1, <1>2
  <1>4. PICK n \in S : \A x \in S : n <= x
    BY <1>3, Smallest
  <1>5. \E p \in copier.todo : \A q \in copier.todo : p[2] <= q[2]
    BY <1>4
  <1>6. NextPair \in copier.todo
    BY <1>5 DEF NextPair
  <1>7. \A i \in Natives : i \in Nat /\ i <= 99
    BY CopyNumbers
  <1> QED BY <1>1, <1>2, <1>6, <1>7

(* Merging m into k takes m away and hands what it was to k: its mentions,  *)
(* and its place in the history.                                            *)
LEMMA MergeHandsOver ==
    ASSUME CopyTypeOK, NEW k \in Entities, NEW m \in Entities, k # m, MergeEntity(k, m)
    PROVE  /\ Entities' = Entities \ {m}
           /\ entity' \in [Entities' -> [name : EntityNames \cup {Unasked}, ver : Nat]]
           /\ \A i \in Entities' : entity'[i].name = entity[i].name
           /\ DOMAIN heir' = DOMAIN heir /\ heir' = [i \in DOMAIN heir' |-> heir'[i]]
           /\ \A i \in DOMAIN heir : heir'[i] = IF heir[i] = m THEN k ELSE heir[i]
  <1> DEFINE newer == [entity[k] EXCEPT !.ver = @ + 1]
  <1>1. PICK n \in EntityNames \cup {Unasked}, v \in Nat : entity[k] = [name |-> n, ver |-> v]
    BY DEF CopyTypeOK
  <1>2. newer = [name |-> n, ver |-> v + 1]
    BY <1>1
  <1>3. newer \in [name : EntityNames \cup {Unasked}, ver : Nat] /\ newer.name = n
    BY <1>2
  <1>4. entity[k].name = n
    BY <1>1
  <1>5. entity' = [i \in Entities \ {m} |-> IF i = k THEN newer ELSE entity[i]]
    BY DEF MergeEntity
  <1> HIDE DEF newer
  <1>6. Entities' = Entities \ {m}
    BY <1>5 DEF Entities
  <1>7. entity' \in [Entities' -> [name : EntityNames \cup {Unasked}, ver : Nat]]
    BY <1>3, <1>5, <1>6 DEF CopyTypeOK
  <1>8. \A i \in Entities' : entity'[i].name = entity[i].name
    BY <1>3, <1>4, <1>5, <1>6
  <1>9. heir' = [i \in DOMAIN heir |-> IF heir[i] = m THEN k ELSE heir[i]]
    BY DEF MergeEntity
  <1>10. /\ DOMAIN heir' = DOMAIN heir /\ heir' = [i \in DOMAIN heir' |-> heir'[i]]
         /\ \A i \in DOMAIN heir : heir'[i] = IF heir[i] = m THEN k ELSE heir[i]
    BY <1>9
  <1> QED BY <1>6, <1>7, <1>8, <1>10

LEMMA MergeKeepsMentions ==
    ASSUME CopyTypeOK, MentionsSurvive, copier.at # "idle", copier'.mode = copier.mode,
           NEW k \in Entities, NEW m \in Entities, k # m, MergeEntity(k, m)
    PROVE  MentionsSurvive'
  <1> SUFFICES ASSUME NEW i \in DOMAIN heir', i > 100 \/ copier.mode # "overwrite"
               PROVE  /\ heir'[i] \in Entities'
                      /\ <<IF i > 100 THEN "copy" ELSE "own", heir'[i]>> \in mentions'
    BY DEF MentionsSurvive, Here
  <1> DEFINE who == IF i > 100 THEN "copy" ELSE "own"
  <1>1. /\ Entities' = Entities \ {m} /\ i \in DOMAIN heir
        /\ heir'[i] = IF heir[i] = m THEN k ELSE heir[i]
    BY MergeHandsOver
  <1>2. heir[i] \in Entities /\ <<who, heir[i]>> \in mentions
    BY <1>1 DEF MentionsSurvive, Here
  <1>3. mentions' = {<<p[1], IF p[2] = m THEN k ELSE p[2]>> : p \in mentions}
    BY DEF MergeEntity, Moved
  <1> HIDE DEF who
  <1>4. <<who, IF heir[i] = m THEN k ELSE heir[i]>> \in mentions'
    BY <1>2, <1>3
  <1> QED BY <1>1, <1>2, <1>4 DEF who

(* A merge by the operation itself: the copy of e goes into what has the    *)
(* name of e, the others and all other names lead where they did.           *)
LEMMA MergeKeepsNames ==
    ASSUME CopyInv, copier.at = "merge",
           NEW k, NEW m, k = NextPair[1], m = NextPair[2], k \in Entities, m \in Entities,
           MergeEntity(k, m), source' = source, copier'.todo = copier.todo \ {NextPair},
           copier'.mode = copier.mode, copier'.quiet = copier.quiet
    PROVE  NamesOnTheWay'
  <1> SUFFICES ASSUME copier.quiet, copier.mode \notin {"keep_both", "skip"}
               PROVE  NamesOnTheWay'
    BY DEF NamesOnTheWay
  <1>1. /\ CopyTypeOK /\ MergesToMake /\ copier.at # "idle" /\ copier.todo # {}
    BY DEF CopyInv, MergesToMake
  <1>2. /\ NextPair \in copier.todo /\ k \in Natives /\ m \in Copies /\ k # m
    BY <1>1, NextPairIsPending
  <1>3. /\ \A e \in Entries : /\ CopyOf(e) \in DOMAIN heir /\ LeadsOrWill(e)
                              /\ heir[CopyOf(e)] \in Natives \cup {CopyOf(e)}
        /\ \A n \in DOMAIN source : Resolved(n) # {}
        /\ \A p \in copier.todo : /\ p[1] \in Having(OldNames[p[2] - 100])
                                  /\ heir[p[2]] = p[2] /\ p[2] \in Having(Unasked)
    BY DEF CopyInv, NamesOnTheWay
  <1>4. /\ Entities' = Entities \ {m}
        /\ \A i \in Entities' : entity'[i].name = entity[i].name
        /\ DOMAIN heir' = DOMAIN heir
        /\ \A i \in DOMAIN heir : heir'[i] = IF heir[i] = m THEN k ELSE heir[i]
    BY <1>1, <1>2, MergeHandsOver
  <1>5. \A n : Having(n)' = Having(n) \ {m}
    <2>1. SUFFICES ASSUME NEW n PROVE Having(n)' = Having(n) \ {m}
      OBVIOUS
    <2>2. \A i : i \in Having(n)' <=> i \in Entities' /\ entity'[i].name = n
      BY DEF Having
    <2>3. \A i : i \in Having(n) <=> i \in Entities /\ entity[i].name = n
      BY DEF Having
    <2> QED BY <1>4, <2>2, <2>3
  <1>6. \A x \in Copies : x \notin Natives
    BY CopyNumbers DEF Copies, CopyOf
  <1>7. \A e \in Entries : CopyOf(e) \in Copies /\ CopyOf(e) - 100 = e
    BY CopyNumbers DEF Copies, CopyOf
  <1>8. \A e \in Entries : heir[CopyOf(e)] = m => CopyOf(e) = m
    BY <1>2, <1>3, <1>6
  <1>9. ASSUME NEW e \in Entries
        PROVE  /\ CopyOf(e) \in DOMAIN heir' /\ LeadsOrWill(e)'
               /\ heir'[CopyOf(e)] \in Natives \cup {CopyOf(e)}
    <2>1. CASE CopyOf(e) = m
      <3>1. heir[m] = m /\ m - 100 = e /\ m \in DOMAIN heir
        BY <1>2, <1>3, <1>7, <2>1
      <3>2. heir'[m] = k
        BY <1>4, <3>1
      <3>3. k \in Having(OldNames[e])
        BY <1>2, <1>3, <3>1
      <3>4. k \in Having(OldNames[e])'
        BY <1>2, <1>5, <3>3
      <3> QED BY <1>2, <1>4, <2>1, <3>1, <3>2, <3>4 DEF LeadsOrWill
    <2>2. CASE CopyOf(e) # m
      <3>1. heir[CopyOf(e)] # m /\ heir'[CopyOf(e)] = heir[CopyOf(e)]
        BY <1>3, <1>4, <1>8, <2>2
      <3>2. CASE heir[CopyOf(e)] \in Having(OldNames[e])
        BY <1>3, <1>4, <1>5, <3>1, <3>2 DEF LeadsOrWill
      <3>3. CASE \E p \in copier.todo : p[2] = CopyOf(e)
        <4>1. PICK p \in copier.todo : p[2] = CopyOf(e)
          BY <3>3
        <4>2. p \in copier'.todo
          BY <2>2, <4>1
        <4> QED BY <1>3, <1>4, <3>1, <4>1, <4>2 DEF LeadsOrWill
      <3> QED BY <1>3, <3>2, <3>3 DEF LeadsOrWill
    <2> QED BY <2>1, <2>2
  <1>10. ASSUME NEW n \in DOMAIN source PROVE Resolved(n)' # {}
    <2>1. n # Unasked
      BY <1>1, NamedCopiesAssumption DEF CopyTypeOK
    <2>2. alias' = [x \in {x \in DOMAIN alias : ~(alias[x] = m /\ x = entity[k].name)} |->
                      IF alias[x] = m THEN k ELSE alias[x]]
      BY DEF MergeEntity
    <2>3. CASE Having(n) # {}
      <3>1. entity[m].name = Unasked
        BY <1>2, <1>3 DEF Having
      <3>2. m \notin Having(n)
        BY <2>1, <3>1 DEF Having
      <3> QED BY <1>5, <2>3, <3>2 DEF Resolved
    <2>4. CASE n \in DOMAIN alias /\ alias[n] = m /\ n = entity[k].name
      <3>1. k \in Having(n)
        BY <2>4 DEF Having
      <3> QED BY <1>2, <1>5, <3>1 DEF Resolved
    <2>5. CASE n \in DOMAIN alias /\ ~(alias[n] = m /\ n = entity[k].name)
      <3>1. n \in DOMAIN alias'
        BY <2>2, <2>5
      <3> QED BY <3>1 DEF Resolved, WithAlias
    <2>6. Having(n) # {} \/ n \in DOMAIN alias
      BY <1>3 DEF Resolved, WithAlias
    <2> QED BY <2>3, <2>4, <2>5, <2>6
  <1>11. ASSUME NEW p \in copier'.todo
         PROVE  /\ p[1] \in Having(OldNames[p[2] - 100])'
                /\ heir'[p[2]] = p[2] /\ p[2] \in Having(Unasked)'
    <2>1. p \in copier.todo /\ p # NextPair /\ p[1] \in Natives /\ p[2] \in Copies
      BY <1>1 DEF MergesToMake
    <2>2. p[2] # m
      BY <1>1, <1>2, <2>1 DEF MergesToMake
    <2>3. p[1] # m
      BY <1>2, <1>6, <2>1
    <2>4. p[2] \in DOMAIN heir
      BY <1>3, <2>1 DEF Copies
    <2> QED BY <1>3, <1>4, <1>5, <2>1, <2>2, <2>3, <2>4
  <1> QED BY <1>9, <1>10, <1>11 DEF NamesOnTheWay

(* What the rows become in their one transaction.                           *)
LEMMA CopyNamesNext ==
    ASSUME CopyInv, NEW mode \in CopyModes, CopyNames(mode)
    PROVE  CopyInv'
  <1> DEFINE new == {CopyOf(e) : e \in CopiedRows(mode)}
             row(i) == [name |-> NameOf(mode, i - 100), ver |-> 1]
  <1>1. /\ Entities = Natives /\ heir = [i \in Natives |-> i] /\ mentions = {"own"} \X Natives
        /\ \A i, j \in Natives : entity[i].name = entity[j].name => i = j
        /\ \A i \in Natives : entity[i].name # Unasked
        /\ \A n \in DOMAIN alias : alias[n] \in Natives
        /\ CopyTypeOK /\ ~Fails(mode)
    BY DEF CopyNames, CopyInv, BeforeCopy
  <1>2. /\ entity' = [i \in Left(mode) \cup new |-> IF i \in new THEN row(i) ELSE entity[i]]
        /\ mentions' = {p \in mentions : p[2] \in Left(mode)} \cup ({"copy"} \X new)
        /\ heir' = [i \in Natives \cup new |-> i] /\ source' = source
        /\ copier' = [at |-> "versions", mode |-> mode, todo |-> Pending(mode), held |-> <<>>,
                      quiet |-> TRUE]
    BY DEF CopyNames, CopiedMentions
  <1>3. /\ copier'.at = "versions" /\ copier'.mode = mode /\ copier'.todo = Pending(mode)
        /\ copier' = [at |-> copier'.at, mode |-> copier'.mode, todo |-> copier'.todo,
                      held |-> copier'.held, quiet |-> copier'.quiet]
    BY <1>2
  <1>4. /\ \A e \in Entries : CopyOf(e) - 100 = e /\ CopyOf(e) > 100 /\ CopyOf(e) \in Nat
        /\ \A i \in Natives : i \in Nat /\ i < 100
    BY CopyNumbers DEF CopyOf
  <1>5. CopiedRows(mode) \subseteq Entries /\ Left(mode) \subseteq Natives
        /\ (mode # "skip" => CopiedRows(mode) = Entries)
        /\ (mode # "overwrite" => Left(mode) = Natives)
    BY <1>1 DEF CopiedRows, Left, Deleted
  <1>6. new \subseteq Copies /\ (\A i \in new : i > 100 /\ i \notin Natives /\ i - 100 \in Entries)
    BY <1>4, <1>5 DEF Copies
  <1>7. \A e \in Entries : NameOf(mode, e) \in EntityNames \cup {Unasked}
    BY NamedCopiesAssumption DEF NameOf
  <1>8. \A i \in new : /\ row(i) \in [name : EntityNames \cup {Unasked}, ver : Nat]
                       /\ row(i).name = NameOf(mode, i - 100)
    BY <1>6, <1>7
  <1> HIDE DEF row, new
  <1>9. /\ Entities' = Left(mode) \cup new
        /\ entity' \in [Entities' -> [name : EntityNames \cup {Unasked}, ver : Nat]]
        /\ \A i \in Left(mode) : i \notin new /\ entity'[i].name = entity[i].name
        /\ \A i \in new : entity'[i].name = NameOf(mode, i - 100)
    <2>1. Entities' = Left(mode) \cup new
      BY <1>2 DEF Entities
    <2>2. entity \in [Natives -> [name : EntityNames \cup {Unasked}, ver : Nat]]
      BY <1>1 DEF CopyTypeOK
    <2>3. entity' \in [Entities' -> [name : EntityNames \cup {Unasked}, ver : Nat]]
      BY <1>2, <1>5, <1>8, <2>1, <2>2
    <2> QED BY <1>2, <1>5, <1>6, <1>8, <2>1, <2>3
  <1>10. \A e \in CopiedRows(mode) : CopyOf(e) \in new
    BY DEF new
  <1>11. CopyTypeOK'
    <2>1. DOMAIN heir' = Natives \cup new /\ heir' = [i \in DOMAIN heir' |-> heir'[i]]
      BY <1>2
    <2> QED BY <1>1, <1>2, <1>3, <1>5, <1>6, <1>9, <2>1 DEF CopyTypeOK
  <1>12. BeforeCopy'
    BY <1>3 DEF BeforeCopy
  <1>13. /\ Pending(mode) \subseteq Natives \X Copies
         /\ \A p \in Pending(mode) : p[1] \in Having(OldNames[p[2] - 100]) /\ p[2] - 100 \in Colliding
    BY <1>4 DEF Pending, Copies, Colliding
  <1>14. MergesToMake'
    <2>1. ASSUME NEW p \in Pending(mode), NEW q \in Pending(mode), p[2] = q[2] PROVE p = q
      <3>1. entity[p[1]].name = entity[q[1]].name
        BY <1>13, <2>1 DEF Having
      <3> QED BY <1>1, <1>13, <2>1, <3>1
    <2> QED BY <1>3, <1>13, <2>1 DEF MergesToMake
  <1>15. MentionsSurvive'
    <2> SUFFICES ASSUME NEW i \in Natives \cup new, i > 100 \/ mode # "overwrite"
                 PROVE  i \in Entities' /\ <<IF i > 100 THEN "copy" ELSE "own", i>> \in mentions'
      BY <1>2, <1>3 DEF MentionsSurvive, Here
    <2>1. CASE i \in new
      BY <1>2, <1>6, <1>9, <2>1
    <2>2. CASE i \notin new
      <3>1. i \in Natives /\ ~(i > 100) /\ i \in Left(mode)
        BY <1>4, <1>5, <2>2
      <3> QED BY <1>1, <1>2, <1>9, <3>1
    <2> QED BY <2>1, <2>2
  <1>16. NamesOnTheWay'
    <2> SUFFICES ASSUME mode \notin {"keep_both", "skip"} PROVE NamesOnTheWay'
      BY <1>3 DEF NamesOnTheWay
    <2>1. ASSUME NEW e \in Entries
          PROVE  /\ CopyOf(e) \in DOMAIN heir' /\ LeadsOrWill(e)'
                 /\ heir'[CopyOf(e)] \in Natives \cup {CopyOf(e)}
      <3>1. CopyOf(e) \in new /\ heir'[CopyOf(e)] = CopyOf(e) /\ CopyOf(e) \in DOMAIN heir'
        BY <1>2, <1>5, <1>10
      <3>2. CASE e \notin Colliding \/ mode = "overwrite"
        <4>1. entity'[CopyOf(e)].name = OldNames[e]
          BY <1>4, <1>9, <3>1, <3>2 DEF NameOf
        <4> QED BY <1>9, <3>1, <4>1 DEF LeadsOrWill, Having
      <3>3. CASE e \in Colliding /\ mode # "overwrite"
        <4>1. mode \in {"by_canonical_key", "merge"}
          BY <1>1, <3>3, NamedCopiesAssumption DEF Fails
        <4>2. PICK i \in Natives : i \in Having(OldNames[e])
          BY <1>1, <3>3 DEF Colliding, Taken, Having
        <4>3. <<i, CopyOf(e)>> \in Pending(mode)
          BY <1>4, <3>3, <4>1, <4>2 DEF Pending
        <4> QED BY <1>3, <3>1, <4>3 DEF LeadsOrWill
      <3> QED BY <3>1, <3>2, <3>3
    <2>2. ASSUME NEW n \in DOMAIN source PROVE Resolved(n)' # {}
      <3> DEFINE kept == {x \in DOMAIN alias : alias[x] \in Left(mode)}
                 added == {x \in DOMAIN source :
                             source[x] \in CopiedRows(mode) /\ ~Skipped(mode, x)}
      <3>1. DOMAIN alias' = kept \cup added
        BY DEF CopyNames
      <3>2. CASE ~Skipped(mode, n)
        <4>1. n \in added
          BY <1>1, <1>5, <2>2, <3>2 DEF CopyTypeOK
        <4> QED BY <3>1, <4>1 DEF Resolved, WithAlias
      <3>3. CASE Skipped(mode, n) /\ n \in DOMAIN alias
        <4>1. mode # "overwrite"
          BY <3>3 DEF Skipped
        <4>2. alias[n] \in Left(mode)
          BY <1>1, <1>5, <3>3, <4>1
        <4> QED BY <3>1, <3>3, <4>2 DEF Resolved, WithAlias
      <3>4. CASE Skipped(mode, n) /\ Taken(n)
        <4>1. PICK i \in Entities : entity[i].name = n
          BY <3>4 DEF Taken, Having
        <4>2. mode # "overwrite"
          BY <3>4 DEF Skipped
        <4>3. i \in Having(n)'
          BY <1>1, <1>5, <1>9, <4>1, <4>2 DEF Having
        <4> QED BY <4>3 DEF Resolved
      <3>5. CASE Skipped(mode, n) /\ \E e \in Entries : NameOf(mode, e) = n
        <4>1. PICK e \in Entries : NameOf(mode, e) = n
          BY <3>5
        <4>2. CopyOf(e) \in Having(n)'
          BY <1>4, <1>5, <1>9, <1>10, <4>1 DEF Having
        <4> QED BY <4>2 DEF Resolved
      <3> QED BY <3>2, <3>3, <3>4, <3>5 DEF Skipped
    <2>3. ASSUME NEW p \in Pending(mode)
          PROVE  /\ p[1] \in Having(OldNames[p[2] - 100])'
                 /\ heir'[p[2]] = p[2] /\ p[2] \in Having(Unasked)'
      <3>1. mode \in {"by_canonical_key", "merge"} /\ p[1] \in Having(OldNames[p[2] - 100])
            /\ p[2] \in Copies /\ p[2] - 100 \in Colliding
        BY <1>13 DEF Pending
      <3>2. PICK e \in Entries : p[2] = CopyOf(e) /\ e \in Colliding
        BY <1>4, <3>1 DEF Copies
      <3>3. CopyOf(e) \in new /\ entity'[CopyOf(e)].name = Unasked
        BY <1>4, <1>5, <1>9, <1>10, <3>1, <3>2 DEF NameOf
      <3>4. p[1] \in Left(mode) /\ p[1] \in Having(OldNames[p[2] - 100])'
        BY <1>1, <1>5, <1>9, <3>1 DEF Having
      <3> QED BY <1>2, <1>9, <3>2, <3>3, <3>4 DEF Having
    <2> QED BY <1>2, <1>3, <2>1, <2>2, <2>3 DEF NamesOnTheWay
  <1> QED BY <1>11, <1>12, <1>14, <1>15, <1>16 DEF CopyInv

LEMMA CopyInvInit == CopyInit => CopyInv
  <1> SUFFICES ASSUME CopyInit PROVE CopyInv
    OBVIOUS
  <1>1. PICK f \in [Natives -> EntityNames] :
           IsInjective(f) /\ entity = [i \in Natives |-> [name |-> f[i], ver |-> 1]]
    BY DEF CopyInit
  <1> DEFINE row(i) == [name |-> f[i], ver |-> 1]
  <1>2. \A i \in Natives : /\ row(i) \in [name : EntityNames \cup {Unasked}, ver : Nat]
                           /\ row(i).name = f[i]
    OBVIOUS
  <1>3. entity = [i \in Natives |-> row(i)]
    BY <1>1
  <1> HIDE DEF row
  <1>4. /\ Entities = Natives /\ entity \in [Natives -> [name : EntityNames \cup {Unasked}, ver : Nat]]
        /\ \A i \in Natives : entity[i].name = f[i]
    BY <1>2, <1>3 DEF Entities
  <1>5. /\ copier.at = "idle" /\ heir = [i \in Natives |-> i] /\ mentions = {"own"} \X Natives
    BY DEF CopyInit
  <1>6. DOMAIN source \subseteq EntityNames /\ \A n \in DOMAIN source : source[n] \in Entries
    BY DEF CopyInit, AtMostOneAlias
  <1>7. \A n \in DOMAIN alias : alias[n] \in Natives
    BY DEF CopyInit, AtMostOneAlias
  <1>8. CopyTypeOK
    BY <1>4, <1>5, <1>6 DEF CopyTypeOK
  <1>9. \A i, j \in Natives : f[i] = f[j] => i = j
    BY <1>1 DEF IsInjective
  <1>10. BeforeCopy
    BY <1>4, <1>5, <1>7, <1>9, CopyNumbers DEF BeforeCopy
  <1> QED BY <1>5, <1>8, <1>10 DEF CopyInv, MergesToMake, NamesOnTheWay, MentionsSurvive

(* A transaction that fails leaves the rows that were there.                *)
LEMMA CopyCrashesNext ==
    ASSUME CopyInv, NEW mode \in CopyModes, CopyCrashes(mode)
    PROVE  CopyInv'
  <1>1. /\ Entities = Natives /\ heir = [i \in Natives |-> i] /\ mentions = {"own"} \X Natives
        /\ CopyTypeOK
    BY DEF CopyCrashes, CopyInv, BeforeCopy
  <1>2. /\ copier'.at = "failed" /\ copier'.mode = mode /\ copier'.todo = {}
        /\ copier' = [at |-> copier'.at, mode |-> copier'.mode, todo |-> copier'.todo,
                      held |-> copier'.held, quiet |-> copier'.quiet]
        /\ UNCHANGED <<source, entity, alias, mentions, heir>>
    BY DEF CopyCrashes, names
  <1>3. CopyTypeOK'
    BY <1>1, <1>2 DEF CopyTypeOK, Entities
  <1>4. MentionsSurvive'
    <2>1. \A i \in Natives : i \in Nat /\ ~(i > 100)
      BY CopyNumbers
    <2> QED BY <1>1, <1>2, <2>1 DEF MentionsSurvive, Here, Entities
  <1>5. BeforeCopy' /\ MergesToMake' /\ NamesOnTheWay'
    BY <1>2 DEF BeforeCopy, MergesToMake, NamesOnTheWay
  <1> QED BY <1>3, <1>4, <1>5 DEF CopyInv

(* The operation goes on without a change of the names.                     *)
LEMMA CopierMoves ==
    ASSUME CopyInv, copier.at # "idle", UNCHANGED <<source, names>>,
           NEW where \in {"versions", "merge", "done", "failed"}, NEW rest, NEW held,
           rest \subseteq copier.todo,
           copier' = [copier EXCEPT !.at = where, !.todo = rest, !.held = held],
           where = "merge" => rest = copier.todo /\ rest # {} /\ DOMAIN held = Pair,
           where = "done" => rest = {},
           \/ where \in {"versions", "merge", "done"} /\ copier.at \in {"versions", "merge"}
              /\ (rest = copier.todo \/ ~copier.quiet \/ copier.mode \in {"keep_both", "skip"})
           \/ where = "failed"
    PROVE  CopyInv'
  <1>1. /\ CopyTypeOK /\ MergesToMake /\ MentionsSurvive /\ NamesOnTheWay
        /\ UNCHANGED <<source, entity, alias, mentions, heir>>
    BY DEF CopyInv, names
  <1>2. copier = [at |-> copier.at, mode |-> copier.mode, todo |-> copier.todo,
                  held |-> copier.held, quiet |-> copier.quiet]
    BY <1>1 DEF CopyTypeOK
  <1>3. copier' = [at |-> where, mode |-> copier.mode, todo |-> rest, held |-> held,
                   quiet |-> copier.quiet]
    BY <1>2
  <1>4. /\ copier'.at = where /\ copier'.mode = copier.mode /\ copier'.todo = rest
        /\ copier'.held = held /\ copier'.quiet = copier.quiet
    BY <1>3
  <1>5. CopyTypeOK'
    <2>1. /\ DOMAIN source' \subseteq EntityNames
          /\ \A n \in DOMAIN source' : source'[n] \in Entries
          /\ Entities' \subseteq Natives \cup Copies
          /\ entity' \in [Entities' -> [name : EntityNames \cup {Unasked}, ver : Nat]]
          /\ DOMAIN heir' \subseteq Natives \cup Copies
          /\ heir' = [i \in DOMAIN heir' |-> heir'[i]]
      BY <1>1 DEF CopyTypeOK, Entities
    <2>2. copier'.at \in {"idle", "versions", "merge", "done", "failed"}
      BY <1>4
    <2>3. copier' = [at |-> copier'.at, mode |-> copier'.mode, todo |-> copier'.todo,
                     held |-> copier'.held, quiet |-> copier'.quiet]
      BY <1>3, <1>4
    <2> QED BY <2>1, <2>2, <2>3 DEF CopyTypeOK
  <1>6. MentionsSurvive'
    BY <1>1, <1>4 DEF MentionsSurvive, Here, Entities
  <1>7. MergesToMake'
    <2>1. where = "merge" => Pair' = Pair
      BY <1>4 DEF Pair, NextPair
    <2> QED BY <1>1, <1>4, <2>1 DEF MergesToMake
  <1>8. NamesOnTheWay'
    BY <1>1, <1>4 DEF NamesOnTheWay, LeadsOrWill, Having, Resolved, WithAlias, Entities
  <1> QED BY <1>4, <1>5, <1>6, <1>7, <1>8 DEF CopyInv, BeforeCopy

(* Where only the operation merges, what it is to merge is there.           *)
LEMMA PairIsThere ==
    ASSUME CopyInv, copier.at = "versions", copier.todo # {}, copier.quiet,
           copier.mode \notin {"keep_both", "skip"}
    PROVE  Pair \subseteq Entities
  <1>1. NextPair \in copier.todo
    BY NextPairIsPending DEF CopyInv
  <1>2. NextPair[1] \in Entities /\ NextPair[2] \in Entities
    BY <1>1 DEF CopyInv, NamesOnTheWay, Having
  <1> QED BY <1>2 DEF Pair

LEMMA ReadVersionsNext == CopyInv /\ ReadVersions => CopyInv'
  <1> SUFFICES ASSUME CopyInv, ReadVersions PROVE CopyInv'
    OBVIOUS
  <1>1. /\ copier.at = "versions" /\ copier.todo # {} /\ UNCHANGED <<source, names>>
        /\ CopyTypeOK /\ copier.at # "idle"
    BY DEF ReadVersions, CopyInv
  <1>2. copier = [at |-> copier.at, mode |-> copier.mode, todo |-> copier.todo,
                  held |-> copier.held, quiet |-> copier.quiet]
    BY <1>1 DEF CopyTypeOK
  <1>3. CASE Pair \subseteq Entities
    <2> DEFINE held == Versions(Pair)
    <2>1. DOMAIN held = Pair
      BY <1>3 DEF Versions
    <2>2. copier' = [copier EXCEPT !.at = "merge", !.held = held]
      BY <1>3 DEF ReadVersions
    <2> HIDE DEF held
    <2>3. copier' = [copier EXCEPT !.at = "merge", !.todo = copier.todo, !.held = held]
      BY <1>2, <2>2
    <2> QED BY <1>1, <2>1, <2>3, CopierMoves
  <1>4. CASE ~(Pair \subseteq Entities)
    <2>1. ~copier.quiet \/ copier.mode \in {"keep_both", "skip"}
      BY <1>1, <1>4, PairIsThere
    <2> DEFINE rest == copier.todo \ {NextPair}
               where == IF copier.mode = "merge" THEN "versions" ELSE "failed"
    <2>2. copier' = [copier EXCEPT !.at = where, !.todo = rest, !.held = <<>>]
      BY <1>4 DEF ReadVersions, MergedState
    <2>3. rest \subseteq copier.todo /\ where \in {"versions", "failed"}
      OBVIOUS
    <2> HIDE DEF rest, where
    <2> QED BY <1>1, <2>1, <2>2, <2>3, CopierMoves
  <1> QED BY <1>3, <1>4

LEMMA MergePairNext == CopyInv /\ MergePair => CopyInv'
  <1> SUFFICES ASSUME CopyInv, MergePair PROVE CopyInv'
    OBVIOUS
  <1> DEFINE k == NextPair[1]
             m == NextPair[2]
             rest == copier.todo \ {NextPair}
  <1>1. /\ copier.at = "merge" /\ copier.held = Versions(Pair) /\ MergeEntity(k, m)
        /\ source' = source /\ CopyTypeOK /\ MergesToMake /\ MentionsSurvive
        /\ copier.at # "idle" /\ copier.todo # {} /\ DOMAIN copier.held = Pair
    BY DEF MergePair, CopyInv, MergesToMake
  <1>2. copier = [at |-> copier.at, mode |-> copier.mode, todo |-> copier.todo,
                  held |-> copier.held, quiet |-> copier.quiet]
    BY <1>1 DEF CopyTypeOK
  <1>3. copier' = [copier EXCEPT !.at = "versions", !.todo = rest, !.held = <<>>]
    BY DEF MergePair, MergedState
  <1>4. k \in Entities /\ m \in Entities
    <2>1. DOMAIN Versions(Pair) = Pair \cap Entities
      BY DEF Versions
    <2> QED BY <1>1, <2>1 DEF Pair
  <1>5. k # m
    BY <1>1, NextPairIsPending
  <1> HIDE DEF k, m
  <1>6. rest \subseteq copier.todo
    OBVIOUS
  <1>7. copier' = [at |-> "versions", mode |-> copier.mode, todo |-> rest, held |-> <<>>,
                   quiet |-> copier.quiet]
    BY <1>2, <1>3
  <1>8. /\ copier'.at = "versions" /\ copier'.mode = copier.mode /\ copier'.todo = rest
        /\ copier'.quiet = copier.quiet
        /\ copier' = [at |-> copier'.at, mode |-> copier'.mode, todo |-> copier'.todo,
                      held |-> copier'.held, quiet |-> copier'.quiet]
    BY <1>7
  <1>9. MentionsSurvive'
    BY <1>1, <1>4, <1>5, <1>8, MergeKeepsMentions
  <1>10. NamesOnTheWay'
    BY <1>1, <1>4, <1>8, MergeKeepsNames DEF k, m
  <1>11. CopyTypeOK'
    BY <1>1, <1>4, <1>5, <1>8, MergeHandsOver DEF CopyTypeOK
  <1>12. MergesToMake' /\ BeforeCopy'
    BY <1>1, <1>6, <1>8 DEF MergesToMake, BeforeCopy
  <1> QED BY <1>9, <1>10, <1>11, <1>12 DEF CopyInv

(* An upsert changes no name; a merge by a caller hands over like any       *)
(* other, and the names are the caller's from then on.                      *)
LEMMA CallersNext ==
    ASSUME CopyInv,
           \/ \E i \in Entities : UpsertEntity(i)
           \/ \E k, m \in Entities : MergeByCaller(k, m)
    PROVE  CopyInv'
  <1>1. /\ copier.at \in {"versions", "merge"} /\ copier.at # "idle" /\ source' = source
        /\ CopyTypeOK /\ MergesToMake /\ MentionsSurvive /\ NamesOnTheWay
    BY DEF UpsertEntity, MergeByCaller, Caller, CopyInv
  <1>2. ASSUME NEW i \in Entities, UpsertEntity(i) PROVE CopyInv'
    <2> DEFINE newer == [entity[i] EXCEPT !.ver = @ + 1]
    <2>1. PICK n \in EntityNames \cup {Unasked}, v \in Nat : entity[i] = [name |-> n, ver |-> v]
      BY <1>1 DEF CopyTypeOK
    <2>2. newer = [name |-> n, ver |-> v + 1]
      BY <2>1
    <2>3. newer \in [name : EntityNames \cup {Unasked}, ver : Nat] /\ newer.name = entity[i].name
      BY <2>1, <2>2
    <2>4. /\ entity' = [entity EXCEPT ![i] = [entity[i] EXCEPT !.ver = entity[i].ver + 1]]
          /\ UNCHANGED <<source, alias, mentions, heir, copier>>
      BY <1>1, <1>2 DEF UpsertEntity
    <2>5. entity' = [entity EXCEPT ![i] = newer]
      BY <2>4
    <2> HIDE DEF newer
    <2>6. /\ Entities' = Entities
          /\ entity' \in [Entities' -> [name : EntityNames \cup {Unasked}, ver : Nat]]
          /\ \A j \in Entities : entity'[j].name = entity[j].name
      BY <1>1, <2>3, <2>5 DEF CopyTypeOK, Entities
    <2>7. CopyTypeOK' /\ MergesToMake' /\ BeforeCopy' /\ MentionsSurvive'
      BY <1>1, <2>4, <2>6 DEF CopyTypeOK, MergesToMake, Pair, NextPair, BeforeCopy,
                              MentionsSurvive, Here
    <2>8. \A x : Having(x)' = Having(x)
      BY <2>6 DEF Having
    <2>9. NamesOnTheWay'
      BY <1>1, <2>4, <2>8 DEF NamesOnTheWay, LeadsOrWill, Resolved, WithAlias
    <2> QED BY <2>7, <2>9 DEF CopyInv
  <1>3. ASSUME NEW k \in Entities, NEW m \in Entities, MergeByCaller(k, m) PROVE CopyInv'
    <2>1. /\ k # m /\ MergeEntity(k, m) /\ copier' = [copier EXCEPT !.quiet = FALSE]
      BY <1>3 DEF MergeByCaller
    <2>2. copier = [at |-> copier.at, mode |-> copier.mode, todo |-> copier.todo,
                    held |-> copier.held, quiet |-> copier.quiet]
      BY <1>1 DEF CopyTypeOK
    <2>3. copier' = [at |-> copier.at, mode |-> copier.mode, todo |-> copier.todo,
                     held |-> copier.held, quiet |-> FALSE]
      BY <2>1, <2>2
    <2>4. /\ copier'.at = copier.at /\ copier'.mode = copier.mode /\ copier'.todo = copier.todo
          /\ copier'.held = copier.held /\ copier'.quiet = FALSE
          /\ copier' = [at |-> copier'.at, mode |-> copier'.mode, todo |-> copier'.todo,
                        held |-> copier'.held, quiet |-> copier'.quiet]
      BY <2>3
    <2>5. MentionsSurvive'
      BY <1>1, <2>1, <2>4, MergeKeepsMentions
    <2>6. CopyTypeOK'
      BY <1>1, <2>1, <2>4, MergeHandsOver DEF CopyTypeOK
    <2>7. MergesToMake' /\ BeforeCopy' /\ NamesOnTheWay'
      BY <1>1, <2>4 DEF MergesToMake, Pair, NextPair, BeforeCopy, NamesOnTheWay
    <2> QED BY <2>5, <2>6, <2>7 DEF CopyInv
  <1> QED BY <1>2, <1>3

LEMMA CopyInvNext == CopyInv /\ [CopyNext]_copyVars => CopyInv'
  <1> SUFFICES ASSUME CopyInv, [CopyNext]_copyVars PROVE CopyInv'
    OBVIOUS
  <1>1. ASSUME MergeConflicts \/ EndCopy \/ DieCopying PROVE CopyInv'
    <2>1. /\ copier.at \in {"versions", "merge"} /\ copier.at # "idle"
          /\ UNCHANGED <<source, names>>
          /\ \/ copier.todo = {} /\ MergedState("done", {})
             \/ MergedState("failed", copier.todo)
      BY <1>1 DEF MergeConflicts, EndCopy, DieCopying
    <2>2. CASE copier.todo = {} /\ MergedState("done", {})
      BY <2>1, <2>2, CopierMoves DEF MergedState
    <2>3. CASE MergedState("failed", copier.todo)
      BY <2>1, <2>3, CopierMoves DEF MergedState
    <2> QED BY <2>1, <2>2, <2>3
  <1>2. CASE UNCHANGED copyVars
    BY <1>2 DEF copyVars, names, CopyInv, CopyTypeOK, BeforeCopy, MergesToMake, Pair, NextPair,
                NamesOnTheWay, LeadsOrWill, Having, Resolved, WithAlias, MentionsSurvive, Here,
                Entities
  <1> QED BY <1>1, <1>2, CopyNamesNext, CopyCrashesNext, ReadVersionsNext, MergePairNext,
             CallersNext DEF CopyNext

(* env_merge and env_import into an environment that has names: whatever    *)
(* the copies are called, however callers upsert and merge and wherever the *)
(* operation ends, no mention is lost, and one that ends without an error   *)
(* leaves every name leading to a copy or to what it was merged into.       *)
THEOREM CopiesKeepTheirNames == CopySpec => []NamesSurviveCopying
  <1>1. CopyInv => NamesSurviveCopying
    <2> SUFFICES ASSUME CopyInv, copier.at = "done", copier.quiet,
                        copier.mode \notin {"keep_both", "skip"}
                 PROVE  /\ \A e \in Entries : heir[CopyOf(e)] \in Having(OldNames[e])
                        /\ \A n \in DOMAIN source : Resolved(n) # {}
      BY DEF CopyInv, NamesSurviveCopying, NamesLeadToCopies
    <2>1. copier.todo = {} /\ NamesOnTheWay
      BY DEF CopyInv, MergesToMake
    <2> QED BY <2>1 DEF NamesOnTheWay, LeadsOrWill
  <1> QED BY <1>1, CopyInvInit, CopyInvNext, PTL DEF CopySpec

----------------------------------------------------------------------------
(* Entities by name *)

LEMMA EntIdsAreNumbers == \A i \in EntIds : i \in Nat /\ i # 0
  BY DEF EntIds

(* s is the call r but for the fields fs.                                   *)
SameBut(s, r, fs) ==
    /\ s \in ClerkCalls
    /\ ("at" \notin fs => s.at = r.at) /\ ("env" \notin fs => s.env = r.env)
    /\ ("name" \notin fs => s.name = r.name) /\ ("kind" \notin fs => s.kind = r.kind)
    /\ ("url" \notin fs => s.url = r.url) /\ ("id" \notin fs => s.id = r.id)
    /\ ("ver" \notin fs => s.ver = r.ver) /\ ("other" \notin fs => s.other = r.other)
    /\ ("node" \notin fs => s.node = r.node) /\ ("keeps" \notin fs => s.keeps = r.keeps)
    /\ ("loses" \notin fs => s.loses = r.loses) /\ ("moves" \notin fs => s.moves = r.moves)
Ats == {"idle", "find", "insert", "update", "merge", "commitMerge"} \cup Sends

LEMMA SetField ==
    ASSUME NEW r \in ClerkCalls
    PROVE  /\ \A x \in Ats : /\ [r EXCEPT !.at = x].at = x
                             /\ SameBut([r EXCEPT !.at = x], r, {"at"})
           /\ \A x \in Envs : /\ [r EXCEPT !.env = x].env = x
                              /\ SameBut([r EXCEPT !.env = x], r, {"env"})
           /\ \A x \in Names : /\ [r EXCEPT !.name = x].name = x
                               /\ SameBut([r EXCEPT !.name = x], r, {"name"})
           /\ \A x \in Kinds : /\ [r EXCEPT !.kind = x].kind = x
                               /\ SameBut([r EXCEPT !.kind = x], r, {"kind"})
           /\ \A x \in Envs \cup {"none"} : /\ [r EXCEPT !.url = x].url = x
                                            /\ SameBut([r EXCEPT !.url = x], r, {"url"})
           /\ \A x \in EntIds : /\ [r EXCEPT !.id = x].id = x
                                /\ SameBut([r EXCEPT !.id = x], r, {"id"})
           /\ \A x \in Nat : /\ [r EXCEPT !.ver = x].ver = x
                             /\ SameBut([r EXCEPT !.ver = x], r, {"ver"})
           /\ \A x \in EntIds : /\ [r EXCEPT !.other = x].other = x
                                /\ SameBut([r EXCEPT !.other = x], r, {"other"})
           /\ \A x \in Nat : /\ [r EXCEPT !.node = x].node = x
                             /\ SameBut([r EXCEPT !.node = x], r, {"node"})
           /\ \A x \in EntIds \cup {0} : /\ [r EXCEPT !.keeps = x].keeps = x
                                        /\ SameBut([r EXCEPT !.keeps = x], r, {"keeps"})
           /\ \A x \in EntIds \cup {0} : /\ [r EXCEPT !.loses = x].loses = x
                                        /\ SameBut([r EXCEPT !.loses = x], r, {"loses"})
           /\ \A x \in SUBSET Messages : /\ [r EXCEPT !.moves = x].moves = x
                                         /\ SameBut([r EXCEPT !.moves = x], r, {"moves"})
  <1>1. ASSUME NEW x \in Ats
        PROVE  [r EXCEPT !.at = x].at = x /\ SameBut([r EXCEPT !.at = x], r, {"at"})
    BY DEF ClerkCalls, Sends, Ats, SameBut
  <1>2. ASSUME NEW x \in Envs
        PROVE  [r EXCEPT !.env = x].env = x /\ SameBut([r EXCEPT !.env = x], r, {"env"})
    BY DEF ClerkCalls, Sends, Ats, SameBut
  <1>3. ASSUME NEW x \in Names
        PROVE  [r EXCEPT !.name = x].name = x /\ SameBut([r EXCEPT !.name = x], r, {"name"})
    BY DEF ClerkCalls, Sends, Ats, SameBut
  <1>4. ASSUME NEW x \in Kinds
        PROVE  [r EXCEPT !.kind = x].kind = x /\ SameBut([r EXCEPT !.kind = x], r, {"kind"})
    BY DEF ClerkCalls, Sends, Ats, SameBut
  <1>5. ASSUME NEW x \in Envs \cup {"none"}
        PROVE  [r EXCEPT !.url = x].url = x /\ SameBut([r EXCEPT !.url = x], r, {"url"})
    BY DEF ClerkCalls, Sends, Ats, SameBut
  <1>6. ASSUME NEW x \in EntIds
        PROVE  [r EXCEPT !.id = x].id = x /\ SameBut([r EXCEPT !.id = x], r, {"id"})
    BY DEF ClerkCalls, Sends, Ats, SameBut
  <1>7. ASSUME NEW x \in Nat
        PROVE  [r EXCEPT !.ver = x].ver = x /\ SameBut([r EXCEPT !.ver = x], r, {"ver"})
    BY DEF ClerkCalls, Sends, Ats, SameBut
  <1>8. ASSUME NEW x \in EntIds
        PROVE  [r EXCEPT !.other = x].other = x /\ SameBut([r EXCEPT !.other = x], r, {"other"})
    BY DEF ClerkCalls, Sends, Ats, SameBut
  <1>9. ASSUME NEW x \in Nat
        PROVE  [r EXCEPT !.node = x].node = x /\ SameBut([r EXCEPT !.node = x], r, {"node"})
    BY DEF ClerkCalls, Sends, Ats, SameBut
  <1>10. ASSUME NEW x \in SUBSET Messages
        PROVE  [r EXCEPT !.moves = x].moves = x /\ SameBut([r EXCEPT !.moves = x], r, {"moves"})
    BY DEF ClerkCalls, Sends, Ats, SameBut
  <1>11. ASSUME NEW x \in EntIds \cup {0}
         PROVE  [r EXCEPT !.keeps = x].keeps = x /\ SameBut([r EXCEPT !.keeps = x], r, {"keeps"})
    BY DEF ClerkCalls, Sends, Ats, SameBut
  <1>12. ASSUME NEW x \in EntIds \cup {0}
         PROVE  [r EXCEPT !.loses = x].loses = x /\ SameBut([r EXCEPT !.loses = x], r, {"loses"})
    BY DEF ClerkCalls, Sends, Ats, SameBut
  <1> QED BY <1>1, <1>2, <1>3, <1>4, <1>5, <1>6, <1>7, <1>8, <1>9, <1>10, <1>11, <1>12

LEMMA NoCallIsTyped == NoCall \in ClerkCalls /\ NoCall.at = "idle"
  BY DEF NoCall, ClerkCalls

(* What a call becomes when it begins, and by each of its steps.            *)
IsFindCall(s, env, name, kind) ==
    /\ s.at = "find" /\ s.env = env /\ s.name = name /\ s.kind = kind
    /\ SameBut(s, NoCall, {"at", "env", "name", "kind"})
LEMMA FindCall ==
    ASSUME NEW env \in Envs, NEW name \in Names, NEW kind \in Kinds,
           NEW s, s = [NoCall EXCEPT !.at = "find", !.env = env, !.name = name, !.kind = kind]
    PROVE  IsFindCall(s, env, name, kind)
  <1> DEFINE r1 == [NoCall EXCEPT !.at = "find"]
             r2 == [r1 EXCEPT !.env = env]
             r3 == [r2 EXCEPT !.name = name]
             r4 == [r3 EXCEPT !.kind = kind]
  <1>0. r4 = s
    BY Zenon
  <1>1. r1.at = "find" /\ SameBut(r1, NoCall, {"at"})
    BY SetField, NoCallIsTyped DEF Ats
  <1> HIDE DEF r1
  <1>2. r2.env = env /\ SameBut(r2, r1, {"env"})
    BY <1>1, SetField DEF SameBut
  <1>3. /\ r2.at = "find" /\ r2.env = env
        /\ SameBut(r2, NoCall, {"at", "env"})
    BY <1>1, <1>2 DEF SameBut
  <1> HIDE DEF r2
  <1>4. r3.name = name /\ SameBut(r3, r2, {"name"})
    BY <1>3, SetField DEF SameBut
  <1>5. /\ r3.at = "find" /\ r3.env = env /\ r3.name = name
        /\ SameBut(r3, NoCall, {"at", "env", "name"})
    BY <1>3, <1>4 DEF SameBut
  <1> HIDE DEF r3
  <1>6. r4.kind = kind /\ SameBut(r4, r3, {"kind"})
    BY <1>5, SetField DEF SameBut
  <1>7. /\ r4.at = "find" /\ r4.env = env /\ r4.name = name /\ r4.kind = kind
        /\ SameBut(r4, NoCall, {"at", "env", "name", "kind"})
    BY <1>5, <1>6 DEF SameBut
  <1>8. IsFindCall(r4, env, name, kind)
    BY <1>7 DEF IsFindCall
  <1> HIDE DEF r4
  <1> QED BY <1>0, <1>8, Zenon

IsMergeCall(s, i, v, j, w) ==
    /\ s.at = "merge" /\ s.id = i /\ s.ver = v /\ s.other = j /\ s.node = w
    /\ SameBut(s, NoCall, {"at", "id", "ver", "other", "node"})
LEMMA MergeCall ==
    ASSUME NEW i \in EntIds, NEW v \in Nat, NEW j \in EntIds, NEW w \in Nat,
           NEW s, s = [NoCall EXCEPT !.at = "merge", !.id = i, !.ver = v, !.other = j, !.node = w]
    PROVE  IsMergeCall(s, i, v, j, w)
  <1> DEFINE r1 == [NoCall EXCEPT !.at = "merge"]
             r2 == [r1 EXCEPT !.id = i]
             r3 == [r2 EXCEPT !.ver = v]
             r4 == [r3 EXCEPT !.other = j]
             r5 == [r4 EXCEPT !.node = w]
  <1>0. r5 = s
    BY Zenon
  <1>1. r1.at = "merge" /\ SameBut(r1, NoCall, {"at"})
    BY SetField, NoCallIsTyped DEF Ats
  <1> HIDE DEF r1
  <1>2. r2.id = i /\ SameBut(r2, r1, {"id"})
    BY <1>1, SetField DEF SameBut
  <1>3. /\ r2.at = "merge" /\ r2.id = i
        /\ SameBut(r2, NoCall, {"at", "id"})
    BY <1>1, <1>2 DEF SameBut
  <1> HIDE DEF r2
  <1>4. r3.ver = v /\ SameBut(r3, r2, {"ver"})
    BY <1>3, SetField DEF SameBut
  <1>5. /\ r3.at = "merge" /\ r3.id = i /\ r3.ver = v
        /\ SameBut(r3, NoCall, {"at", "id", "ver"})
    BY <1>3, <1>4 DEF SameBut
  <1> HIDE DEF r3
  <1>6. r4.other = j /\ SameBut(r4, r3, {"other"})
    BY <1>5, SetField DEF SameBut
  <1>7. /\ r4.at = "merge" /\ r4.id = i /\ r4.ver = v /\ r4.other = j
        /\ SameBut(r4, NoCall, {"at", "id", "ver", "other"})
    BY <1>5, <1>6 DEF SameBut
  <1> HIDE DEF r4
  <1>8. r5.node = w /\ SameBut(r5, r4, {"node"})
    BY <1>7, SetField DEF SameBut
  <1>9. /\ r5.at = "merge" /\ r5.id = i /\ r5.ver = v /\ r5.other = j /\ r5.node = w
        /\ SameBut(r5, NoCall, {"at", "id", "ver", "other", "node"})
    BY <1>7, <1>8 DEF SameBut
  <1>10. IsMergeCall(r5, i, v, j, w)
    BY <1>9 DEF IsMergeCall
  <1> HIDE DEF r5
  <1> QED BY <1>0, <1>10, Zenon

IsSendCall(s, env, url, i) ==
    /\ s.at = "write" /\ s.env = env /\ s.url = url /\ s.id = i
    /\ SameBut(s, NoCall, {"at", "env", "url", "id"})
LEMMA SendCall ==
    ASSUME NEW env \in Envs, NEW url \in Envs \cup {"none"}, NEW i \in EntIds,
           NEW s, s = [NoCall EXCEPT !.at = "write", !.env = env, !.url = url, !.id = i]
    PROVE  IsSendCall(s, env, url, i)
  <1> DEFINE r1 == [NoCall EXCEPT !.at = "write"]
             r2 == [r1 EXCEPT !.env = env]
             r3 == [r2 EXCEPT !.url = url]
             r4 == [r3 EXCEPT !.id = i]
  <1>0. r4 = s
    BY Zenon
  <1>1. r1.at = "write" /\ SameBut(r1, NoCall, {"at"})
    BY SetField, NoCallIsTyped DEF Ats, Sends
  <1> HIDE DEF r1
  <1>2. r2.env = env /\ SameBut(r2, r1, {"env"})
    BY <1>1, SetField DEF SameBut
  <1>3. /\ r2.at = "write" /\ r2.env = env
        /\ SameBut(r2, NoCall, {"at", "env"})
    BY <1>1, <1>2 DEF SameBut
  <1> HIDE DEF r2
  <1>4. r3.url = url /\ SameBut(r3, r2, {"url"})
    BY <1>3, SetField DEF SameBut
  <1>5. /\ r3.at = "write" /\ r3.env = env /\ r3.url = url
        /\ SameBut(r3, NoCall, {"at", "env", "url"})
    BY <1>3, <1>4 DEF SameBut
  <1> HIDE DEF r3
  <1>6. r4.id = i /\ SameBut(r4, r3, {"id"})
    BY <1>5, SetField DEF SameBut
  <1>7. /\ r4.at = "write" /\ r4.env = env /\ r4.url = url /\ r4.id = i
        /\ SameBut(r4, NoCall, {"at", "env", "url", "id"})
    BY <1>5, <1>6 DEF SameBut
  <1>8. IsSendCall(r4, env, url, i)
    BY <1>7 DEF IsSendCall
  <1> HIDE DEF r4
  <1> QED BY <1>0, <1>8, Zenon

IsUpdateCall(s, r, i, v) ==
    /\ s.at = "update" /\ s.id = i /\ s.ver = v
    /\ SameBut(s, r, {"at", "id", "ver"})
LEMMA UpdateCall ==
    ASSUME NEW r \in ClerkCalls, NEW i \in EntIds, NEW v \in Nat,
           NEW s, s = [r EXCEPT !.at = "update", !.id = i, !.ver = v]
    PROVE  IsUpdateCall(s, r, i, v)
  <1> DEFINE r1 == [r EXCEPT !.at = "update"]
             r2 == [r1 EXCEPT !.id = i]
             r3 == [r2 EXCEPT !.ver = v]
  <1>0. r3 = s
    BY Zenon
  <1>1. r1.at = "update" /\ SameBut(r1, r, {"at"})
    BY SetField DEF Ats
  <1> HIDE DEF r1
  <1>2. r2.id = i /\ SameBut(r2, r1, {"id"})
    BY <1>1, SetField DEF SameBut
  <1>3. /\ r2.at = "update" /\ r2.id = i
        /\ SameBut(r2, r, {"at", "id"})
    BY <1>1, <1>2 DEF SameBut
  <1> HIDE DEF r2
  <1>4. r3.ver = v /\ SameBut(r3, r2, {"ver"})
    BY <1>3, SetField DEF SameBut
  <1>5. /\ r3.at = "update" /\ r3.id = i /\ r3.ver = v
        /\ SameBut(r3, r, {"at", "id", "ver"})
    BY <1>3, <1>4 DEF SameBut
  <1>6. IsUpdateCall(r3, r, i, v)
    BY <1>5 DEF IsUpdateCall
  <1> HIDE DEF r3
  <1> QED BY <1>0, <1>6, Zenon

IsPlanCall(s, r, k, l, M) ==
    /\ s.at = "commitMerge" /\ s.keeps = k /\ s.loses = l /\ s.moves = M
    /\ SameBut(s, r, {"at", "keeps", "loses", "moves"})
LEMMA PlanCall ==
    ASSUME NEW r \in ClerkCalls, NEW k \in EntIds \cup {0}, NEW l \in EntIds \cup {0},
           NEW M \in SUBSET Messages,
           NEW s, s = [r EXCEPT !.at = "commitMerge", !.keeps = k, !.loses = l, !.moves = M]
    PROVE  IsPlanCall(s, r, k, l, M)
  <1> DEFINE r1 == [r EXCEPT !.at = "commitMerge"]
             r2 == [r1 EXCEPT !.keeps = k]
             r3 == [r2 EXCEPT !.loses = l]
             r4 == [r3 EXCEPT !.moves = M]
  <1>0. r4 = s
    BY Zenon
  <1>1. r1.at = "commitMerge" /\ SameBut(r1, r, {"at"})
    BY SetField DEF Ats
  <1> HIDE DEF r1
  <1>2. r2.keeps = k /\ SameBut(r2, r1, {"keeps"})
    BY <1>1, SetField DEF SameBut
  <1>3. r2.at = "commitMerge" /\ r2.keeps = k /\ SameBut(r2, r, {"at", "keeps"})
    BY <1>1, <1>2 DEF SameBut
  <1> HIDE DEF r2
  <1>4. r3.loses = l /\ SameBut(r3, r2, {"loses"})
    BY <1>3, SetField DEF SameBut
  <1>5. /\ r3.at = "commitMerge" /\ r3.keeps = k /\ r3.loses = l
        /\ SameBut(r3, r, {"at", "keeps", "loses"})
    BY <1>3, <1>4 DEF SameBut
  <1> HIDE DEF r3
  <1>6. r4.moves = M /\ SameBut(r4, r3, {"moves"})
    BY <1>5, SetField DEF SameBut
  <1>7. /\ r4.at = "commitMerge" /\ r4.keeps = k /\ r4.loses = l /\ r4.moves = M
        /\ SameBut(r4, r, {"at", "keeps", "loses", "moves"})
    BY <1>5, <1>6 DEF SameBut
  <1>8. IsPlanCall(r4, r, k, l, M)
    BY <1>7 DEF IsPlanCall
  <1> HIDE DEF r4
  <1> QED BY <1>0, <1>8, Zenon

IsLinkCall(s, r, a, w) ==
    /\ s.at = a /\ s.node = w
    /\ SameBut(s, r, {"at", "node"})
LEMMA LinkCall ==
    ASSUME NEW r \in ClerkCalls, NEW a \in {"addNode", "commit"}, NEW w \in Nat,
           NEW s, s = [r EXCEPT !.at = a, !.node = w]
    PROVE  IsLinkCall(s, r, a, w)
  <1> DEFINE r1 == [r EXCEPT !.at = a]
             r2 == [r1 EXCEPT !.node = w]
  <1>0. r2 = s
    BY Zenon
  <1>1. r1.at = a /\ SameBut(r1, r, {"at"})
    BY SetField DEF Ats, Sends
  <1> HIDE DEF r1
  <1>2. r2.node = w /\ SameBut(r2, r1, {"node"})
    BY <1>1, SetField DEF SameBut
  <1>3. /\ r2.at = a /\ r2.node = w
        /\ SameBut(r2, r, {"at", "node"})
    BY <1>1, <1>2 DEF SameBut
  <1>4. IsLinkCall(r2, r, a, w)
    BY <1>3 DEF IsLinkCall
  <1> HIDE DEF r2
  <1> QED BY <1>0, <1>4, Zenon

(* Only the call of c moves; nothing is written.                            *)
OnlyCall(c) ==
    /\ clerk' \in [Clerks -> ClerkCalls] /\ \A d \in Clerks \ {c} : clerk'[d] = clerk[d]
    /\ UNCHANGED <<ent, mergedInto, node, mention, entEvents, sent, late>>

LEMMA CallBecomes ==
    ASSUME EntTypeOK, NEW c \in Clerks, NEW r \in ClerkCalls, clerk' = [clerk EXCEPT ![c] = r],
           UNCHANGED <<ent, mergedInto, node, mention, entEvents, sent, late>>
    PROVE  OnlyCall(c) /\ clerk'[c] = r
  BY DEF EntTypeOK, OnlyCall

LEMMA FailIs ==
    ASSUME EntTypeOK, NEW c \in Clerks, Fail(c)
    PROVE  OnlyCall(c) /\ clerk'[c] = NoCall /\ clerk'[c].at = "idle"
  BY CallBecomes, NoCallIsTyped DEF Fail, Return

(* The steps that write nothing, by what is known of the call afterwards.   *)
QuietStep(c) ==
    /\ OnlyCall(c) /\ clerk'[c].at \in {"idle", "find", "insert", "update"}
    /\ clerk'[c].at = "update" => clerk'[c].id \in EntIds

LEMMA BeginFindIs ==
    ASSUME EntTypeOK, NEW c \in Clerks, NEW env \in Envs, NEW name \in Names, NEW kind \in Kinds,
           BeginUpsert(c, env, name, kind) \/ (kind = "channel" /\ BeginOpen(c, env, name))
    PROVE  QuietStep(c)
  <1> DEFINE r == [NoCall EXCEPT !.at = "find", !.env = env, !.name = name, !.kind = kind]
  <1>1. Start(c, r)
    BY DEF BeginUpsert, BeginOpen
  <1>2. IsFindCall(r, env, name, kind)
    BY FindCall, Zenon
  <1> HIDE DEF r
  <1>3. r \in ClerkCalls /\ r.at = "find"
    BY <1>2 DEF IsFindCall, SameBut
  <1> QED BY <1>1, <1>3, CallBecomes DEF Start, QuietStep

LEMMA BeginSendIs ==
    ASSUME EntTypeOK, NEW c \in Clerks, NEW url \in Envs \cup {"none"}, NEW env \in Envs,
           NEW slug, BeginSend(c, url, env, slug)
    PROVE  /\ OnlyCall(c) /\ clerk'[c].at = "write"
           /\ clerk'[c].id \in Live /\ clerk'[c].url \in {"none", ent[clerk'[c].id].env}
  <1>1. PICK i \in Channel(env, slug) :
           Start(c, [NoCall EXCEPT !.at = "write", !.env = env, !.url = url, !.id = i])
    BY DEF BeginSend
  <1>2. i \in Live /\ i \in EntIds /\ ent[i].env = env /\ url \in {"none", env}
    BY DEF BeginSend, EnvAgrees, Channel, Named, Live
  <1> DEFINE r == [NoCall EXCEPT !.at = "write", !.env = env, !.url = url, !.id = i]
  <1>3. Start(c, r)
    BY <1>1
  <1>4. IsSendCall(r, env, url, i)
    BY <1>2, SendCall, Zenon
  <1> HIDE DEF r
  <1>5. r \in ClerkCalls /\ r.at = "write" /\ r.url = url /\ r.id = i
    BY <1>4 DEF IsSendCall, SameBut
  <1> QED BY <1>2, <1>3, <1>5, CallBecomes DEF Start

LEMMA BeginMergeIs ==
    ASSUME EntTypeOK, NEW c \in Clerks, NEW i \in EntIds, NEW j \in EntIds, BeginMerge(c, i, j)
    PROVE  /\ OnlyCall(c) /\ clerk'[c].at = "merge"
           /\ clerk'[c].id \in Live /\ clerk'[c].other \in Live
           /\ clerk'[c].id # clerk'[c].other
           /\ ent[clerk'[c].id].ver = clerk'[c].ver /\ ent[clerk'[c].other].ver = clerk'[c].node
  <1> DEFINE r == [NoCall EXCEPT !.at = "merge", !.id = i, !.ver = ent[i].ver,
                                 !.other = j, !.node = ent[j].ver]
  <1>1. Start(c, r) /\ i \in Live /\ j \in Live /\ i # j
    BY DEF BeginMerge
  <1>2. ent[i].ver \in Nat /\ ent[j].ver \in Nat
    BY DEF EntTypeOK
  <1>3. IsMergeCall(r, i, ent[i].ver, j, ent[j].ver)
    BY <1>2, MergeCall, Zenon
  <1> HIDE DEF r
  <1>4. /\ r \in ClerkCalls /\ r.at = "merge" /\ r.id = i
        /\ r.ver = ent[i].ver /\ r.other = j /\ r.node = ent[j].ver
    BY <1>3 DEF IsMergeCall, SameBut
  <1>5. OnlyCall(c) /\ clerk'[c] = r
    BY <1>1, <1>4, CallBecomes DEF Start
  <1> QED BY <1>1, <1>4, <1>5

LEMMA TheNodeIs ==
    ASSUME NEW i \in EntIds
    PROVE  /\ TheNode(i) \in EntIds \cup {0} /\ TheNode(i) \in Nat
           /\ TheNode(i) = 0 <=> NodeOf(i) = {}
           /\ TheNode(i) # 0 => TheNode(i) \in NodeOf(i)
  BY EntIdsAreNumbers DEF TheNode, NodeOf

LEMMA PlanMergeIs ==
    ASSUME EntTypeOK, NEW c \in Clerks, PlanMerge(c), CallFinds(clerk[c])
    PROVE  /\ OnlyCall(c) /\ clerk[c].at = "merge" /\ clerk'[c].at = "commitMerge"
           /\ SameBut(clerk'[c], clerk[c], {"at", "keeps", "loses", "moves"})
           /\ clerk'[c].keeps = TheNode(clerk[c].id)
           /\ clerk'[c].loses = TheNode(clerk[c].other)
           /\ clerk'[c].moves = Repointed(clerk[c].other)
  <1> DEFINE k == TheNode(clerk[c].id)
             l == TheNode(clerk[c].other)
             M == Repointed(clerk[c].other)
             r == [clerk[c] EXCEPT !.at = "commitMerge", !.keeps = k, !.loses = l, !.moves = M]
  <1>1. clerk[c].at = "merge" /\ Becomes(c, r)
    BY DEF PlanMerge
  <1>2. M \in SUBSET Messages /\ k \in EntIds \cup {0} /\ l \in EntIds \cup {0}
    BY <1>1, TheNodeIs DEF Repointed, CallFinds, Merging
  <1>3. clerk[c] \in ClerkCalls
    BY DEF EntTypeOK
  <1> HIDE DEF k, l, M
  <1>4. IsPlanCall(r, clerk[c], k, l, M)
    BY <1>2, <1>3, PlanCall, Zenon
  <1> HIDE DEF r
  <1>5. r \in ClerkCalls
    BY <1>4 DEF IsPlanCall, SameBut
  <1>6. OnlyCall(c) /\ clerk'[c] = r
    BY <1>1, <1>5, CallBecomes DEF Becomes
  <1> QED BY <1>1, <1>4, <1>6 DEF IsPlanCall, k, l, M

LEMMA LinkChannelIs ==
    ASSUME EntTypeOK, NEW c \in Clerks, LinkChannel(c)
    PROVE  /\ OnlyCall(c) /\ clerk[c].at = "write"
           /\ \/ clerk'[c].at = "idle"
              \/ /\ clerk'[c].at \in {"addNode", "commit"} /\ clerk'[c].id \in Live
                 /\ SameBut(clerk'[c], clerk[c], {"at", "node"})
                 /\ clerk'[c].at = "commit" => clerk'[c].node \in NodeOf(clerk'[c].id)
  <1>1. clerk[c].at = "write" /\ clerk[c] \in ClerkCalls
    BY DEF LinkChannel, EntTypeOK
  <1>2. CASE Fail(c)
    BY <1>1, <1>2, FailIs
  <1>3. CASE ~Fail(c)
    <2> DEFINE i == clerk[c].id
               a == IF NodeOf(i) = {} THEN "addNode" ELSE "commit"
               n == TheNode(i)
               r == [clerk[c] EXCEPT !.at = a, !.node = n]
    <2>1. Becomes(c, r) /\ i \in Live
      BY <1>3 DEF LinkChannel
    <2>2. a \in {"addNode", "commit"} /\ (a = "commit" => n \in NodeOf(i)) /\ n \in Nat
      BY <2>1, TheNodeIs DEF Live
    <2> HIDE DEF a, n
    <2>3. IsLinkCall(r, clerk[c], a, n)
      BY <1>1, <2>2, LinkCall, Zenon
    <2> HIDE DEF r
    <2>4. r \in ClerkCalls /\ r.id = i
      BY <2>3 DEF IsLinkCall, SameBut
    <2>5. OnlyCall(c) /\ clerk'[c] = r
      BY <2>1, <2>4, CallBecomes DEF Becomes
    <2> QED BY <1>1, <2>1, <2>2, <2>3, <2>4, <2>5 DEF IsLinkCall
  <1> QED BY <1>2, <1>3

LEMMA FindEntityIs ==
    ASSUME EntTypeOK, NEW c \in Clerks, FindEntity(c)
    PROVE  QuietStep(c) /\ clerk[c].at = "find"
  <1>1. clerk[c].at = "find" /\ clerk[c] \in ClerkCalls
    BY DEF FindEntity, EntTypeOK
  <1>2. CASE Fail(c)
    BY <1>1, <1>2, FailIs DEF QuietStep
  <1>3. CASE Becomes(c, [clerk[c] EXCEPT !.at = "insert"])
    <2> DEFINE r == [clerk[c] EXCEPT !.at = "insert"]
    <2>1. r \in ClerkCalls /\ r.at = "insert"
      BY <1>1, SetField DEF SameBut, Ats
    <2>2. Becomes(c, r)
      BY <1>3
    <2> HIDE DEF r
    <2> QED BY <1>1, <2>1, <2>2, CallBecomes DEF Becomes, QuietStep
  <1>4. ASSUME NEW i \in Named(clerk[c].env, clerk[c].name),
               Becomes(c, [clerk[c] EXCEPT !.at = "update", !.id = i, !.ver = ent[i].ver])
        PROVE  QuietStep(c)
    <2> DEFINE r == [clerk[c] EXCEPT !.at = "update", !.id = i, !.ver = ent[i].ver]
    <2>1. i \in EntIds /\ ent[i].ver \in Nat
      BY DEF Named, Live, EntTypeOK
    <2>2. IsUpdateCall(r, clerk[c], i, ent[i].ver)
      BY <1>1, <2>1, UpdateCall, Zenon
    <2>3. Becomes(c, r)
      BY <1>4
    <2> HIDE DEF r
    <2>4. r \in ClerkCalls /\ r.at = "update" /\ r.id = i
      BY <2>2 DEF IsUpdateCall, SameBut
    <2> QED BY <2>1, <2>3, <2>4, CallBecomes DEF Becomes, QuietStep
  <1> QED BY <1>1, <1>2, <1>3, <1>4 DEF FindEntity

(* The calls after a step that writes: c is answered.                       *)
Replied(c) ==
    /\ clerk' \in [Clerks -> ClerkCalls] /\ clerk'[c] = NoCall
    /\ \A d \in Clerks \ {c} : clerk'[d] = clerk[d]

LEMMA ReturnIs ==
    ASSUME EntTypeOK, NEW c \in Clerks, Return(c)
    PROVE  Replied(c)
  BY NoCallIsTyped DEF EntTypeOK, Return, Replied

EntRows == [env : Envs \cup {"none"}, name : Names \cup {"none"}, kind : Kinds \cup {"none"},
            ver : Nat]

(* The steps that write, in the words of the tables.                        *)
LEMMA InsertIs ==
    ASSUME EntTypeOK, NEW c \in Clerks, InsertEntity(c), ~Fail(c)
    PROVE  /\ clerk[c].at = "insert" /\ Replied(c)
           /\ UNCHANGED <<mergedInto, node, mention, sent, late>>
           /\ \E i \in EntIds, row \in EntRows :
                 /\ ent[i] = NoEnt /\ row.ver = 1 /\ Named(row.env, row.name) = {}
                 /\ ent' = [ent EXCEPT ![i] = row]
                 /\ entEvents' = entEvents \cup {<<i, 1, "upsert">>}
  <1> DEFINE row == [env |-> clerk[c].env, name |-> clerk[c].name, kind |-> clerk[c].kind,
                     ver |-> 1]
  <1>1. /\ clerk[c].at = "insert" /\ Named(clerk[c].env, clerk[c].name) = {} /\ Return(c)
        /\ UNCHANGED <<mergedInto, node, mention, sent, late>>
        /\ \E i \in EntIds : /\ ent[i] = NoEnt /\ ent' = [ent EXCEPT ![i] = row]
                             /\ entEvents' = entEvents \cup {<<i, 1, "upsert">>}
    BY DEF InsertEntity
  <1>2. clerk[c].env \in Envs \cup {"none"} /\ clerk[c].name \in Names \cup {"none"}
        /\ clerk[c].kind \in Kinds \cup {"none"}
    BY DEF EntTypeOK, ClerkCalls
  <1>3. row \in EntRows /\ row.ver = 1 /\ row.env = clerk[c].env /\ row.name = clerk[c].name
    BY <1>2 DEF EntRows
  <1> HIDE DEF row
  <1> QED BY <1>1, <1>3, ReturnIs

(* A new version of an entity: with another kind, by an upsert, or as the   *)
(* one that is kept, by a merge.                                            *)
NewVersion(i, row) ==
    /\ row \in EntRows /\ row.env = ent[i].env /\ row.name = ent[i].name
    /\ row.ver = ent[i].ver + 1 /\ ent' = [ent EXCEPT ![i] = row]

LEMMA UpdateIs ==
    ASSUME EntTypeOK, NEW c \in Clerks, UpdateEntity(c), clerk[c].id \in EntIds, ~Fail(c)
    PROVE  /\ clerk[c].at = "update" /\ Replied(c) /\ clerk[c].id \in Live
           /\ UNCHANGED <<mergedInto, node, mention, sent, late>>
           /\ \E row : NewVersion(clerk[c].id, row)
           /\ entEvents' = entEvents \cup {<<clerk[c].id, ent[clerk[c].id].ver + 1, "update">>}
  <1> DEFINE i == clerk[c].id
             row == [env |-> ent[i].env, name |-> ent[i].name, kind |-> clerk[c].kind,
                     ver |-> ent[i].ver + 1]
  <1>1. /\ clerk[c].at = "update" /\ i \in Live /\ ent[i].ver = clerk[c].ver /\ Return(c)
        /\ UNCHANGED <<mergedInto, node, mention, sent, late>>
        /\ ent' = [ent EXCEPT ![i].kind = clerk[c].kind, ![i].ver = clerk[c].ver + 1]
        /\ entEvents' = entEvents \cup {<<i, clerk[c].ver + 1, "update">>}
    BY DEF UpdateEntity, AtVersion
  <1>2. ent[i] \in EntRows /\ clerk[c].kind \in Kinds \cup {"none"}
    BY DEF EntTypeOK, EntRows, ClerkCalls
  <1>3. ent[i] = [env |-> ent[i].env, name |-> ent[i].name, kind |-> ent[i].kind,
                  ver |-> ent[i].ver]
    BY <1>2 DEF EntRows
  <1>4. row \in EntRows /\ row.env = ent[i].env /\ row.name = ent[i].name
        /\ row.ver = ent[i].ver + 1
    BY <1>2 DEF EntRows
  <1>5. ent'[i] = row
    BY <1>1, <1>2, <1>3 DEF EntTypeOK
  <1>6. ent' = [ent EXCEPT ![i] = ent'[i]]
    BY <1>1 DEF EntTypeOK
  <1> HIDE DEF row
  <1>7. NewVersion(i, row)
    BY <1>4, <1>5, <1>6 DEF NewVersion
  <1> QED BY <1>1, <1>7, ReturnIs

LEMMA CommitMergeIs ==
    ASSUME EntTypeOK, NEW c \in Clerks, NEW i, NEW j, i = clerk[c].id, j = clerk[c].other,
           i \in EntIds, CommitMerge(c), ~Fail(c)
    PROVE  /\ clerk[c].at = "commitMerge" /\ Replied(c) /\ i \in Live
           /\ ent[i].ver = clerk[c].ver /\ sent' = sent /\ late' = late
           /\ ~EventTaken(j, clerk[c].node + 1)
           /\ \E row : NewVersion(i, row)
           /\ mergedInto' = [mergedInto EXCEPT ![j] = i]
           /\ entEvents' = entEvents \cup {<<j, clerk[c].node + 1, "tombstone">>,
                                           <<i, ent[i].ver + 1, "update">>}
           /\ \/ /\ TakesNode(clerk[c]) /\ NodeOf(i) = {} /\ mention' = mention
                 /\ node' = [n \in EntIds |-> IF node[n] = j THEN i ELSE node[n]]
              \/ /\ ~TakesNode(clerk[c])
                 /\ node' = [n \in EntIds |-> IF node[n] = j THEN 0 ELSE node[n]]
                 /\ mention' = {x \in mention : x[2] \notin NodeOf(j)}
                                 \cup {<<m, clerk[c].keeps>> : m \in clerk[c].moves}
  <1> DEFINE row == [ent[i] EXCEPT !.ver = ent[i].ver + 1]
  <1>1. clerk[c].at = "commitMerge" /\ ~MergeFails(clerk[c])
    BY DEF CommitMerge
  <1>2. /\ i \in Live /\ ent[i].ver = clerk[c].ver /\ ~EventTaken(j, clerk[c].node + 1)
        /\ TakesNode(clerk[c]) => NodeOf(i) = {}
    BY <1>1 DEF MergeFails, AtVersion
  <1>3. /\ Return(c) /\ sent' = sent /\ late' = late /\ ent' = [ent EXCEPT ![i] = row]
        /\ mergedInto' = [mergedInto EXCEPT ![j] = i]
        /\ entEvents' = entEvents \cup {<<j, clerk[c].node + 1, "tombstone">>,
                                        <<i, clerk[c].ver + 1, "update">>}
    BY <1>1 DEF CommitMerge
  <1>4. \/ /\ TakesNode(clerk[c]) /\ mention' = mention
           /\ node' = [n \in EntIds |-> IF node[n] = j THEN i ELSE node[n]]
        \/ /\ ~TakesNode(clerk[c])
           /\ node' = [n \in EntIds |-> IF node[n] = j THEN 0 ELSE node[n]]
           /\ mention' = {x \in mention : x[2] \notin NodeOf(j)}
                           \cup {<<m, clerk[c].keeps>> : m \in clerk[c].moves}
    BY <1>1 DEF CommitMerge
  <1>5. ent[i] \in EntRows
    BY DEF EntTypeOK, EntRows
  <1>6. row \in EntRows /\ row.env = ent[i].env /\ row.name = ent[i].name
        /\ row.ver = ent[i].ver + 1
    BY <1>5 DEF EntRows
  <1> HIDE DEF row
  <1>7. NewVersion(i, row)
    BY <1>3, <1>6 DEF NewVersion
  <1> QED BY <1>1, <1>2, <1>3, <1>4, <1>7, ReturnIs

LEMMA CommitSendIs ==
    ASSUME EntTypeOK, NEW c \in Clerks, NEW i, i = clerk[c].id,
           NEW w, w = (IF clerk[c].at = "addNode" THEN i ELSE clerk[c].node),
           CommitSend(c), ~Fail(c)
    PROVE  /\ clerk[c].at \in {"addNode", "commit"} /\ Replied(c)
           /\ UNCHANGED <<ent, mergedInto, entEvents>>
           /\ \E m \in Messages :
                 /\ mention' = mention \cup {<<m, w>>}
                 /\ sent' = sent \cup {[msg |-> m, to |-> i, url |-> clerk[c].url]}
                 /\ late' = late \cup {x \in {m} : BeingMerged(node'[w])}
           /\ \/ /\ clerk[c].at = "addNode" /\ NodeOf(i) = {} /\ i \in Live
                 /\ node' = [node EXCEPT ![i] = i]
              \/ clerk[c].at = "commit" /\ node[clerk[c].node] # 0 /\ node' = node
  BY ReturnIs DEF CommitSend

(* Names and nodes, with merges beside any other calls *)

LEMMA NamesInvInit == EntInit => NamesInv
  <1> SUFFICES ASSUME EntInit PROVE NamesInv
    OBVIOUS
  <1>1. NoEnt \in EntRows /\ NoEnt.ver = 0
    BY DEF NoEnt, EntRows
  <1>2. \A i \in EntIds : ent[i] = NoEnt /\ mergedInto[i] = 0 /\ node[i] = 0
    BY DEF EntInit
  <1>3. \A c \in Clerks : clerk[c] = NoCall
    BY DEF EntInit
  <1>4. EntTypeOK
    BY <1>1, NoCallIsTyped DEF EntInit, EntTypeOK, EntRows
  <1>5. Live = {}
    BY <1>1, <1>2 DEF Live
  <1>6. CallFinds(NoCall)
    BY NoCallIsTyped DEF CallFinds, Merging, Sends
  <1>7. \A c \in Clerks : CallFinds(clerk[c])
    BY <1>3, <1>6
  <1> QED BY <1>2, <1>4, <1>5, <1>7 DEF NamesInv, NodesStandForOne, Gone

LEMMA NamesStayInCalls ==
    ASSUME NamesInv, NEW c \in Clerks, OnlyCall(c), CallFinds(clerk'[c])
    PROVE  NamesInv'
  <1>1. EntTypeOK' /\ UNCHANGED <<ent, mergedInto, node>>
    BY DEF NamesInv, EntTypeOK, OnlyCall
  <1>2. Live' = Live /\ \A i : Gone(i)' = Gone(i)
    BY <1>1 DEF Live, Gone
  <1>3. NodesStandForOne'
    BY <1>1, <1>2 DEF NamesInv, NodesStandForOne
  <1>4. \A d \in Clerks : CallFinds(clerk'[d])
    BY DEF NamesInv, OnlyCall
  <1>5. \A d \in Clerks : CallFinds(clerk[d])'
    BY <1>1, <1>4 DEF CallFinds
  <1> QED BY <1>1, <1>2, <1>3, <1>5 DEF NamesInv

(* Entities do not cease to exist, so calls find them.                      *)
LEMMA CallsStillFind ==
    ASSUME NamesInv, NEW c \in Clerks, Replied(c),
           \A i \in EntIds : ent[i].ver > 0 => ent'[i].ver > 0
    PROVE  \A d \in Clerks : CallFinds(clerk[d])'
  <1>1. ASSUME NEW d \in Clerks, d # c PROVE CallFinds(clerk[d])'
    <2>1. clerk'[d] = clerk[d] /\ CallFinds(clerk[d])
      BY <1>1 DEF NamesInv, Replied
    <2> QED BY <2>1 DEF CallFinds
  <1>2. CallFinds(clerk[c])'
    <2>1. clerk'[c].at = "idle"
      BY NoCallIsTyped DEF Replied
    <2> QED BY <2>1 DEF CallFinds, Merging, Sends
  <1> QED BY <1>1, <1>2

LEMMA NamesInsert == ASSUME NamesInv, NEW c \in Clerks, InsertEntity(c), ~Fail(c) PROVE NamesInv'
  <1>1. /\ Replied(c) /\ UNCHANGED <<mergedInto, node>>
        /\ \E i \in EntIds, row \in EntRows :
              /\ ent[i] = NoEnt /\ row.ver = 1 /\ Named(row.env, row.name) = {}
              /\ ent' = [ent EXCEPT ![i] = row]
    BY InsertIs DEF NamesInv
  <1>2. PICK i \in EntIds, row \in EntRows :
           /\ ent[i] = NoEnt /\ row.ver = 1 /\ Named(row.env, row.name) = {}
           /\ ent' = [ent EXCEPT ![i] = row]
    BY <1>1
  <1>3. ent \in [EntIds -> EntRows] /\ ent[i].ver = 0 /\ ~Gone(i)
    BY <1>2 DEF NamesInv, EntTypeOK, EntRows, NoEnt
  <1>4. /\ ent' \in [EntIds -> EntRows] /\ ent'[i] = row
        /\ \A k \in EntIds \ {i} : ent'[k] = ent[k]
    BY <1>2, <1>3
  <1>5. Live' = Live \cup {i} /\ \A k : Gone(k)' = Gone(k)
    BY <1>1, <1>2, <1>3, <1>4 DEF Live, Gone
  <1>6. EntTypeOK'
    BY <1>1, <1>4 DEF NamesInv, EntTypeOK, EntRows, Replied
  <1>7. NodesStandForOne'
    BY <1>1, <1>5 DEF NamesInv, NodesStandForOne
  <1>8. \A d \in Clerks : CallFinds(clerk[d])'
    BY <1>1, <1>3, <1>4, CallsStillFind
  <1>9. \A k \in EntIds : ent'[k].ver = 0 => ~Gone(k)'
    BY <1>2, <1>4, <1>5 DEF NamesInv
  <1>10. ASSUME NEW k \in Live', NEW l \in Live',
                ent'[k].env = ent'[l].env, ent'[k].name = ent'[l].name
         PROVE  k = l
    <2>1. \A x \in Live : x # i => ~(ent'[x].env = row.env /\ ent'[x].name = row.name)
      BY <1>2, <1>4 DEF Named, Live
    <2>2. CASE k = i \/ l = i
      BY <1>4, <1>5, <1>10, <2>1, <2>2
    <2>3. CASE k # i /\ l # i
      BY <1>4, <1>5, <1>10, <2>3 DEF NamesInv, Live
    <2> QED BY <2>2, <2>3
  <1> QED BY <1>6, <1>7, <1>8, <1>9, <1>10 DEF NamesInv

(* A new version keeps the name.                                            *)
LEMMA NewVersionKeeps ==
    ASSUME EntTypeOK, NEW i \in EntIds, NEW row, NewVersion(i, row)
    PROVE  /\ ent' \in [EntIds -> EntRows] /\ ent'[i].ver = ent[i].ver + 1 /\ ent'[i].ver > 0
           /\ \A k \in EntIds : /\ ent'[k].env = ent[k].env /\ ent'[k].name = ent[k].name
                                /\ k # i => ent'[k] = ent[k]
                                /\ ent[k].ver > 0 => ent'[k].ver > 0
  <1>1. ent \in [EntIds -> EntRows] /\ \A k \in EntIds : ent[k].ver \in Nat
    BY DEF EntTypeOK, EntRows
  <1>2. ent' \in [EntIds -> EntRows] /\ ent'[i] = row /\ \A k \in EntIds \ {i} : ent'[k] = ent[k]
    BY <1>1 DEF NewVersion
  <1> QED BY <1>1, <1>2 DEF NewVersion

LEMMA NamesUpdate == ASSUME NamesInv, NEW c \in Clerks, UpdateEntity(c), ~Fail(c) PROVE NamesInv'
  <1> DEFINE i == clerk[c].id
  <1>1. clerk[c].at = "update"
    BY DEF UpdateEntity
  <1>2. i \in EntIds
    BY <1>1 DEF NamesInv, CallFinds
  <1>3. Replied(c) /\ i \in Live /\ UNCHANGED <<mergedInto, node>> /\ \E row : NewVersion(i, row)
    BY <1>2, UpdateIs DEF NamesInv
  <1> HIDE DEF i
  <1>4. /\ ent' \in [EntIds -> EntRows] /\ ent'[i].ver > 0
        /\ \A k \in EntIds : /\ ent'[k].env = ent[k].env /\ ent'[k].name = ent[k].name
                             /\ k # i => ent'[k] = ent[k]
                             /\ ent[k].ver > 0 => ent'[k].ver > 0
    BY <1>2, <1>3, NewVersionKeeps DEF NamesInv
  <1>5. Live' = Live /\ \A k : Gone(k)' = Gone(k)
    <2>1. \A k \in EntIds : Gone(k)' = Gone(k) /\ (ent'[k].ver > 0 <=> k = i \/ ent[k].ver > 0)
      BY <1>3, <1>4 DEF Gone
    <2> QED BY <1>3, <2>1 DEF Live, Gone
  <1>6. EntTypeOK'
    BY <1>3, <1>4 DEF NamesInv, EntTypeOK, EntRows, Replied
  <1>7. NodesStandForOne'
    BY <1>3, <1>5 DEF NamesInv, NodesStandForOne
  <1>8. \A d \in Clerks : CallFinds(clerk[d])'
    BY <1>3, <1>4, CallsStillFind
  <1>9. \A k \in EntIds : ent'[k].ver = 0 => ~Gone(k)'
    BY <1>3, <1>4, <1>5 DEF NamesInv, Live
  <1>10. \A k, l \in Live' : ent'[k].env = ent'[l].env /\ ent'[k].name = ent'[l].name => k = l
    BY <1>4, <1>5 DEF NamesInv, Live
  <1> QED BY <1>6, <1>7, <1>8, <1>9, <1>10 DEF NamesInv

(* The nodes of the merged entity stand for the kept one, or for nothing.   *)
LEMMA NamesMerge == ASSUME NamesInv, NEW c \in Clerks, CommitMerge(c), ~Fail(c) PROVE NamesInv'
  <1> DEFINE i == clerk[c].id
             j == clerk[c].other
  <1>1. clerk[c].at = "commitMerge"
    BY DEF CommitMerge
  <1>2. i \in EntIds /\ j \in EntIds /\ i # j /\ ent[j].ver > 0
    BY <1>1 DEF NamesInv, CallFinds, Merging
  <1>3. /\ Replied(c) /\ i \in Live /\ \E row : NewVersion(i, row)
        /\ mergedInto' = [mergedInto EXCEPT ![j] = i]
        /\ \/ /\ NodeOf(i) = {}
              /\ node' = [n \in EntIds |-> IF node[n] = j THEN i ELSE node[n]]
           \/ node' = [n \in EntIds |-> IF node[n] = j THEN 0 ELSE node[n]]
    BY <1>2, CommitMergeIs DEF NamesInv
  <1> HIDE DEF i, j
  <1>4. /\ ent' \in [EntIds -> EntRows] /\ ent'[i].ver > 0
        /\ \A k \in EntIds : /\ ent'[k].env = ent[k].env /\ ent'[k].name = ent[k].name
                             /\ k # i => ent'[k] = ent[k]
                             /\ ent[k].ver > 0 => ent'[k].ver > 0
    BY <1>2, <1>3, NewVersionKeeps DEF NamesInv
  <1>5. /\ mergedInto' \in [EntIds -> EntIds \cup {0}] /\ mergedInto'[j] # 0
        /\ \A k \in EntIds \ {j} : mergedInto'[k] = mergedInto[k]
    BY <1>2, <1>3, EntIdsAreNumbers DEF NamesInv, EntTypeOK
  <1>6. \A k \in EntIds : Gone(k)' <=> k = j \/ Gone(k)
    BY <1>5 DEF Gone
  <1>7. Live' = Live \ {j}
    <2>1. \A k \in EntIds : ent'[k].ver > 0 <=> k = i \/ ent[k].ver > 0
      BY <1>4
    <2> QED BY <1>2, <1>3, <1>6, <2>1 DEF Live
  <1>8. /\ node' \in [EntIds -> EntIds \cup {0}]
        /\ \A n \in EntIds : \/ node[n] # j /\ node'[n] = node[n]
                             \/ node[n] = j /\ node'[n] = 0
                             \/ node[n] = j /\ node'[n] = i /\ NodeOf(i) = {}
    BY <1>2, <1>3 DEF NamesInv, EntTypeOK
  <1>9. EntTypeOK'
    BY <1>3, <1>4, <1>5, <1>8 DEF NamesInv, EntTypeOK, EntRows, Replied
  <1>10. NodesStandForOne'
    <2>1. ASSUME NEW n \in EntIds
          PROVE  node'[n] \in Live' \cup {0} /\ (node'[n] \notin {0, n} => Gone(n)')
      <3>1. node[n] \in Live \cup {0} /\ (node[n] \notin {0, n} => Gone(n))
        BY DEF NamesInv, NodesStandForOne
      <3>2. i \in Live'
        BY <1>2, <1>3, <1>7
      <3> QED BY <1>2, <1>6, <1>7, <1>8, <3>1, <3>2, EntIdsAreNumbers
    <2>2. ASSUME NEW m \in EntIds, NEW n \in EntIds, node'[m] = node'[n], node'[m] # 0
          PROVE  m = n
      <3>1. node[m] = node[n] /\ node[m] # 0 => m = n
        BY DEF NamesInv, NodesStandForOne
      <3>2. NodeOf(i) = {} => node[m] # i /\ node[n] # i
        BY DEF NodeOf
      <3> QED BY <1>2, <1>8, <2>2, <3>1, <3>2, EntIdsAreNumbers
    <2> QED BY <2>1, <2>2 DEF NodesStandForOne
  <1>11. \A d \in Clerks : CallFinds(clerk[d])'
    BY <1>3, <1>4, CallsStillFind
  <1>12. \A k \in EntIds : ent'[k].ver = 0 => ~Gone(k)'
    BY <1>2, <1>4, <1>6 DEF NamesInv
  <1>13. \A k, l \in Live' : ent'[k].env = ent'[l].env /\ ent'[k].name = ent'[l].name => k = l
    BY <1>4, <1>7 DEF NamesInv, Live
  <1> QED BY <1>9, <1>10, <1>11, <1>12, <1>13 DEF NamesInv

(* The node of a channel that a message adds is its own.                    *)
LEMMA NamesSend == ASSUME NamesInv, NEW c \in Clerks, CommitSend(c), ~Fail(c) PROVE NamesInv'
  <1> DEFINE i == clerk[c].id
  <1>1. /\ Replied(c) /\ UNCHANGED <<ent, mergedInto>>
        /\ \/ NodeOf(i) = {} /\ i \in Live /\ node' = [node EXCEPT ![i] = i]
           \/ node' = node
    BY CommitSendIs DEF NamesInv
  <1> HIDE DEF i
  <1>2. Live' = Live /\ \A k : Gone(k)' = Gone(k)
    BY <1>1 DEF Live, Gone
  <1>3. \A d \in Clerks : CallFinds(clerk[d])'
    BY <1>1, CallsStillFind
  <1>4. CASE NodeOf(i) = {} /\ i \in Live /\ node' = [node EXCEPT ![i] = i]
    <2>1. /\ node' \in [EntIds -> EntIds \cup {0}] /\ node'[i] = i /\ i \in EntIds
          /\ \A n \in EntIds \ {i} : node'[n] = node[n]
      BY <1>4 DEF NamesInv, EntTypeOK, Live
    <2>2. \A n \in EntIds : node[n] # i
      BY <1>4 DEF NodeOf
    <2>3. EntTypeOK'
      BY <1>1, <2>1 DEF NamesInv, EntTypeOK, Replied
    <2>4. NodesStandForOne'
      BY <1>2, <1>4, <2>1, <2>2 DEF NamesInv, NodesStandForOne
    <2> QED BY <1>1, <1>2, <1>3, <2>3, <2>4 DEF NamesInv
  <1>5. CASE node' = node
    <2>1. EntTypeOK' /\ NodesStandForOne'
      BY <1>1, <1>2, <1>5 DEF NamesInv, EntTypeOK, Replied, NodesStandForOne
    <2> QED BY <1>1, <1>2, <1>3, <2>1 DEF NamesInv
  <1> QED BY <1>1, <1>4, <1>5

(* What the calls that write nothing know of their entities.                *)
LEMMA MovesFind ==
    ASSUME NamesInv, NEW c \in Clerks,
           \/ QuietStep(c)
           \/ OnlyCall(c) /\ clerk'[c] = NoCall
           \/ /\ OnlyCall(c) /\ clerk'[c].at = "merge" /\ clerk'[c].id \in Live
              /\ clerk'[c].other \in Live /\ clerk'[c].id # clerk'[c].other
           \/ PlanMerge(c)
           \/ OnlyCall(c) /\ clerk'[c].at = "write" /\ clerk'[c].id \in Live
           \/ LinkChannel(c)
    PROVE  OnlyCall(c) /\ CallFinds(clerk'[c])
  <1>1. EntTypeOK /\ CallFinds(clerk[c])
    BY DEF NamesInv
  <1>2. \A k \in Live : k \in EntIds /\ ent[k].ver > 0
    BY DEF Live
  <1>3. CASE QuietStep(c)
    BY <1>3 DEF QuietStep, CallFinds, Merging, Sends
  <1>4. CASE OnlyCall(c) /\ clerk'[c] = NoCall
    BY <1>4, NoCallIsTyped DEF CallFinds, Merging, Sends
  <1>5. CASE /\ OnlyCall(c) /\ clerk'[c].at = "merge" /\ clerk'[c].id \in Live
             /\ clerk'[c].other \in Live /\ clerk'[c].id # clerk'[c].other
    BY <1>2, <1>5 DEF CallFinds, Merging, Sends
  <1>6. CASE PlanMerge(c)
    BY <1>1, <1>6, PlanMergeIs DEF CallFinds, Merging, Sends, SameBut
  <1>7. CASE OnlyCall(c) /\ clerk'[c].at = "write" /\ clerk'[c].id \in Live
    BY <1>2, <1>7 DEF CallFinds, Merging, Sends
  <1>8. CASE LinkChannel(c)
    <2>1. clerk'[c].at = "commit" => clerk'[c].node \in EntIds
      BY <1>1, <1>8, LinkChannelIs DEF NodeOf
    <2>2. clerk'[c].at = "idle" \/ clerk'[c].id \in EntIds
      BY <1>1, <1>2, <1>8, LinkChannelIs
    <2>3. OnlyCall(c) /\ clerk'[c].at \in {"idle", "addNode", "commit"}
      BY <1>1, <1>8, LinkChannelIs
    <2> QED BY <2>1, <2>2, <2>3 DEF CallFinds, Merging, Sends
  <1> QED BY <1>3, <1>4, <1>5, <1>6, <1>7, <1>8

LEMMA NamesInvNext == NamesInv /\ [EntNext]_entVars => NamesInv'
  <1> SUFFICES ASSUME NamesInv, [EntNext]_entVars PROVE NamesInv'
    OBVIOUS
  <1>1. EntTypeOK
    BY DEF NamesInv
  <1>2. ASSUME NEW c \in Clerks, NEW env \in Envs, NEW name \in Names,
               \/ \E kind \in Kinds \ {"channel"} : BeginUpsert(c, env, name, kind)
               \/ BeginOpen(c, env, name)
               \/ \E url \in Envs \cup {"none"} : BeginSend(c, url, env, name)
        PROVE  NamesInv'
    <2>1. CASE \/ \E kind \in Kinds \ {"channel"} : BeginUpsert(c, env, name, kind)
               \/ BeginOpen(c, env, name)
      <3>1. QuietStep(c)
        BY <1>1, <2>1, BeginFindIs, ChannelIsAKind
      <3> QED BY <3>1, MovesFind, NamesStayInCalls
    <2>2. ASSUME NEW url \in Envs \cup {"none"}, BeginSend(c, url, env, name)
          PROVE  NamesInv'
      <3>1. OnlyCall(c) /\ clerk'[c].at = "write" /\ clerk'[c].id \in Live
        BY <1>1, <2>2, BeginSendIs
      <3> QED BY <3>1, MovesFind, NamesStayInCalls
    <2> QED BY <1>2, <2>1, <2>2
  <1>3. ASSUME NEW c \in Clerks, NEW i \in EntIds, NEW j \in EntIds, BeginMerge(c, i, j)
        PROVE  NamesInv'
    <2>1. /\ OnlyCall(c) /\ clerk'[c].at = "merge" /\ clerk'[c].id \in Live
          /\ clerk'[c].other \in Live /\ clerk'[c].id # clerk'[c].other
      BY <1>1, <1>3, BeginMergeIs
    <2> QED BY <2>1, MovesFind, NamesStayInCalls
  <1>4. ASSUME NEW c \in Clerks, FindEntity(c) \/ PlanMerge(c) \/ LinkChannel(c) \/ Fail(c)
        PROVE  NamesInv'
    <2>1. FindEntity(c) => QuietStep(c)
      BY <1>1, FindEntityIs
    <2>2. Fail(c) => OnlyCall(c) /\ clerk'[c] = NoCall
      BY <1>1, FailIs
    <2> QED BY <1>4, <2>1, <2>2, MovesFind, NamesStayInCalls
  <1>5. ASSUME NEW c \in Clerks, InsertEntity(c) \/ UpdateEntity(c) \/ CommitMerge(c) \/ CommitSend(c)
        PROVE  NamesInv'
    BY <1>4, <1>5, NamesInsert, NamesUpdate, NamesMerge, NamesSend
  <1>6. CASE UNCHANGED entVars
    <2>1. EntTypeOK' /\ NodesStandForOne' /\ Live' = Live
      BY <1>6 DEF NamesInv, EntTypeOK, NodesStandForOne, entVars, Live, Gone
    <2>2. \A c \in Clerks : CallFinds(clerk[c])'
      BY <1>6 DEF NamesInv, CallFinds, entVars
    <2> QED BY <1>6, <2>1, <2>2 DEF NamesInv, entVars, Gone
  <1> QED BY <1>2, <1>3, <1>4, <1>5, <1>6 DEF EntNext

LEMMA AtMostOne ==
    ASSUME NEW S, \A x, y \in S : x = y
    PROVE  Cardinality(S) <= 1
  <1>1. CASE S = {}
    BY <1>1, FS_EmptySet
  <1>2. ASSUME NEW x \in S PROVE Cardinality(S) <= 1
    <2>1. S = {x}
      OBVIOUS
    <2>2. Cardinality({x}) = 1
      BY FS_Singleton
    <2> QED BY <2>1, <2>2
  <1> QED BY <1>1, <1>2

LEMMA NamesInvUnique == NamesInv => NamesAreUnique
  <1> SUFFICES ASSUME NamesInv PROVE NamesAreUnique
    OBVIOUS
  <1>1. ASSUME NEW i \in EntIds PROVE Cardinality(NodeOf(i)) <= 1
    <2>1. \A m, n \in NodeOf(i) : m = n
      BY EntIdsAreNumbers DEF NodeOf, NamesInv, NodesStandForOne
    <2> QED BY <2>1, AtMostOne
  <1> QED BY <1>1 DEF NamesInv, NodesStandForOne, NamesAreUnique

(* entity_upsert, mem_inbox_open and mem_inbox_send look in one transaction *)
(* and write in another, entity_merge in three: however they interleave,    *)
(* merges included, a name has one entity, a node a live one, and an entity *)
(* one node.                                                                *)
THEOREM NamesStayUnique == EntSpec => []NamesAreUnique
  <1> QED BY NamesInvInit, NamesInvNext, NamesInvUnique, PTL DEF EntSpec

(* Entities, their events and their messages.  First the heirs: mergedInto  *)
(* has one entity at the end of each chain.                                 *)
ClosedIn(m, S) == \A k \in S : m[k] # 0 => m[k] \in S
StandsIn(m, j, i) == m[j] = 0 /\ \A S \in SUBSET EntIds : i \in S /\ ClosedIn(m, S) => j \in S
HeirsIn(m, h) ==
    \A k \in EntIds : StandsIn(m, h[k], k) /\ h[k] = IF m[k] # 0 THEN h[m[k]] ELSE k

LEMMA OnlyHeir ==
    ASSUME NEW m \in [EntIds -> EntIds \cup {0}], NEW h \in [EntIds -> EntIds], HeirsIn(m, h),
           NEW i \in EntIds, NEW j \in EntIds, StandsIn(m, j, i)
    PROVE  j = h[i]
  <1> DEFINE S == {k \in EntIds : h[k] = h[i]}
  <1>1. ClosedIn(m, S)
    BY DEF ClosedIn, HeirsIn
  <1>2. j \in S /\ m[j] = 0
    BY <1>1 DEF StandsIn
  <1> QED BY <1>2 DEF HeirsIn

LEMMA HeirsMerge ==
    ASSUME NEW m \in [EntIds -> EntIds \cup {0}], NEW h \in [EntIds -> EntIds], HeirsIn(m, h),
           NEW i \in EntIds, NEW j \in EntIds, i # j, m[i] = 0, m[j] = 0,
           NEW m2, m2 = [m EXCEPT ![j] = i],
           NEW h2, h2 = [k \in EntIds |-> IF h[k] = j THEN i ELSE h[k]]
    PROVE  HeirsIn(m2, h2)
  <1>1. m2[j] = i /\ \A k \in EntIds \ {j} : m2[k] = m[k]
    OBVIOUS
  <1>2. \A k \in EntIds : h2[k] = IF h[k] = j THEN i ELSE h[k]
    OBVIOUS
  <1>3. \A k \in EntIds : m[k] = 0 => h[k] = k
    BY DEF HeirsIn
  <1> SUFFICES ASSUME NEW k \in EntIds
               PROVE  StandsIn(m2, h2[k], k) /\ h2[k] = IF m2[k] # 0 THEN h2[m2[k]] ELSE k
    BY DEF HeirsIn
  <1>4. h[k] \in EntIds /\ m[h[k]] = 0
    BY DEF HeirsIn, StandsIn
  <1>5. m2[h2[k]] = 0
    BY <1>1, <1>2, <1>4
  <1>6. ASSUME NEW S \in SUBSET EntIds, k \in S, ClosedIn(m2, S)
        PROVE  h2[k] \in S
    <2>1. ClosedIn(m, S)
      BY <1>1, <1>6 DEF ClosedIn
    <2>2. h[k] \in S
      BY <1>6, <2>1 DEF HeirsIn, StandsIn
    <2>3. j \in S => i \in S
      BY <1>1, <1>6, EntIdsAreNumbers DEF ClosedIn
    <2> QED BY <1>2, <2>2, <2>3
  <1>7. h2[k] = IF m2[k] # 0 THEN h2[m2[k]] ELSE k
    <2>1. CASE k = j
      BY <1>1, <1>2, <1>3, <2>1, EntIdsAreNumbers
    <2>2. CASE k # j /\ m[k] # 0
      <3>1. m[k] \in EntIds /\ h[k] = h[m[k]]
        BY <2>2 DEF HeirsIn
      <3> QED BY <1>1, <1>2, <2>2, <3>1
    <2>3. CASE k # j /\ m[k] = 0
      BY <1>1, <1>2, <1>3, <2>3
    <2> QED BY <2>1, <2>2, <2>3
  <1> QED BY <1>5, <1>6, <1>7 DEF StandsIn

LEMMA HeirsAre ==
    ASSUME EntTypeOK, HeirsAreKnown, NEW h, h = [k \in EntIds |-> Heir(k)]
    PROVE  h \in [EntIds -> EntIds] /\ HeirsIn(mergedInto, h)
  <1>1. \A k \in EntIds : h[k] = Heir(k) /\ Heir(k) \in EntIds
    BY DEF HeirsAreKnown
  <1>2. \A k \in EntIds : mergedInto[k] # 0 => mergedInto[k] \in EntIds
    BY DEF EntTypeOK
  <1>3. \A k \in EntIds : StandsIn(mergedInto, Heir(k), k)
    BY DEF HeirsAreKnown, StandsFor, StandsIn, Closed, ClosedIn, Gone
  <1>4. \A k \in EntIds : Heir(k) = IF mergedInto[k] # 0 THEN Heir(mergedInto[k]) ELSE k
    BY DEF HeirsAreKnown, Gone
  <1> QED BY <1>1, <1>2, <1>3, <1>4 DEF HeirsIn

LEMMA HeirsBecome ==
    ASSUME mergedInto' \in [EntIds -> EntIds \cup {0}], NEW h \in [EntIds -> EntIds],
           HeirsIn(mergedInto', h)
    PROVE  HeirsAreKnown' /\ \A k \in EntIds : Heir(k)' = h[k]
  <1>1. ASSUME NEW k \in EntIds
        PROVE  Heir(k)' \in EntIds /\ StandsFor(Heir(k), k)' /\ Heir(k)' = h[k]
    <2>1. \A j : StandsFor(j, k)' <=> StandsIn(mergedInto', j, k)
      BY DEF StandsFor, StandsIn, Closed, ClosedIn, Gone
    <2>2. h[k] \in EntIds /\ StandsFor(h[k], k)'
      BY <2>1 DEF HeirsIn
    <2>3. Heir(k)' \in EntIds /\ StandsFor(Heir(k), k)'
      BY <2>2, Zenon DEF Heir
    <2> QED BY <2>1, <2>3, OnlyHeir
  <1>2. \A k \in EntIds : Heir(k)' = IF Gone(k)' THEN Heir(mergedInto[k])' ELSE k
    BY <1>1 DEF HeirsIn, Gone
  <1> QED BY <1>1, <1>2 DEF HeirsAreKnown

(* The events E of entities that went through last[i] versions, G merged.   *)
Ops == {"upsert", "update", "tombstone"}
VersionsIn(E, last, G) ==
    /\ \A x \in E :
          /\ x \in EntIds \X (Nat \ {0}) \X Ops /\ x[2] <= last[x[1]]
          /\ x[3] = "tombstone" <=> x[1] \in G /\ x[2] = last[x[1]]
          /\ \A y \in E : x[1] = y[1] /\ x[2] = y[2] => x = y
    /\ \A i \in EntIds : \A v \in 1..last[i] : \E x \in E : x[1] = i /\ x[2] = v

LEMMA VersionsAre ==
    ASSUME NEW last, last = [i \in EntIds |-> LastVersion(i)],
           NEW G, G = {i \in EntIds : Gone(i)}
    PROVE  EventsAreVersions <=> VersionsIn(entEvents, last, G)
  <1>1. \A i \in EntIds : last[i] = LastVersion(i) /\ (i \in G <=> Gone(i))
    OBVIOUS
  <1>2. \A x : x \in EntIds \X (Nat \ {0}) \X Ops => x[1] \in EntIds
    OBVIOUS
  <1> QED BY <1>1, <1>2 DEF EventsAreVersions, VersionsIn, Ops

LEMMA VersionsBecome ==
    ASSUME NEW last, \A i \in EntIds : last[i] = LastVersion(i)',
           NEW G, \A i \in EntIds : i \in G <=> Gone(i)',
           VersionsIn(entEvents', last, G)
    PROVE  EventsAreVersions'
  <1>1. \A x : x \in EntIds \X (Nat \ {0}) \X Ops => x[1] \in EntIds
    OBVIOUS
  <1> QED BY <1>1 DEF EventsAreVersions, VersionsIn, Ops

\* One more event o of entity i.
Told(E, last, i, o) == E \cup {<<i, last[i] + 1, o>>}
Further(last, i) == [last EXCEPT ![i] = last[i] + 1]
Buried(G, i, o) == IF o = "tombstone" THEN G \cup {i} ELSE G

LEMMA OneMoreVersion ==
    ASSUME NEW last \in [EntIds -> Nat], NEW G \in SUBSET EntIds, NEW E, VersionsIn(E, last, G),
           NEW i \in EntIds, i \notin G, NEW o \in Ops
    PROVE  /\ VersionsIn(Told(E, last, i, o), Further(last, i), Buried(G, i, o))
           /\ Further(last, i) \in [EntIds -> Nat]
  <1> DEFINE e == <<i, last[i] + 1, o>>
             E2 == Told(E, last, i, o)
             last2 == Further(last, i)
             G2 == Buried(G, i, o)
  <1>1. /\ last2 \in [EntIds -> Nat] /\ last2[i] = last[i] + 1
        /\ \A k \in EntIds \ {i} : last2[k] = last[k]
    BY DEF Further
  <1>2. e \in EntIds \X (Nat \ {0}) \X Ops /\ e[1] = i /\ e[2] = last[i] + 1 /\ e[3] = o
    OBVIOUS
  <1>3. E2 = E \cup {e} /\ G2 = IF o = "tombstone" THEN G \cup {i} ELSE G
    BY DEF Told, Buried
  <1> HIDE DEF e, E2, last2, G2
  <1>4. \A x \in E : /\ x \in EntIds \X (Nat \ {0}) \X Ops /\ x[1] \in EntIds /\ x[2] \in Nat
                     /\ x[2] <= last[x[1]]
    BY DEF VersionsIn
  <1>5. \A x \in E : x[1] = i => x[2] # e[2] /\ x[3] # "tombstone"
    BY <1>2, <1>4 DEF VersionsIn
  <1>6. ASSUME NEW x \in E2
        PROVE  /\ x \in EntIds \X (Nat \ {0}) \X Ops /\ x[2] <= last2[x[1]]
               /\ x[3] = "tombstone" <=> x[1] \in G2 /\ x[2] = last2[x[1]]
               /\ \A y \in E2 : x[1] = y[1] /\ x[2] = y[2] => x = y
    <2>1. CASE x = e
      <3>1. x[3] = "tombstone" <=> i \in G2
        BY <1>2, <1>3, <2>1
      <3>2. \A y \in E2 : x[1] = y[1] /\ x[2] = y[2] => x = y
        BY <1>2, <1>3, <1>5, <2>1
      <3> QED BY <1>1, <1>2, <2>1, <3>1, <3>2
    <2>2. CASE x \in E /\ x[1] = i
      <3>1. x[2] # last2[i] /\ x[2] <= last2[i] /\ x[3] # "tombstone"
        BY <1>1, <1>2, <1>4, <1>5, <2>2
      <3>2. \A y \in E2 : x[1] = y[1] /\ x[2] = y[2] => x = y
        BY <1>2, <1>3, <1>5, <2>2 DEF VersionsIn
      <3> QED BY <1>4, <2>2, <3>1, <3>2
    <2>3. CASE x \in E /\ x[1] # i
      <3>1. last2[x[1]] = last[x[1]] /\ (x[1] \in G2 <=> x[1] \in G)
        BY <1>1, <1>3, <1>4, <2>3
      <3>2. x[3] = "tombstone" <=> x[1] \in G /\ x[2] = last[x[1]]
        BY <2>3 DEF VersionsIn
      <3>3. \A y \in E2 : x[1] = y[1] /\ x[2] = y[2] => x = y
        BY <1>2, <1>3, <2>3 DEF VersionsIn
      <3> QED BY <1>4, <2>3, <3>1, <3>2, <3>3
    <2> QED BY <1>3, <2>1, <2>2, <2>3
  <1>7. ASSUME NEW k \in EntIds, NEW v \in 1..last2[k]
        PROVE  \E x \in E2 : x[1] = k /\ x[2] = v
    <2>1. CASE k = i /\ v = last[i] + 1
      BY <1>2, <1>3, <2>1
    <2>2. CASE ~(k = i /\ v = last[i] + 1)
      <3>1. v \in 1..last[k]
        BY <1>1, <2>2
      <3> QED BY <1>3, <3>1 DEF VersionsIn
    <2> QED BY <2>1, <2>2
  <1> QED BY <1>1, <1>6, <1>7 DEF VersionsIn, E2, last2, G2

LEMMA VersionsAreCounted == EventsAreVersions /\ EntTypeOK => EntityHistory
  <1> SUFFICES ASSUME EventsAreVersions, EntTypeOK, NEW i \in EntIds
               PROVE  LET es == {x \in entEvents : x[1] = i}
                      IN  /\ {x[2] : x \in es} = 1..Cardinality(es)
                          /\ \A x \in es : x[3] = "tombstone" => x[2] = Cardinality(es)
    BY DEF EntityHistory
  <1> DEFINE es == {x \in entEvents : x[1] = i}
             L == LastVersion(i)
             f == [v \in 1..L |-> CHOOSE x \in es : x[2] = v]
  <1>1. L \in Nat
    BY DEF LastVersion, EntTypeOK
  <1>2. \A x \in es : x[2] \in 1..L /\ (x[3] = "tombstone" => x[2] = L)
    BY <1>1 DEF EventsAreVersions
  <1>3. \A x, y \in es : x[2] = y[2] => x = y
    BY DEF EventsAreVersions
  <1>4. \A v \in 1..L : \E x \in es : x[2] = v
    BY DEF EventsAreVersions
  <1> HIDE DEF L, es
  <1>5. \A v \in 1..L : f[v] \in es /\ f[v][2] = v
    BY <1>4
  <1>6. \A x \in es : x = f[x[2]]
    BY <1>2, <1>3, <1>5
  <1>7. ExistsBijection(1..L, es)
    <2> HIDE DEF f
    <2>1. f \in [1..L -> es]
      BY <1>5 DEF f
    <2>2. \A v, w \in 1..L : f[v] = f[w] => v = w
      BY <1>5
    <2>3. \A x \in es : \E v \in 1..L : f[v] = x
      BY <1>2, <1>6
    <2>4. f \in Bijection(1..L, es)
      BY <2>1, <2>2, <2>3 DEF Bijection, Injection, Surjection, IsInjective
    <2> QED BY <2>4 DEF ExistsBijection
  <1>8. Cardinality(es) = L
    <2>1. IsFiniteSet(1..L) /\ Cardinality(1..L) = L
      BY <1>1, FS_Interval
    <2> QED BY <1>7, <2>1, FS_Bijection
  <1>9. {x[2] : x \in es} = 1..L
    BY <1>2, <1>4
  <1> QED BY <1>2, <1>8, <1>9 DEF es

(* Heirs do not change but by a merge.                                      *)
LEMMA HeirsStay ==
    ASSUME EntTypeOK, HeirsAreKnown, mergedInto' = mergedInto
    PROVE  HeirsAreKnown' /\ \A k \in EntIds : Heir(k)' = Heir(k)
  <1> DEFINE h == [k \in EntIds |-> Heir(k)]
  <1>1. h \in [EntIds -> EntIds] /\ HeirsIn(mergedInto, h) /\ \A k \in EntIds : h[k] = Heir(k)
    BY HeirsAre
  <1> HIDE DEF h
  <1> QED BY <1>1, HeirsBecome DEF EntTypeOK

(* What a step leaves the calls it is not of: versions grow, nothing more   *)
(* hangs on an entity that a merge planned to end but what comes late, and  *)
(* nodes stand for the heirs or for nothing.                                *)
Leaves(r) ==
    /\ \A k \in EntIds : /\ ent[k].ver <= ent'[k].ver /\ ent'[k].ver \in Nat
                         /\ ent[k].ver > 0 => ent'[k].env = ent[k].env
                         /\ Gone(k) => Gone(k)'
    /\ late \subseteq late'
    /\ \A k \in EntIds : k = r.other /\ r.at = "commitMerge" /\ ~TakesNode(r) /\ k \in Live'
                            /\ ent'[k].ver = ent[k].ver
                         => Repointed(k)' \subseteq Repointed(k) \cup late'
    /\ \A n, k \in EntIds : node[n] = k /\ ~Gone(k)' => node'[n] = k
    /\ \A n, k \in EntIds :
          node[n] = Heir(k) => node'[n] = Heir(k)' \/ (node'[n] = 0 /\ Gone(n)')
    /\ \A n \in EntIds : node[n] = 0 /\ Gone(n) => node'[n] = 0

LEMMA CallsStay ==
    ASSUME SoundInv, NEW d \in Clerks, clerk'[d] = clerk[d], Leaves(clerk[d])
    PROVE  MergesFind(clerk[d])' /\ SendsFind(clerk[d])'
  <1> DEFINE r == clerk[d]
  <1>1. /\ r \in ClerkCalls /\ CallFinds(r) /\ MergesFind(r) /\ SendsFind(r)
        /\ \A k \in EntIds : ent[k].ver \in Nat
    BY DEF SoundInv, NamesInv, EntTypeOK
  <1>2. /\ r.node \in Nat /\ r.keeps \in EntIds \cup {0} /\ r.loses \in EntIds \cup {0}
        /\ Merging(r) => r.id \in EntIds /\ r.other \in EntIds /\ ent[r.other].ver > 0
        /\ r.at \in Sends => r.id \in EntIds
        /\ r.at = "commit" => r.node \in EntIds
    BY <1>1 DEF ClerkCalls, CallFinds, Merging
  <1>3. Merging(r) => r.node <= ent'[r.other].ver
    BY <1>1, <1>2 DEF MergesFind, Leaves
  <1>4. ASSUME r.at = "commitMerge" PROVE r.keeps # 0 /\ ~Gone(r.id)' => node'[r.keeps] = r.id
    BY <1>1, <1>2, <1>4 DEF MergesFind, Leaves, Merging
  <1>5. ASSUME r.at = "commitMerge", r.other \in Live', ent'[r.other].ver = r.node, ~TakesNode(r)
        PROVE  Repointed(r.other)' \subseteq r.moves \cup late'
    <2>1. r.other \in EntIds /\ ent[r.other].ver > 0 /\ r.node <= ent[r.other].ver
      BY <1>1, <1>2, <1>5 DEF Merging, MergesFind
    <2>2. ent[r.other].ver = r.node /\ ~Gone(r.other)
      BY <1>1, <1>2, <1>5, <2>1 DEF Leaves, Live
    <2>3. Repointed(r.other) \subseteq r.moves \cup late
      BY <1>1, <1>5, <2>1, <2>2 DEF MergesFind, Live
    <2> QED BY <1>5, <2>1, <2>2, <2>3 DEF Leaves
  <1>6. r.at \in Sends => ent'[r.id].ver > 0 /\ r.url \in {"none", ent'[r.id].env}
    BY <1>1, <1>2 DEF SendsFind, Leaves
  <1>7. r.at = "commit" => \/ node'[r.node] = Heir(r.id)'
                           \/ node'[r.node] = 0 /\ Gone(r.node)'
    <2>1. r.at = "commit" => r.id \in EntIds
      BY <1>2 DEF Sends
    <2> QED BY <1>1, <1>2, <2>1 DEF SendsFind, Leaves
  <1>8. MergesFind(clerk[d])'
    <2>1. r.at = "commitMerge" => (r.loses = 0 => r.moves = {})
      BY <1>1 DEF MergesFind
    <2> QED BY <1>3, <1>4, <1>5, <2>1 DEF MergesFind, Merging, TakesNode
  <1>9. SendsFind(clerk[d])'
    BY <1>6, <1>7 DEF SendsFind
  <1> QED BY <1>8, <1>9

(* The steps that write end their call.                                     *)
LEMMA WritesLeave ==
    ASSUME SoundInv, NEW c \in Clerks, Replied(c),
           \A d \in Clerks \ {c} : clerk'[d] = clerk[d] => Leaves(clerk[d])
    PROVE  \A d \in Clerks : MergesFind(clerk[d])' /\ SendsFind(clerk[d])'
  <1>1. ~Merging(NoCall) /\ NoCall.at = "idle"
    BY NoCallIsTyped DEF Merging
  <1>2. clerk'[c] = NoCall /\ \A d \in Clerks \ {c} : clerk'[d] = clerk[d]
    BY DEF Replied
  <1>3. MergesFind(clerk[c])' /\ SendsFind(clerk[c])'
    BY <1>1, <1>2 DEF MergesFind, SendsFind, Merging, Sends
  <1> QED BY <1>2, <1>3, CallsStay

(* Messages stay where they are, when no merge moves them.                  *)
LEMMA SentStays ==
    ASSUME SoundInv, mergedInto' = mergedInto, mention \subseteq mention', late \subseteq late',
           \A n \in EntIds : node[n] # 0 => node'[n] = node[n],
           \A k \in EntIds : ent[k].ver > 0 => ent'[k].env = ent[k].env /\ ent'[k].ver > 0
    PROVE  \A s \in sent : /\ s.to \in EntIds /\ ent'[s.to].ver > 0
                           /\ s.msg \in late' \cup Listed(Heir(s.to))'
                           /\ s.url \in {"none", ent'[s.to].env}
  <1> SUFFICES ASSUME NEW s \in sent
               PROVE  /\ s.to \in EntIds /\ ent'[s.to].ver > 0
                      /\ s.msg \in late' \cup Listed(Heir(s.to))'
                      /\ s.url \in {"none", ent'[s.to].env}
    OBVIOUS
  <1>1. /\ s.to \in EntIds /\ ent[s.to].ver > 0
        /\ s.msg \in late \cup Listed(Heir(s.to)) /\ s.url \in {"none", ent[s.to].env}
    BY DEF SoundInv, SentIsListed
  <1>2. Heir(s.to)' = Heir(s.to) /\ Heir(s.to) \in EntIds
    BY <1>1, HeirsStay DEF SoundInv, NamesInv, HeirsAreKnown
  <1>3. CASE s.msg \in Listed(Heir(s.to))
    <2>1. PICK n \in EntIds : node[n] = Heir(s.to) /\ <<s.msg, n>> \in mention
      BY <1>3 DEF Listed, NodeOf
    <2>2. node'[n] = Heir(s.to)' /\ <<s.msg, n>> \in mention'
      BY <1>2, <2>1, EntIdsAreNumbers
    <2>3. s.msg \in Listed(Heir(s.to))'
      BY <1>3, <2>2 DEF Listed, NodeOf
    <2> QED BY <1>1, <2>3
  <1> QED BY <1>1, <1>3

(* The steps that write nothing.                                            *)
LEMMA SoundInCalls ==
    ASSUME SoundInv, NamesInv', NEW c \in Clerks, OnlyCall(c),
           MergesFind(clerk'[c]), SendsFind(clerk'[c])
    PROVE  SoundInv'
  <1>1. /\ EntTypeOK /\ EntTypeOK' /\ HeirsAreKnown /\ EventsAreVersions
        /\ UNCHANGED <<ent, mergedInto, node, mention, entEvents, sent, late>>
    BY DEF SoundInv, NamesInv, OnlyCall
  <1>2. /\ Live' = Live
        /\ \A i : /\ Gone(i)' = Gone(i) /\ NodeOf(i)' = NodeOf(i) /\ Heir(i)' = Heir(i)
                  /\ LastVersion(i)' = LastVersion(i) /\ Repointed(i)' = Repointed(i)
    BY <1>1 DEF Live, Gone, NodeOf, LastVersion, Repointed, Heir, StandsFor, Closed
  <1>3. EventsAreVersions'
    BY <1>1, <1>2 DEF EventsAreVersions
  <1>4. HeirsAreKnown'
    BY <1>1, HeirsStay
  <1>5. \A s \in sent : /\ s.to \in EntIds /\ ent'[s.to].ver > 0
                        /\ s.msg \in late' \cup Listed(Heir(s.to))'
                        /\ s.url \in {"none", ent'[s.to].env}
    BY <1>1, SentStays
  <1>6. \A d \in Clerks : MergesFind(clerk'[d]) /\ SendsFind(clerk'[d])
    BY DEF SoundInv, OnlyCall
  <1>7. \A d \in Clerks : MergesFind(clerk[d])' /\ SendsFind(clerk[d])'
    BY <1>1, <1>2, <1>6 DEF MergesFind, SendsFind
  <1> QED BY <1>1, <1>3, <1>4, <1>5, <1>7 DEF SoundInv, SentIsListed, MentionsHang

(* The steps that leave nodes and messages where they are.                  *)
LEMMA NodesStay ==
    ASSUME SoundInv, UNCHANGED <<mergedInto, node, mention, late>>, NEW r,
           \A k \in EntIds : /\ ent[k].ver <= ent'[k].ver /\ ent'[k].ver \in Nat
                             /\ ent[k].ver > 0 => ent'[k].env = ent[k].env
    PROVE  Leaves(r)
  <1>1. \A k : Gone(k)' = Gone(k) /\ Repointed(k)' = Repointed(k) /\ Heir(k)' = Heir(k)
    BY DEF Gone, Repointed, NodeOf, Heir, StandsFor, Closed
  <1> QED BY <1>1 DEF Leaves

LEMMA SoundInsert ==
    ASSUME SoundInv, NamesInv', NEW c \in Clerks, InsertEntity(c), ~Fail(c)
    PROVE  SoundInv'
  <1>1. EntTypeOK /\ EntTypeOK' /\ EventsAreVersions /\ HeirsAreKnown /\ SentIsListed
    BY DEF SoundInv, NamesInv
  <1>2. /\ Replied(c) /\ UNCHANGED <<mergedInto, node, mention, sent, late>>
        /\ \E i \in EntIds, row \in EntRows :
              /\ ent[i] = NoEnt /\ row.ver = 1 /\ ent' = [ent EXCEPT ![i] = row]
              /\ entEvents' = entEvents \cup {<<i, 1, "upsert">>}
    BY <1>1, InsertIs
  <1>3. PICK i \in EntIds, row \in EntRows :
           /\ ent[i] = NoEnt /\ row.ver = 1 /\ ent' = [ent EXCEPT ![i] = row]
           /\ entEvents' = entEvents \cup {<<i, 1, "upsert">>}
    BY <1>2
  <1>4. ent[i].ver = 0 /\ ent'[i].ver = 1 /\ \A k \in EntIds \ {i} : ent'[k] = ent[k]
    BY <1>1, <1>3 DEF NoEnt, EntTypeOK
  <1>5. ~Gone(i) /\ \A k : Gone(k)' = Gone(k)
    BY <1>2, <1>4 DEF SoundInv, NamesInv, Gone
  <1>6. \A k \in EntIds : ent[k].ver > 0 => ent'[k] = ent[k]
    BY <1>4
  <1>7. \A k \in EntIds : ent[k].ver <= ent'[k].ver /\ ent'[k].ver \in Nat
    BY <1>1, <1>4 DEF EntTypeOK
  <1>8. \A d \in Clerks : MergesFind(clerk[d])' /\ SendsFind(clerk[d])'
    BY <1>2, <1>6, <1>7, NodesStay, WritesLeave
  <1>9. EventsAreVersions'
    <2> DEFINE last == [k \in EntIds |-> LastVersion(k)]
               G == {k \in EntIds : Gone(k)}
               last2 == Further(last, i)
    <2>1. last \in [EntIds -> Nat] /\ last[i] = 0
      BY <1>1, <1>4, <1>5 DEF LastVersion, EntTypeOK
    <2>2. VersionsIn(entEvents, last, G)
      BY <1>1, VersionsAre
    <2>3. \A k \in EntIds : last2[k] = LastVersion(k)' /\ (k \in G <=> Gone(k)')
      BY <1>4, <1>5, <2>1 DEF LastVersion, Further
    <2>4. i \notin G /\ G \in SUBSET EntIds
      BY <1>5
    <2> HIDE DEF last, G
    <2>5. /\ entEvents' = Told(entEvents, last, i, "upsert") /\ G = Buried(G, i, "upsert")
          /\ "upsert" \in Ops
      BY <1>3, <2>1 DEF Told, Buried, Ops
    <2>6. VersionsIn(entEvents', last2, G)
      BY <2>1, <2>2, <2>4, <2>5, OneMoreVersion
    <2> HIDE DEF last2
    <2> QED BY <2>3, <2>6, VersionsBecome
  <1>10. HeirsAreKnown'
    BY <1>1, <1>2, HeirsStay
  <1>11. \A s \in sent : /\ s.to \in EntIds /\ ent'[s.to].ver > 0
                         /\ s.msg \in late' \cup Listed(Heir(s.to))'
                         /\ s.url \in {"none", ent'[s.to].env}
    BY <1>2, <1>6, SentStays
  <1> QED BY <1>2, <1>8, <1>9, <1>10, <1>11 DEF SoundInv, SentIsListed, MentionsHang

LEMMA SoundUpdate ==
    ASSUME SoundInv, NamesInv', NEW c \in Clerks, UpdateEntity(c), ~Fail(c)
    PROVE  SoundInv'
  <1> DEFINE i == clerk[c].id
  <1>1. /\ EntTypeOK /\ EntTypeOK' /\ EventsAreVersions /\ HeirsAreKnown
        /\ CallFinds(clerk[c])
    BY DEF SoundInv, NamesInv
  <1>2. i \in EntIds
    BY <1>1 DEF CallFinds, UpdateEntity
  <1>3. /\ Replied(c) /\ i \in Live
        /\ UNCHANGED <<mergedInto, node, mention, sent, late>> /\ \E row : NewVersion(i, row)
        /\ entEvents' = entEvents \cup {<<i, ent[i].ver + 1, "update">>}
    BY <1>1, <1>2, UpdateIs
  <1> HIDE DEF i
  <1>4. /\ ent'[i].ver = ent[i].ver + 1
        /\ \A k \in EntIds : /\ ent'[k].env = ent[k].env /\ (k # i => ent'[k] = ent[k])
                             /\ ent[k].ver > 0 => ent'[k].ver > 0
    BY <1>1, <1>2, <1>3, NewVersionKeeps
  <1>5. ~Gone(i) /\ \A k : Gone(k)' = Gone(k)
    BY <1>3 DEF Live, Gone
  <1>6. \A k \in EntIds : ent[k].ver <= ent'[k].ver /\ ent'[k].ver \in Nat
    BY <1>1, <1>2, <1>4 DEF EntTypeOK
  <1>7. \A d \in Clerks : Leaves(clerk[d])
    BY <1>3, <1>4, <1>6, NodesStay
  <1>8. \A d \in Clerks : MergesFind(clerk[d])' /\ SendsFind(clerk[d])'
    BY <1>3, <1>7, WritesLeave
  <1>9. EventsAreVersions'
    <2> DEFINE last == [k \in EntIds |-> LastVersion(k)]
               G == {k \in EntIds : Gone(k)}
               last2 == Further(last, i)
    <2>1. last \in [EntIds -> Nat] /\ last[i] = ent[i].ver
      BY <1>1, <1>2, <1>5 DEF LastVersion, EntTypeOK
    <2>2. VersionsIn(entEvents, last, G)
      BY <1>1, VersionsAre
    <2>3. \A k \in EntIds : last2[k] = LastVersion(k)' /\ (k \in G <=> Gone(k)')
      BY <1>2, <1>4, <1>5, <2>1 DEF LastVersion, Further
    <2>4. i \notin G /\ G \in SUBSET EntIds
      BY <1>5
    <2> HIDE DEF last, G
    <2>5. /\ entEvents' = Told(entEvents, last, i, "update") /\ G = Buried(G, i, "update")
          /\ "update" \in Ops
      BY <1>3, <2>1 DEF Told, Buried, Ops
    <2>6. VersionsIn(entEvents', last2, G)
      <3>1. VersionsIn(Told(entEvents, last, i, "update"), last2, Buried(G, i, "update"))
        BY <1>2, <2>1, <2>2, <2>4, <2>5, OneMoreVersion
      <3> QED BY <2>5, <3>1
    <2> HIDE DEF last2
    <2> QED BY <2>3, <2>6, VersionsBecome
  <1>10. HeirsAreKnown'
    BY <1>1, <1>3, HeirsStay
  <1>11. \A s \in sent : /\ s.to \in EntIds /\ ent'[s.to].ver > 0
                         /\ s.msg \in late' \cup Listed(Heir(s.to))'
                         /\ s.url \in {"none", ent'[s.to].env}
    BY <1>3, <1>4, SentStays
  <1> QED BY <1>3, <1>8, <1>9, <1>10, <1>11 DEF SoundInv, SentIsListed, MentionsHang

(* A message hangs on a node of its channel's heir; if a merge has read     *)
(* what to move from that, the message is late.                             *)
LEMMA SoundSend ==
    ASSUME SoundInv, NamesInv', NEW c \in Clerks, CommitSend(c), ~Fail(c)
    PROVE  SoundInv'
  <1> DEFINE i == clerk[c].id
             w == IF clerk[c].at = "addNode" THEN i ELSE clerk[c].node
  <1>1. /\ EntTypeOK /\ EventsAreVersions /\ HeirsAreKnown /\ SentIsListed /\ NodesStandForOne
        /\ CallFinds(clerk[c]) /\ SendsFind(clerk[c])
    BY DEF SoundInv, NamesInv
  <1>2. /\ clerk[c].at \in {"addNode", "commit"} /\ Replied(c)
        /\ UNCHANGED <<ent, mergedInto, entEvents>>
        /\ \E m \in Messages : /\ mention' = mention \cup {<<m, w>>}
                               /\ sent' = sent \cup {[msg |-> m, to |-> i, url |-> clerk[c].url]}
                               /\ late' = late \cup {x \in {m} : BeingMerged(node'[w])}
        /\ \/ /\ clerk[c].at = "addNode" /\ NodeOf(i) = {} /\ i \in Live
              /\ node' = [node EXCEPT ![i] = i]
           \/ clerk[c].at = "commit" /\ node[clerk[c].node] # 0 /\ node' = node
    BY <1>1, CommitSendIs
  <1>3. PICK m \in Messages : /\ mention' = mention \cup {<<m, w>>}
                              /\ sent' = sent \cup {[msg |-> m, to |-> i, url |-> clerk[c].url]}
                              /\ late' = late \cup {x \in {m} : BeingMerged(node'[w])}
    BY <1>2
  <1>4. i \in EntIds /\ ent[i].ver > 0 /\ clerk[c].url \in {"none", ent[i].env}
    BY <1>1, <1>2 DEF SendsFind, CallFinds, Sends
  <1>5. Live' = Live /\ \A k : Gone(k)' = Gone(k) /\ Heir(k)' = Heir(k)
    BY <1>2 DEF Live, Gone, Heir, StandsFor, Closed
  <1>6. /\ w \in EntIds /\ node'[w] = Heir(i)
        /\ \A n \in EntIds : \/ node'[n] = node[n]
                             \/ node[n] = 0 /\ ~Gone(n) /\ n = w
    <2>1. CASE clerk[c].at = "addNode"
      <3>1. node' = [node EXCEPT ![i] = i] /\ w = i /\ i \in Live /\ NodeOf(i) = {}
        BY <1>2, <2>1
      <3>2. ~Gone(i) /\ Heir(i) = i
        BY <1>1, <1>4, <3>1 DEF Live, HeirsAreKnown
      <3>3. node[i] = 0
        BY <1>1, <1>4, <3>1, <3>2 DEF NodesStandForOne, NodeOf
      <3> QED BY <1>1, <1>4, <3>1, <3>2, <3>3 DEF EntTypeOK
    <2>2. CASE clerk[c].at = "commit"
      <3>1. node' = node /\ w = clerk[c].node /\ node[clerk[c].node] # 0
        BY <1>2, <2>2
      <3> QED BY <1>1, <2>2, <3>1 DEF SendsFind, CallFinds
    <2> QED BY <1>2, <2>1, <2>2
  <1> HIDE DEF i, w
  <1>7. ASSUME NEW d \in Clerks, clerk'[d] = clerk[d] PROVE Leaves(clerk[d])
    <2>1. \A n \in EntIds : node[n] # 0 => node'[n] = node[n]
      BY <1>6
    <2>2. \A k \in EntIds : /\ ent[k].ver <= ent'[k].ver /\ ent'[k].ver \in Nat
                            /\ ent'[k].env = ent[k].env
      BY <1>1, <1>2 DEF EntTypeOK
    <2>3. ASSUME NEW k \in EntIds, k = clerk[d].other, clerk[d].at = "commitMerge",
                 ~TakesNode(clerk[d]), NEW x \in Repointed(k)'
          PROVE  x \in Repointed(k) \cup late'
      <3>1. PICK n \in EntIds : x \in Messages /\ node'[n] = k /\ <<x, n>> \in mention'
        BY <2>3 DEF Repointed, NodeOf
      <3>2. CASE n = w /\ x = m
        <4>1. BeingMerged(node'[w])
          BY <2>3, <3>1, <3>2 DEF BeingMerged
        <4> QED BY <1>3, <3>2, <4>1
      <3>3. CASE <<x, n>> \in mention
        <4>1. node[n] # 0
          BY <3>3 DEF SoundInv, MentionsHang
        <4>2. node[n] = k
          BY <2>1, <3>1, <4>1
        <4> QED BY <3>1, <3>3, <4>2 DEF Repointed, NodeOf
      <3> QED BY <1>3, <3>1, <3>2, <3>3
    <2>4. late \subseteq late'
      BY <1>3
    <2>5. \A n, k \in EntIds : /\ node[n] = k => node'[n] = k
                               /\ node[n] = Heir(k) => node'[n] = Heir(k)'
      BY <1>1, <1>5, <2>1, EntIdsAreNumbers DEF HeirsAreKnown
    <2>6. \A n \in EntIds : node[n] = 0 /\ Gone(n) => node'[n] = 0
      BY <1>6
    <2> QED BY <1>5, <2>2, <2>3, <2>4, <2>5, <2>6 DEF Leaves
  <1>8. \A d \in Clerks : MergesFind(clerk[d])' /\ SendsFind(clerk[d])'
    BY <1>2, <1>7, WritesLeave
  <1>9. EventsAreVersions'
    <2>1. \A k : LastVersion(k)' = LastVersion(k)
      BY <1>2, <1>5 DEF LastVersion
    <2> QED BY <1>1, <1>2, <1>5, <2>1 DEF EventsAreVersions
  <1>10. HeirsAreKnown'
    BY <1>1, <1>2, HeirsStay
  <1>11. \A s \in sent : /\ s.to \in EntIds /\ ent'[s.to].ver > 0
                         /\ s.msg \in late' \cup Listed(Heir(s.to))'
                         /\ s.url \in {"none", ent'[s.to].env}
    BY <1>2, <1>3, <1>6, SentStays
  <1>12. ASSUME NEW s, s = [msg |-> m, to |-> i, url |-> clerk[c].url]
         PROVE  /\ s.to \in EntIds /\ ent'[s.to].ver > 0
                /\ s.msg \in late' \cup Listed(Heir(s.to))'
                /\ s.url \in {"none", ent'[s.to].env}
    <2>1. s.to = i /\ s.msg = m /\ s.url = clerk[c].url
      BY <1>12
    <2>2. s.msg \in Listed(Heir(s.to))'
      BY <1>3, <1>5, <1>6, <2>1 DEF Listed, NodeOf
    <2> QED BY <1>2, <1>4, <2>1, <2>2
  <1>13. \A s \in sent' : /\ s.to \in EntIds /\ ent'[s.to].ver > 0
                          /\ s.msg \in late' \cup Listed(Heir(s.to))'
                          /\ s.url \in {"none", ent'[s.to].env}
    BY <1>3, <1>11, <1>12
  <1>14. MentionsHang'
    <2>1. \A n \in EntIds : node[n] # 0 => node'[n] = node[n]
      BY <1>6
    <2>2. node'[w] # 0 /\ <<m, w>> \in Messages \X EntIds
      BY <1>1, <1>4, <1>6, EntIdsAreNumbers DEF HeirsAreKnown
    <2> QED BY <1>3, <2>1, <2>2 DEF SoundInv, MentionsHang
  <1> QED BY <1>8, <1>9, <1>10, <1>13, <1>14 DEF SoundInv, SentIsListed

(* What a merge that ends well does: the merged entity has the version it   *)
(* had at first, for its next one is not taken, so only late messages are   *)
(* deleted with it.                                                         *)
Merges(i, j, r) ==
    /\ i \in EntIds /\ j \in EntIds /\ i # j /\ i \in Live /\ j \in Live
    /\ r.node = ent[j].ver /\ r.moves \subseteq Messages
    /\ UNCHANGED <<sent, late>> /\ \E row : NewVersion(i, row)
    /\ mergedInto' = [mergedInto EXCEPT ![j] = i]
    /\ entEvents' = entEvents \cup {<<j, ent[j].ver + 1, "tombstone">>,
                                    <<i, ent[i].ver + 1, "update">>}
    /\ \/ /\ TakesNode(r) /\ mention' = mention
          /\ node' = [n \in EntIds |-> IF node[n] = j THEN i ELSE node[n]]
       \/ /\ Repointed(j) \subseteq r.moves \cup late
          /\ r.moves # {} => r.keeps \in EntIds /\ node[r.keeps] = i
          /\ node' = [n \in EntIds |-> IF node[n] = j THEN 0 ELSE node[n]]
          /\ mention' = {x \in mention : x[2] \notin NodeOf(j)}
                          \cup {<<m, r.keeps>> : m \in r.moves}

LEMMA MergesIs ==
    ASSUME SoundInv, NEW c \in Clerks, CommitMerge(c), ~Fail(c)
    PROVE  Replied(c) /\ Merges(clerk[c].id, clerk[c].other, clerk[c])
  <1> DEFINE i == clerk[c].id
             j == clerk[c].other
             r == clerk[c]
  <1>1. /\ EntTypeOK /\ EventsAreVersions /\ CallFinds(r) /\ MergesFind(r)
        /\ r.at = "commitMerge" /\ r \in ClerkCalls
    BY DEF SoundInv, NamesInv, CommitMerge, EntTypeOK
  <1>2. /\ i \in EntIds /\ j \in EntIds /\ i # j /\ ent[j].ver > 0 /\ r.node <= ent[j].ver
        /\ r.node \in Nat /\ r.moves \subseteq Messages /\ r.keeps \in EntIds \cup {0} /\ r.loses \in EntIds \cup {0}
    BY <1>1 DEF CallFinds, MergesFind, Merging, ClerkCalls
  <1>3. /\ Replied(c) /\ i \in Live /\ sent' = sent /\ late' = late
        /\ ~EventTaken(j, r.node + 1) /\ \E row : NewVersion(i, row)
        /\ mergedInto' = [mergedInto EXCEPT ![j] = i]
        /\ entEvents' = entEvents \cup {<<j, r.node + 1, "tombstone">>,
                                        <<i, ent[i].ver + 1, "update">>}
        /\ \/ /\ TakesNode(r) /\ mention' = mention
              /\ node' = [n \in EntIds |-> IF node[n] = j THEN i ELSE node[n]]
           \/ /\ ~TakesNode(r)
              /\ node' = [n \in EntIds |-> IF node[n] = j THEN 0 ELSE node[n]]
              /\ mention' = {x \in mention : x[2] \notin NodeOf(j)}
                              \cup {<<m, r.keeps>> : m \in r.moves}
    BY <1>1, <1>2, CommitMergeIs
  <1> HIDE DEF i, j, r
  <1>4. r.node + 1 \notin 1..LastVersion(j)
    BY <1>1, <1>2, <1>3 DEF EventTaken, EventsAreVersions
  <1>5. ent[j].ver \in Nat /\ LastVersion(j) = IF Gone(j) THEN ent[j].ver + 1 ELSE ent[j].ver
    BY <1>1, <1>2 DEF EntTypeOK, LastVersion
  <1>6. r.node = ent[j].ver /\ ~Gone(j)
    BY <1>2, <1>4, <1>5
  <1>7. j \in Live
    BY <1>2, <1>6 DEF Live
  <1>8. ASSUME ~TakesNode(r)
        PROVE  /\ Repointed(j) \subseteq r.moves \cup late
               /\ r.moves # {} => r.keeps \in EntIds /\ node[r.keeps] = i
    <2>1. Repointed(j) \subseteq r.moves \cup late
      BY <1>1, <1>6, <1>7, <1>8 DEF MergesFind, j, r
    <2>2. ASSUME r.moves # {} PROVE r.keeps \in EntIds /\ node[r.keeps] = i
      <3>1. r.loses # 0
        BY <1>1, <2>2 DEF MergesFind
      <3>2. r.keeps # 0
        BY <1>8, <3>1 DEF TakesNode
      <3>3. ~Gone(i)
        BY <1>3 DEF Live
      <3> QED BY <1>1, <1>2, <3>2, <3>3 DEF MergesFind, i, r
    <2> QED BY <2>1, <2>2
  <1> QED BY <1>2, <1>3, <1>6, <1>7, <1>8 DEF Merges, i, j, r

(* A merge moves the messages it planned to, ends the merged entity and     *)
(* makes the kept one its heir.                                             *)
LEMMA SoundMerge ==
    ASSUME SoundInv, NamesInv', NEW c \in Clerks, CommitMerge(c), ~Fail(c)
    PROVE  SoundInv'
  <1>1. /\ EntTypeOK /\ EntTypeOK' /\ EventsAreVersions /\ HeirsAreKnown /\ SentIsListed
        /\ NodesStandForOne /\ Replied(c)
    BY MergesIs DEF SoundInv, NamesInv
  <1>2. PICK i, j, r : Merges(i, j, r)
    BY MergesIs
  <1>3. i \in EntIds /\ j \in EntIds /\ i # j /\ i \in Live /\ j \in Live
    BY <1>2 DEF Merges
  <1>4. /\ ent'[i].ver = ent[i].ver + 1 /\ ent'[j].ver = ent[j].ver
        /\ \A k \in EntIds : /\ ent'[k].env = ent[k].env /\ (k # i => ent'[k] = ent[k])
                             /\ ent[k].ver > 0 => ent'[k].ver > 0
    BY <1>1, <1>2, <1>3, NewVersionKeeps DEF Merges
  <1>5. /\ sent' = sent /\ late' = late /\ mergedInto' = [mergedInto EXCEPT ![j] = i]
        /\ entEvents' = entEvents \cup {<<j, ent[j].ver + 1, "tombstone">>,
                                        <<i, ent[i].ver + 1, "update">>}
    BY <1>2 DEF Merges
  <1>6. ~Gone(i) /\ ~Gone(j) /\ \A k \in EntIds : Gone(k)' <=> k = j \/ Gone(k)
    BY <1>1, <1>3, <1>5, EntIdsAreNumbers DEF Live, Gone, EntTypeOK
  <1>7. /\ \A n \in EntIds : node[n] # j => node'[n] = node[n]
        /\ \A n \in EntIds : node[n] = j => node'[n] = i \/ node'[n] = 0
    BY <1>2 DEF Merges
  <1>8. EventsAreVersions'
    <2> DEFINE last == [k \in EntIds |-> LastVersion(k)]
               G == {k \in EntIds : Gone(k)}
               G1 == Buried(G, j, "tombstone")
               E1 == Told(entEvents, last, j, "tombstone")
               last1 == Further(last, j)
               last2 == Further(last1, i)
    <2>1. last \in [EntIds -> Nat] /\ last[i] = ent[i].ver /\ last[j] = ent[j].ver
      BY <1>1, <1>3, <1>6 DEF LastVersion, EntTypeOK
    <2>2. VersionsIn(entEvents, last, G)
      BY <1>1, VersionsAre
    <2>3. i \notin G /\ j \notin G /\ G \in SUBSET EntIds
      BY <1>6
    <2>4. \A k \in EntIds : k \notin {i, j} => last[k] = LastVersion(k)'
      BY <1>4, <1>6 DEF LastVersion
    <2>5. LastVersion(i)' = ent[i].ver + 1 /\ LastVersion(j)' = ent[j].ver + 1
      BY <1>3, <1>4, <1>6 DEF LastVersion
    <2>6. \A k \in EntIds : k \in G \cup {j} <=> Gone(k)'
      BY <1>3, <1>6
    <2> HIDE DEF last, G
    <2>7. VersionsIn(E1, last1, G1) /\ last1 \in [EntIds -> Nat]
      BY <1>3, <2>1, <2>2, <2>3, OneMoreVersion DEF Ops
    <2>8. last1[i] = ent[i].ver /\ G1 = G \cup {j}
      BY <1>3, <2>1 DEF Further, Buried
    <2>9. entEvents' = Told(E1, last1, i, "update") /\ G1 = Buried(G1, i, "update")
      BY <1>5, <2>1, <2>8 DEF Told, Buried
    <2>10. \A k \in EntIds : last2[k] = LastVersion(k)'
      BY <1>3, <2>1, <2>4, <2>5 DEF Further
    <2> HIDE DEF E1, last1, G1
    <2>11. i \notin G1 /\ G1 \in SUBSET EntIds
      BY <1>3, <2>3, <2>8
    <2>12. VersionsIn(entEvents', last2, G \cup {j})
      <3>1. VersionsIn(Told(E1, last1, i, "update"), last2, Buried(G1, i, "update"))
        BY <1>3, <2>7, <2>11, OneMoreVersion DEF Ops
      <3> QED BY <2>8, <2>9, <3>1
    <2> HIDE DEF last2
    <2> QED BY <2>6, <2>10, <2>12, VersionsBecome
  <1> DEFINE h == [k \in EntIds |-> Heir(k)]
             h2 == [k \in EntIds |-> IF h[k] = j THEN i ELSE h[k]]
  <1>9. h \in [EntIds -> EntIds] /\ HeirsIn(mergedInto, h) /\ \A k \in EntIds : h[k] = Heir(k)
    BY <1>1, HeirsAre
  <1> HIDE DEF h
  <1>10. h2 \in [EntIds -> EntIds] /\ \A k \in EntIds : h2[k] = IF Heir(k) = j THEN i ELSE Heir(k)
    BY <1>3, <1>9
  <1>11. HeirsIn(mergedInto', h2)
    <2>1. mergedInto \in [EntIds -> EntIds \cup {0}] /\ mergedInto[i] = 0 /\ mergedInto[j] = 0
      BY <1>1, <1>6 DEF EntTypeOK, Gone
    <2>2. h2 = [k \in EntIds |-> IF h[k] = j THEN i ELSE h[k]]
      OBVIOUS
    <2> HIDE DEF h2
    <2> QED BY <1>3, <1>5, <1>9, <2>1, <2>2, HeirsMerge
  <1>12. mergedInto' \in [EntIds -> EntIds \cup {0}]
    BY <1>1 DEF EntTypeOK
  <1> HIDE DEF h2
  <1>13. HeirsAreKnown' /\ \A k \in EntIds : Heir(k)' = IF Heir(k) = j THEN i ELSE Heir(k)
    BY <1>10, <1>11, <1>12, HeirsBecome
  \* What hangs on another entity still does, and so does what hung on j on i
  <1>14. ASSUME NEW k \in EntIds, k # j, k # i
         PROVE  Repointed(k)' \subseteq Repointed(k)
    <2> SUFFICES ASSUME NEW m \in Repointed(k)' PROVE m \in Repointed(k)
      OBVIOUS
    <2>1. PICK n \in EntIds : m \in Messages /\ node'[n] = k /\ <<m, n>> \in mention'
      BY DEF Repointed, NodeOf
    <2>2. node[n] = k
      BY <1>7, <1>14, <2>1, EntIdsAreNumbers
    <2>3. <<m, n>> \in mention
      BY <1>2, <1>3, <1>14, <2>1, <2>2 DEF Merges
    <2> QED BY <2>1, <2>2, <2>3 DEF Repointed, NodeOf
  <1>15. ASSUME NEW k \in EntIds, NEW m \in Listed(k), m \notin late
         PROVE  \E n \in EntIds : node'[n] = (IF k = j THEN i ELSE k) /\ <<m, n>> \in mention'
    <2>1. PICK n \in EntIds : m \in Messages /\ node[n] = k /\ <<m, n>> \in mention
      BY <1>15 DEF Listed, NodeOf
    <2>2. CASE k # j
      <3>1. n \notin NodeOf(j)
        BY <2>1, <2>2 DEF NodeOf
      <3>2. node'[n] = k /\ <<m, n>> \in mention'
        BY <1>2, <1>7, <2>1, <2>2, <3>1 DEF Merges
      <3> QED BY <2>1, <2>2, <3>2
    <2>3. CASE k = j /\ mention' = mention /\ node'[n] = i
      BY <2>1, <2>3
    <2>4. CASE /\ k = j /\ Repointed(j) \subseteq r.moves \cup late
               /\ r.moves # {} => r.keeps \in EntIds /\ node[r.keeps] = i
               /\ \A x \in r.moves : <<x, r.keeps>> \in mention'
      <3>1. m \in Repointed(j)
        BY <2>1, <2>4 DEF Repointed, NodeOf
      <3>2. m \in r.moves
        BY <1>15, <2>4, <3>1
      <3>3. r.keeps \in EntIds /\ node'[r.keeps] = i
        BY <1>3, <1>7, <2>4, <3>2
      <3> QED BY <2>4, <3>2, <3>3
    <2> QED BY <1>2, <2>1, <2>2, <2>3, <2>4 DEF Merges
  <1>16. \A d \in Clerks : MergesFind(clerk[d])' /\ SendsFind(clerk[d])'
    <2> SUFFICES ASSUME NEW d \in Clerks, clerk'[d] = clerk[d] PROVE Leaves(clerk[d])
      BY <1>1, WritesLeave
    <2>1. \A k \in EntIds : /\ ent[k].ver <= ent'[k].ver /\ ent'[k].ver \in Nat
                            /\ ent'[k].env = ent[k].env /\ (Gone(k) => Gone(k)')
      BY <1>1, <1>4, <1>6 DEF EntTypeOK
    <2>2. ASSUME NEW k \in EntIds, k \in Live', ent'[k].ver = ent[k].ver
          PROVE  Repointed(k)' \subseteq Repointed(k)
      <3>1. k # i
        BY <1>1, <1>3, <1>4, <2>2 DEF EntTypeOK
      <3>2. k # j
        BY <1>3, <1>6, <2>2 DEF Live, Gone
      <3> QED BY <1>14, <3>1, <3>2
    <2>3. \A n, k \in EntIds : node[n] = k /\ ~Gone(k)' => node'[n] = k
      BY <1>3, <1>6, <1>7
    <2>4. ASSUME NEW n \in EntIds, NEW k \in EntIds, node[n] = Heir(k)
          PROVE  node'[n] = Heir(k)' \/ (node'[n] = 0 /\ Gone(n)')
      <3>1. CASE node[n] # j
        BY <1>7, <1>13, <2>4, <3>1
      <3>2. CASE node[n] = j
        <4>1. Gone(n)'
          BY <1>1, <1>3, <1>6, <3>2, EntIdsAreNumbers DEF NodesStandForOne
        <4>2. Heir(k)' = i
          BY <1>13, <2>4, <3>2
        <4> QED BY <1>7, <3>2, <4>1, <4>2
      <3> QED BY <3>1, <3>2
    <2>5. \A n \in EntIds : node[n] = 0 => node'[n] = 0
      BY <1>3, <1>7, EntIdsAreNumbers
    <2> QED BY <1>5, <2>1, <2>2, <2>3, <2>4, <2>5 DEF Leaves
  <1>17. ASSUME NEW s \in sent
         PROVE  /\ s.to \in EntIds /\ ent'[s.to].ver > 0
                /\ s.msg \in late' \cup Listed(Heir(s.to))'
                /\ s.url \in {"none", ent'[s.to].env}
    <2>1. /\ s.to \in EntIds /\ ent[s.to].ver > 0
          /\ s.msg \in late \cup Listed(Heir(s.to)) /\ s.url \in {"none", ent[s.to].env}
      BY DEF SoundInv, SentIsListed
    <2>2. PICK k \in EntIds : k = Heir(s.to)
      BY <1>1, <2>1 DEF HeirsAreKnown
    <2>3. ASSUME s.msg \notin late PROVE s.msg \in Listed(Heir(s.to))'
      <3>1. s.msg \in Listed(k) /\ s.msg \in Messages
        BY <2>1, <2>2, <2>3 DEF Listed
      <3>2. PICK n \in EntIds :
               node'[n] = (IF k = j THEN i ELSE k) /\ <<s.msg, n>> \in mention'
        BY <1>15, <2>3, <3>1
      <3>3. Heir(s.to)' = IF k = j THEN i ELSE k
        BY <1>13, <2>1, <2>2
      <3> QED BY <3>1, <3>2, <3>3 DEF Listed, NodeOf
    <2> QED BY <1>4, <1>5, <2>1, <2>3
  <1>18. MentionsHang'
    <2> SUFFICES ASSUME NEW x \in mention'
                 PROVE  x \in Messages \X EntIds /\ node'[x[2]] # 0
      BY DEF MentionsHang
    <2>1. i # 0
      BY <1>3, EntIdsAreNumbers
    <2>2. \A n \in EntIds : node[n] \notin {0, j} => node'[n] # 0
      BY <1>7
    <2>3. CASE x \in mention
      <3>1. x \in Messages \X EntIds /\ x[2] \in EntIds /\ node[x[2]] # 0
        BY <2>3 DEF SoundInv, MentionsHang
      <3>2. node[x[2]] = j => node'[x[2]] # 0 \/ x[2] \in NodeOf(j)
        BY <3>1 DEF NodeOf
      <3>3. node[x[2]] = j => node'[x[2]] # 0
        BY <1>2, <1>3, <2>1, <2>3, <3>1, <3>2 DEF Merges
      <3> QED BY <2>2, <3>1, <3>3
    <2>4. ASSUME NEW m \in r.moves, x = <<m, r.keeps>>, r.keeps \in EntIds, node[r.keeps] = i
          PROVE  x \in Messages \X EntIds /\ node'[x[2]] # 0
      BY <1>2, <1>3, <1>7, <2>1, <2>4 DEF Merges
    <2> QED BY <1>2, <2>3, <2>4 DEF Merges
  <1> QED BY <1>5, <1>8, <1>13, <1>16, <1>17, <1>18 DEF SoundInv, SentIsListed

LEMMA SoundInvInit == EntInit => SoundInv
  <1> SUFFICES ASSUME EntInit PROVE SoundInv
    OBVIOUS
  <1>1. NamesInv /\ EntTypeOK
    BY NamesInvInit DEF NamesInv
  <1>2. \A c \in Clerks : clerk[c] = NoCall
    BY DEF EntInit
  <1>3. ~Merging(NoCall) /\ NoCall.at = "idle"
    BY NoCallIsTyped DEF Merging
  <1>4. \A c \in Clerks : MergesFind(clerk[c]) /\ SendsFind(clerk[c])
    BY <1>2, <1>3 DEF MergesFind, SendsFind, Merging, Sends
  <1>5. \A i \in EntIds : ~Gone(i) /\ LastVersion(i) = 0
    BY DEF EntInit, Gone, LastVersion, NoEnt
  <1>6. EventsAreVersions /\ sent = {}
    BY <1>5 DEF EntInit, EventsAreVersions
  <1>7. HeirsAreKnown
    <2> SUFFICES ASSUME NEW i \in EntIds
                 PROVE  Heir(i) \in EntIds /\ StandsFor(Heir(i), i) /\ Heir(i) = i
      BY <1>5 DEF HeirsAreKnown
    <2>1. StandsFor(i, i)
      BY <1>5 DEF StandsFor
    <2>2. Heir(i) \in EntIds /\ StandsFor(Heir(i), i)
      BY <2>1, Zenon DEF Heir
    <2>3. Closed({i})
      BY <1>5 DEF Closed
    <2> QED BY <2>2, <2>3 DEF StandsFor
  <1>8. MentionsHang
    BY DEF EntInit, MentionsHang
  <1> QED BY <1>1, <1>4, <1>6, <1>7, <1>8 DEF SoundInv, SentIsListed

LEMMA SoundInvNext == SoundInv /\ [EntNext]_entVars => SoundInv'
  <1> SUFFICES ASSUME SoundInv, [EntNext]_entVars PROVE SoundInv'
    OBVIOUS
  <1>1. /\ EntTypeOK /\ NamesInv /\ NamesInv' /\ HeirsAreKnown
        /\ \A c \in Clerks : MergesFind(clerk[c]) /\ SendsFind(clerk[c]) /\ CallFinds(clerk[c])
    BY NamesInvNext DEF SoundInv, NamesInv
  <1>2. \A k \in Live : k \in EntIds /\ ent[k].ver \in Nat /\ ent[k].ver > 0 /\ Heir(k) = k
    BY <1>1 DEF Live, HeirsAreKnown, EntTypeOK
  <1>3. ASSUME NEW c \in Clerks, QuietStep(c) PROVE SoundInv'
    <2>1. ~Merging(clerk'[c]) /\ clerk'[c].at \notin Sends /\ OnlyCall(c)
      BY <1>3 DEF QuietStep, Merging, Sends
    <2>2. MergesFind(clerk'[c]) /\ SendsFind(clerk'[c])
      BY <2>1 DEF MergesFind, SendsFind, Merging, Sends
    <2> QED BY <1>1, <2>1, <2>2, SoundInCalls
  <1>4. ASSUME NEW c \in Clerks, NEW env \in Envs, NEW name \in Names,
               \/ \E kind \in Kinds \ {"channel"} : BeginUpsert(c, env, name, kind)
               \/ BeginOpen(c, env, name)
        PROVE  SoundInv'
    BY <1>1, <1>3, <1>4, BeginFindIs, ChannelIsAKind
  <1>5. ASSUME NEW c \in Clerks, NEW env \in Envs, NEW name \in Names,
               NEW url \in Envs \cup {"none"}, BeginSend(c, url, env, name)
        PROVE  SoundInv'
    <2>1. /\ OnlyCall(c) /\ clerk'[c].at = "write"
          /\ clerk'[c].id \in Live /\ clerk'[c].url \in {"none", ent[clerk'[c].id].env}
      BY <1>1, <1>5, BeginSendIs
    <2>2. MergesFind(clerk'[c]) /\ SendsFind(clerk'[c])
      BY <1>2, <2>1 DEF MergesFind, SendsFind, Merging
    <2> QED BY <1>1, <2>1, <2>2, SoundInCalls
  <1>6. ASSUME NEW c \in Clerks, NEW i \in EntIds, NEW j \in EntIds, BeginMerge(c, i, j)
        PROVE  SoundInv'
    <2>1. /\ OnlyCall(c) /\ clerk'[c].at = "merge" /\ clerk'[c].other \in Live
          /\ ent[clerk'[c].other].ver = clerk'[c].node
      BY <1>1, <1>6, BeginMergeIs
    <2>2. MergesFind(clerk'[c]) /\ SendsFind(clerk'[c])
      BY <1>2, <2>1 DEF MergesFind, SendsFind, Sends
    <2> QED BY <1>1, <2>1, <2>2, SoundInCalls
  <1>7. ASSUME NEW c \in Clerks, PlanMerge(c) PROVE SoundInv'
    <2>1. /\ OnlyCall(c) /\ clerk[c].at = "merge" /\ clerk'[c].at = "commitMerge"
          /\ SameBut(clerk'[c], clerk[c], {"at", "keeps", "loses", "moves"})
          /\ clerk'[c].keeps = TheNode(clerk[c].id)
          /\ clerk'[c].loses = TheNode(clerk[c].other)
          /\ clerk'[c].moves = Repointed(clerk[c].other)
      BY <1>1, <1>7, PlanMergeIs
    <2>2. /\ clerk'[c].id = clerk[c].id /\ clerk'[c].other = clerk[c].other
          /\ clerk'[c].node = clerk[c].node
      BY <2>1 DEF SameBut
    <2>3. clerk[c].id \in EntIds /\ clerk[c].other \in EntIds
      BY <1>1, <2>1 DEF CallFinds, Merging
    <2>4. clerk[c].node <= ent[clerk[c].other].ver
      BY <1>1, <2>1 DEF MergesFind, Merging
    <2>5. TheNode(clerk[c].id) # 0 => node[TheNode(clerk[c].id)] = clerk[c].id
      BY <2>3, TheNodeIs DEF NodeOf
    <2>6. TheNode(clerk[c].other) = 0 => Repointed(clerk[c].other) = {}
      BY <2>3, TheNodeIs DEF Repointed
    <2>7. MergesFind(clerk'[c]) /\ SendsFind(clerk'[c])
      BY <2>1, <2>2, <2>4, <2>5, <2>6 DEF MergesFind, SendsFind, Sends
    <2> QED BY <1>1, <2>1, <2>7, SoundInCalls
  <1>8. ASSUME NEW c \in Clerks, LinkChannel(c) PROVE SoundInv'
    <2>1. /\ OnlyCall(c) /\ clerk[c].at = "write"
          /\ \/ clerk'[c].at = "idle"
             \/ /\ clerk'[c].at \in {"addNode", "commit"} /\ clerk'[c].id \in Live
                /\ SameBut(clerk'[c], clerk[c], {"at", "node"})
                /\ clerk'[c].at = "commit" => clerk'[c].node \in NodeOf(clerk'[c].id)
      BY <1>1, <1>8, LinkChannelIs
    <2>2. MergesFind(clerk'[c])
      BY <2>1 DEF MergesFind, Merging
    <2>3. SendsFind(clerk'[c])
      <3>1. CASE clerk'[c].at = "idle"
        BY <3>1 DEF SendsFind, Sends
      <3>2. CASE clerk'[c].at # "idle"
        <4>1. clerk'[c].id = clerk[c].id /\ clerk'[c].url = clerk[c].url
          BY <2>1, <3>2 DEF SameBut
        <4>2. clerk[c].at \in Sends
          BY <2>1 DEF Sends
        <4>3. ent[clerk'[c].id].ver > 0 /\ clerk'[c].url \in {"none", ent[clerk'[c].id].env}
          BY <1>1, <4>1, <4>2 DEF SendsFind
        <4>4. clerk'[c].at = "commit" => node[clerk'[c].node] = Heir(clerk'[c].id)
          BY <1>2, <2>1, <3>2 DEF NodeOf
        <4> QED BY <4>3, <4>4 DEF SendsFind
      <3> QED BY <3>1, <3>2
    <2> QED BY <1>1, <2>1, <2>2, <2>3, SoundInCalls
  <1>9. ASSUME NEW c \in Clerks, FindEntity(c) PROVE SoundInv'
    BY <1>1, <1>3, <1>9, FindEntityIs
  <1>10. ASSUME NEW c \in Clerks,
                InsertEntity(c) \/ UpdateEntity(c) \/ CommitMerge(c) \/ CommitSend(c)
         PROVE  SoundInv'
    <2>1. CASE Fail(c)
      <3>1. QuietStep(c)
        BY <1>1, <2>1, FailIs DEF QuietStep
      <3> QED BY <1>3, <3>1
    <2> QED BY <1>1, <1>10, <2>1, SoundInsert, SoundUpdate, SoundMerge, SoundSend
  <1>11. CASE UNCHANGED entVars
    <2>1. /\ EntTypeOK /\ HeirsAreKnown /\ EventsAreVersions
          /\ UNCHANGED <<ent, mergedInto, node, mention, entEvents, clerk, sent, late>>
      BY <1>11 DEF entVars, SoundInv, NamesInv
    <2>2. /\ Live' = Live
          /\ \A i : /\ Gone(i)' = Gone(i) /\ NodeOf(i)' = NodeOf(i) /\ Heir(i)' = Heir(i)
                    /\ LastVersion(i)' = LastVersion(i) /\ Repointed(i)' = Repointed(i)
      BY <2>1 DEF Live, Gone, NodeOf, LastVersion, Repointed, Heir, StandsFor, Closed
    <2>3. EventsAreVersions' /\ HeirsAreKnown'
      BY <2>1, <2>2, HeirsStay DEF EventsAreVersions
    <2>4. \A d \in Clerks : MergesFind(clerk[d])' /\ SendsFind(clerk[d])'
      BY <1>1, <2>1, <2>2 DEF MergesFind, SendsFind
    <2>5. \A s \in sent : /\ s.to \in EntIds /\ ent'[s.to].ver > 0
                          /\ s.msg \in late' \cup Listed(Heir(s.to))'
                          /\ s.url \in {"none", ent'[s.to].env}
      BY <2>1, SentStays
    <2> QED BY <1>1, <2>1, <2>3, <2>4, <2>5 DEF SoundInv, SentIsListed, MentionsHang
  <1> QED BY <1>4, <1>5, <1>6, <1>7, <1>8, <1>9, <1>10, <1>11 DEF EntNext

(* Whatever merges, sends and upserts run beside each other, a message      *)
(* whose send was answered stays listed by the channel it went to or by the *)
(* one that was merged into, unless it was committed while a merge that had *)
(* read what to move from there was still to delete the rest; its reference *)
(* and its env agree; and the events of an entity are all its versions, the *)
(* tombstone last (inbox.py, entities.py): for any number of calls.         *)
THEOREM EntitiesStaySound == EntSpec => []EntitiesAreSound
  <1>1. SoundInv => EntitiesAreSound
    BY NamesInvUnique, VersionsAreCounted DEF SoundInv, NamesInv, EntitiesAreSound
  <1>2. SoundInv /\ [EntNext]_entVars => SoundInv'
    BY SoundInvNext
  <1> QED BY <1>1, <1>2, SoundInvInit, PTL DEF EntSpec

-----------------------------------------------------------------------------
(* Listing: no row is skipped or repeated                                   *)

\* No row has a date ahead of the clock.
RowsAreDated ==
    /\ item = [i \in Items |-> item[i]] /\ now \in Nat
    /\ \A i \in Items :
          /\ DOMAIN item[i] = {"shown", "created", "updated", "rank"}
          /\ item[i].created \in Nat /\ item[i].updated \in Nat
          /\ item[i].rank \in {1, 2} /\ item[i].updated <= now

ScanFields == {"pc", "list", "first", "mixed", "size", "cursor", "out", "calm"}

\* The rows that the rest of a scan goes through, and those of the next page.
Ahead(w, i) == w.pc = "paging" /\ (w.cursor = NoPosition \/ Beyond(w.list, w.cursor, i))

\* No change moves the key of a row ahead of a scan.
KeyStays(l) == l.by = "created" \/ (l.by = "updated" /\ l.down)

ScanTyped(w) ==
    /\ DOMAIN w = ScanFields /\ w.pc \in {"paging", "done", "refused"}
    /\ w.list \in Listings /\ w.first \in DOMAIN Filters /\ w.size \in PageSizes
    /\ w.calm \subseteq Items /\ w.out \in [Items -> Nat]
    /\ w.cursor # NoPosition => w.cursor.key \in Int /\ w.cursor.id \in Int

\* Of the rows that kept quiet, those behind the scan were shown, once.
QuietAreShown(w) ==
    w.pc \in {"paging", "done"} /\ ~w.mixed =>
      \A i \in (w.calm \cap Filters[w.first]) \ Skips(w.list) :
        item[i].shown = "yes" => w.out[i] = IF Ahead(w, i) THEN 0 ELSE 1

\* A row that was shown stays behind the scan, where its key stays.
ShownAreBehind(w) ==
    w.pc \in {"paging", "done"} /\ KeyStays(w.list) =>
      \A i \in Items : /\ w.out[i] \in {0, 1}
                       /\ w.out[i] = 1 => item[i].shown # "absent" /\ ~Ahead(w, i)

ScanInv(w) == ScanTyped(w) /\ QuietAreShown(w) /\ ShownAreBehind(w)

ListInv ==
    /\ RowsAreDated
    /\ scan = [s \in Scanners |-> scan[s]]
    /\ \A s \in Scanners : scan[s].pc # "idle" => ScanInv(scan[s])

LEMMA KeyIsInt ==
    ASSUME RowsAreDated, NEW l \in Listings, NEW i \in Items
    PROVE  Key(l, i) \in Int
  <1>1. l.by \in {"created", "updated", "name", "overlap"}
    <2>1. CASE l \in MemBrowse \cup SourcesBrowse \cup EntityBrowse \cup InboxList
      BY <2>1 DEF MemBrowse, SourcesBrowse, EntityBrowse, InboxList
    <2>2. CASE l \in RelationBrowse
      BY <2>2 DEF RelationBrowse
    <2>3. CASE l \in {SharedEntity, ProposalsList, TaskList}
      BY <2>3 DEF SharedEntity, ProposalsList, TaskList
    <2> QED BY <2>1, <2>2, <2>3 DEF Listings
  <1>2. MaxChurn \in Nat
    BY ListingAssumption
  <1>3. (MaxChurn + 2) * item[i].rank \in Int
    <2>1. CASE item[i].rank = 1
      BY <1>2, <2>1
    <2>2. CASE item[i].rank = 2
      BY <1>2, <2>2
    <2> QED BY <2>1, <2>2 DEF RowsAreDated
  <1>4. item[i].created \in Int /\ item[i].updated \in Int /\ item[i].rank \in Int
    BY DEF RowsAreDated
  <1> HIDE DEF Listings
  <1>5. CASE l.by = "created"
    BY <1>4, <1>5 DEF Key
  <1>6. CASE l.by = "updated"
    BY <1>4, <1>6 DEF Key
  <1>7. CASE l.by = "name"
    BY <1>4, <1>7 DEF Key
  <1>8. CASE l.by = "overlap"
    <2>1. Key(l, i) = (MaxChurn + 2) * item[i].rank + item[i].updated
      BY <1>8 DEF Key
    <2> QED BY <1>3, <1>4, <2>1
  <1> QED BY <1>1, <1>5, <1>6, <1>7, <1>8

(* The order of a page is a strict total order.                             *)
LEMMA ListingIsOrdered ==
    ASSUME RowsAreDated, NEW l \in Listings
    PROVE  /\ \A i \in Items : ~Precedes(l, i, i)
           /\ \A i, j \in Items : i = j \/ Precedes(l, i, j) \/ Precedes(l, j, i)
           /\ \A i, j, k \in Items :
                 Precedes(l, i, j) /\ Precedes(l, j, k) => Precedes(l, i, k)
  <1>1. \A i \in Items : Key(l, i) \in Int /\ i \in Nat
    BY KeyIsInt, ListingAssumption
  <1> QED BY <1>1 DEF Precedes

(* The rows behind a cursor are those that come after its row.              *)
LEMMA BeyondAreLater ==
    ASSUME RowsAreDated, NEW l \in Listings, NEW i \in Items, NEW j \in Items
    PROVE  /\ Beyond(l, [key |-> Key(l, i), id |-> i], j) <=> Precedes(l, i, j)
           /\ \A cur : cur.key \in Int /\ cur.id \in Int /\ Beyond(l, cur, i) /\ Precedes(l, i, j)
                 => Beyond(l, cur, j)
  <1>1. Key(l, i) \in Int /\ i \in Nat /\ Key(l, j) \in Int /\ j \in Nat
    BY KeyIsInt, ListingAssumption
  <1> QED BY <1>1 DEF Precedes, Beyond

(* A page holds all rows if they fit, and otherwise the rows up to its last *)
(* one.                                                                     *)
LEMMA PageIsPrefix ==
    ASSUME RowsAreDated, NEW l \in Listings, NEW rows, rows \subseteq Items, NEW k \in Nat \ {0}
    PROVE  LET page == ListPage(l, rows, k)
               last == LastOf(l, page)
           IN  /\ page \subseteq rows
               /\ ~(Cardinality(rows) > k) => page = rows
               /\ Cardinality(rows) > k =>
                     /\ last \in page
                     /\ \A i \in rows : i \in page <=> i = last \/ Precedes(l, i, last)
  <1> DEFINE Before(i) == {j \in rows : Precedes(l, j, i)}
             page == {i \in rows : Cardinality(Before(i)) < k}
             last == LastOf(l, page)
  <1>1. ListPage(l, rows, k) = page
    BY DEF ListPage
  <1>2. IsFiniteSet(rows) /\ Cardinality(rows) \in Nat
    BY ListingAssumption, FS_Subset, FS_CardinalityType
  <1>3. \A i : IsFiniteSet(Before(i)) /\ Cardinality(Before(i)) \in Nat
    BY <1>2, FS_Subset, FS_CardinalityType
  <1>4. ASSUME NEW i \in rows, NEW j \in rows, Precedes(l, j, i)
        PROVE  Cardinality(Before(j)) < Cardinality(Before(i))
    <2>1. Before(j) \subseteq Before(i) /\ j \in Before(i) /\ j \notin Before(j)
      BY <1>4, ListingIsOrdered
    <2>2. /\ Cardinality(Before(j)) <= Cardinality(Before(i))
          /\ Cardinality(Before(j)) = Cardinality(Before(i)) => Before(j) = Before(i)
      BY <1>3, <2>1, FS_Subset
    <2> QED BY <1>3, <2>1, <2>2
  <1>5. ASSUME ~(Cardinality(rows) > k) PROVE page = rows
    <2> SUFFICES ASSUME NEW i \in rows PROVE Cardinality(Before(i)) < k
      OBVIOUS
    <2>1. Before(i) \subseteq rows /\ i \notin Before(i)
      BY ListingIsOrdered
    <2>2. /\ Cardinality(Before(i)) <= Cardinality(rows)
          /\ Cardinality(Before(i)) = Cardinality(rows) => Before(i) = rows
      BY <1>2, <2>1, FS_Subset
    <2> QED BY <1>2, <1>3, <1>5, <2>1, <2>2
  <1> DEFINE Rank(i) == Cardinality(Before(i))
  <1>6. ASSUME Cardinality(rows) > k PROVE page # {}
    <2>1. rows # {}
      BY <1>6, FS_EmptySet
    <2> DEFINE Ranks == {Rank(i) : i \in rows}
    <2>2. Ranks \subseteq Nat /\ Ranks # {}
      BY <1>3, <2>1
    <2>3. PICK n \in Ranks : \A m \in Ranks : n <= m
      BY <2>2, Smallest
    <2>4. PICK i \in rows : n = Rank(i)
      BY <2>3
    <2>5. \A j \in rows : Rank(i) <= Rank(j)
      BY <2>3, <2>4
    <2>6. Before(i) = {}
      <3> SUFFICES ASSUME NEW j \in rows, Precedes(l, j, i) PROVE FALSE
        OBVIOUS
      <3>1. Rank(j) < Rank(i)
        BY <1>4
      <3> QED BY <1>3, <2>5, <3>1
    <2>7. Cardinality(Before(i)) = 0
      BY <2>6, FS_EmptySet
    <2> QED BY <2>7
  <1>7. ASSUME Cardinality(rows) > k
        PROVE  last \in page /\ \A j \in page \ {last} : Precedes(l, j, last)
    <2> DEFINE Room == {k - Rank(i) : i \in page}
    <2>1. Room \subseteq Nat /\ Room # {}
      <3>1. \A i \in page : Rank(i) \in Nat /\ Rank(i) < k
        BY <1>3
      <3>2. \A i \in page : k - Rank(i) \in Nat
        BY <3>1
      <3> QED BY <1>6, <1>7, <3>2
    <2>2. PICK n \in Room : \A m \in Room : n <= m
      BY <2>1, Smallest
    <2>3. PICK i \in page : n = k - Rank(i)
      BY <2>2
    <2>4. \A j \in page : k - Rank(i) <= k - Rank(j)
      BY <2>2, <2>3
    <2>5. \A j \in page \ {i} : Precedes(l, j, i)
      <3> SUFFICES ASSUME NEW j \in page, j # i, Precedes(l, i, j) PROVE FALSE
        BY ListingIsOrdered
      <3>1. Rank(i) < Rank(j)
        BY <1>4
      <3>2. Rank(i) \in Nat /\ Rank(j) \in Nat /\ k - Rank(i) <= k - Rank(j)
        BY <1>3, <2>4
      <3> HIDE DEF Rank
      <3> QED BY <3>1, <3>2
    <2> HIDE DEF page
    <2> QED BY <2>5 DEF LastOf
  <1>8. ASSUME Cardinality(rows) > k, NEW i \in rows
        PROVE  i \in page <=> i = last \/ Precedes(l, i, last)
    <2>1. last \in page /\ last \in rows /\ Rank(last) < k
      BY <1>7, <1>8
    <2>2. ASSUME i \in page PROVE i = last \/ Precedes(l, i, last)
      <3> HIDE DEF last
      <3> QED BY <1>7, <1>8, <2>2
    <2>3. Precedes(l, i, last) => Rank(i) < Rank(last)
      BY <1>4, <2>1
    <2>4. Rank(i) < k => i \in page
      BY <1>8
    <2>5. Rank(i) \in Nat /\ Rank(last) \in Nat /\ k \in Nat
      BY <1>3
    <2> HIDE DEF Rank, page, last
    <2>6. Precedes(l, i, last) => i \in page
      BY <2>1, <2>3, <2>4, <2>5
    <2> QED BY <2>1, <2>2, <2>6
  <1>9. page \subseteq rows
    OBVIOUS
  <1> HIDE DEF page
  <1>10. last = LastOf(l, ListPage(l, rows, k))
    BY <1>1
  <1> HIDE DEF last
  <1> QED BY <1>1, <1>5, <1>7, <1>8, <1>9, <1>10

(* A page moves the scan to the last row of the page, if there are more,    *)
(* and otherwise behind all rows.                                           *)
LEMMA PageMovesOn ==
    ASSUME RowsAreDated, NEW w, ScanInv(w), w.pc = "paging", NEW f \in DOMAIN Filters,
           NEW rows, rows = Matching(w.list, f, w.cursor),
           NEW page, page = ListPage(w.list, rows, w.size),
           NEW last, last = LastOf(w.list, page),
           NEW v, v.list = w.list,
           IF Cardinality(rows) > w.size
           THEN v.pc = "paging" /\ v.cursor = [key |-> Key(w.list, last), id |-> last]
           ELSE v.pc = "done" /\ v.cursor = NoPosition
    PROVE  /\ page \subseteq rows /\ rows \subseteq Items
           /\ v.cursor # NoPosition => v.cursor.key \in Int /\ v.cursor.id \in Int
           /\ \A i \in rows : Ahead(w, i) /\ (i \in page <=> ~Ahead(v, i))
           /\ \A i \in Items : ~Ahead(w, i) => ~Ahead(v, i)
  <1>1. rows \subseteq Items /\ \A i \in rows : Ahead(w, i)
    BY ListingAssumption DEF Matching, Ahead
  <1>2. w.list \in Listings /\ w.size \in Nat \ {0}
    BY ListingAssumption DEF ScanInv, ScanTyped
  <1>3. CASE ~(Cardinality(rows) > w.size)
    <2>1. v.pc = "done" /\ v.cursor = NoPosition
      BY <1>3
    <2>2. page = rows
      BY <1>1, <1>2, <1>3, PageIsPrefix
    <2> QED BY <1>1, <2>1, <2>2 DEF Ahead
  <1>4. CASE Cardinality(rows) > w.size
    <2>1. v.pc = "paging" /\ v.cursor = [key |-> Key(w.list, last), id |-> last]
      BY <1>4
    <2>2. /\ page \subseteq rows /\ last \in page
          /\ \A i \in rows : i \in page <=> i = last \/ Precedes(w.list, i, last)
      BY <1>1, <1>2, <1>4, PageIsPrefix
    <2>3. last \in Items /\ last \in Int /\ Key(w.list, last) \in Int
      <3>0. \A i \in Items : i \in Int
        BY ListingAssumption
      <3>1. last \in Items /\ last \in Int
        BY <1>1, <2>2, <3>0
      <3> QED BY <1>2, <3>1, KeyIsInt
    <2>4. v.cursor.key = Key(w.list, last) /\ v.cursor.id = last
      BY <2>1
    <2>5. v.cursor # NoPosition
      <3>1. DOMAIN v.cursor = {"key", "id"} /\ DOMAIN NoPosition = {"id"}
        BY <2>1 DEF NoPosition
      <3> QED BY <3>1
    <2>6. \A i \in Items : Ahead(v, i) <=> Precedes(w.list, last, i)
      BY <1>2, <2>1, <2>3, <2>5, BeyondAreLater DEF Ahead
    <2>7. \A i \in rows : i \in page <=> ~Ahead(v, i)
      BY <1>1, <1>2, <2>2, <2>3, <2>6, ListingIsOrdered
    <2>8. ASSUME NEW i \in Items, ~Ahead(w, i) PROVE ~Ahead(v, i)
      <3>1. w.cursor # NoPosition /\ ~Beyond(w.list, w.cursor, i)
        BY <2>8 DEF Ahead
      <3>2. Beyond(w.list, w.cursor, last)
        BY <1>1, <2>2, <3>1 DEF Ahead
      <3>3. w.cursor.key \in Int /\ w.cursor.id \in Int
        BY <3>1 DEF ScanInv, ScanTyped
      <3>4. ~Precedes(w.list, last, i)
        BY <1>2, <2>3, <3>1, <3>2, <3>3, BeyondAreLater
      <3> QED BY <2>6, <3>4
    <2> QED BY <1>1, <2>2, <2>3, <2>4, <2>7, <2>8
  <1> QED BY <1>3, <1>4

(* What the next page shows is what was ahead of it and is not any more.    *)
LEMMA PageShows ==
    ASSUME RowsAreDated, NEW w, ScanInv(w), w.pc = "paging", NEW f \in DOMAIN Filters,
           NEW rows, rows = Matching(w.list, f, w.cursor),
           NEW page, page = ListPage(w.list, rows, w.size),
           NEW v, DOMAIN v = DOMAIN w, v.list = w.list, v.first = w.first, v.size = w.size,
           v.calm = w.calm, v.mixed = (w.mixed \/ f # w.first),
           v.out = [i \in Items |-> IF i \in page \ Skips(w.list) THEN w.out[i] + 1
                                    ELSE w.out[i]],
           IF Cardinality(rows) > w.size
           THEN /\ v.pc = "paging"
                /\ v.cursor = [key |-> Key(w.list, LastOf(w.list, page)),
                               id |-> LastOf(w.list, page)]
           ELSE v.pc = "done" /\ v.cursor = NoPosition
    PROVE  ScanInv(v)
  <1>1. PICK last : last = LastOf(w.list, page)
    OBVIOUS
  <1>2. /\ page \subseteq rows /\ rows \subseteq Items
        /\ v.cursor # NoPosition => v.cursor.key \in Int /\ v.cursor.id \in Int
        /\ \A i \in rows : Ahead(w, i) /\ (i \in page <=> ~Ahead(v, i))
        /\ \A i \in Items : ~Ahead(w, i) => ~Ahead(v, i)
    BY <1>1, PageMovesOn
  <1>3. v.pc \in {"paging", "done"}
    OBVIOUS
  <1>4. w.out \in [Items -> Nat]
    BY DEF ScanInv, ScanTyped
  <1>5. \A i \in Items : v.out[i] = IF i \in page \ Skips(w.list) THEN w.out[i] + 1 ELSE w.out[i]
    OBVIOUS
  <1>6. ScanTyped(v)
    <2>1. v.out \in [Items -> Nat]
      BY <1>4
    <2> QED BY <1>2, <1>3, <2>1 DEF ScanInv, ScanTyped
  <1>7. QuietAreShown(v)
    <2> SUFFICES ASSUME ~v.mixed, NEW i \in (w.calm \cap Filters[w.first]) \ Skips(w.list),
                        item[i].shown = "yes"
                 PROVE  v.out[i] = IF Ahead(v, i) THEN 0 ELSE 1
      BY DEF QuietAreShown
    <2>1. ~w.mixed /\ f = w.first /\ i \in Items
      BY DEF ScanInv, ScanTyped
    <2>2. w.out[i] = IF Ahead(w, i) THEN 0 ELSE 1
      BY <2>1 DEF ScanInv, QuietAreShown
    <2>3. i \in rows <=> Ahead(w, i)
      BY <2>1 DEF Matching, Ahead
    <2>4. CASE i \in page
      BY <1>2, <1>5, <2>1, <2>2, <2>3, <2>4
    <2>5. CASE i \in rows \ page
      BY <1>2, <1>5, <2>1, <2>2, <2>3, <2>5
    <2>6. CASE i \notin rows
      BY <1>2, <1>5, <2>1, <2>2, <2>3, <2>6
    <2> QED BY <2>4, <2>5, <2>6
  <1>8. ShownAreBehind(v)
    <2> SUFFICES ASSUME KeyStays(w.list), NEW i \in Items
                 PROVE  /\ v.out[i] \in {0, 1}
                        /\ v.out[i] = 1 => item[i].shown # "absent" /\ ~Ahead(v, i)
      BY DEF ShownAreBehind
    <2>1. /\ w.out[i] \in {0, 1}
          /\ w.out[i] = 1 => item[i].shown # "absent" /\ ~Ahead(w, i)
      BY DEF ScanInv, ShownAreBehind
    <2>2. CASE i \in page \ Skips(w.list)
      <3>1. item[i].shown = "yes" /\ Ahead(w, i) /\ ~Ahead(v, i)
        BY <1>2, <2>2 DEF Matching
      <3>2. v.out[i] = w.out[i] + 1
        BY <1>5, <2>2
      <3>3. w.out[i] = 0
        BY <2>1, <3>1
      <3> QED BY <3>1, <3>2, <3>3
    <2>3. CASE i \notin page \ Skips(w.list)
      BY <1>2, <1>5, <2>1, <2>3
    <2> QED BY <2>2, <2>3
  <1> QED BY <1>6, <1>7, <1>8 DEF ScanInv

(* A writer's step: the row is calm no more, and where keys stay, it does   *)
(* not come ahead of a scan that has shown it.                              *)
LEMMA ChurnKeeps ==
    ASSUME ListInv, NEW i \in Items, NEW row, Churn(i, row), now' \in Nat, now' >= now,
           DOMAIN row = DOMAIN item[i],
           row.created \in Nat, row.updated \in Nat, row.rank \in {1, 2}, row.updated <= now',
           item[i].shown # "absent" =>
              /\ row.shown # "absent" /\ row.created = item[i].created
              /\ row.updated >= item[i].updated
    PROVE  ListInv'
  <1>1. /\ RowsAreDated /\ scan = [s \in Scanners |-> scan[s]]
        /\ \A s \in Scanners : scan[s].pc # "idle" => ScanInv(scan[s])
    BY DEF ListInv
  <1>2. /\ item' = [x \in Items |-> item'[x]] /\ item'[i] = row
        /\ \A x \in Items \ {i} : item'[x] = item[x]
    BY <1>1 DEF Churn, RowsAreDated
  <1>3. RowsAreDated'
    <2>1. ASSUME NEW x \in Items
          PROVE  /\ DOMAIN item'[x] = {"shown", "created", "updated", "rank"}
                 /\ item'[x].created \in Nat /\ item'[x].updated \in Nat
                 /\ item'[x].rank \in {1, 2} /\ item'[x].updated <= now'
      <3>1. item[x].updated \in Nat /\ item[x].updated <= now /\ now \in Nat
        BY <1>1 DEF RowsAreDated
      <3>2. CASE x = i
        BY <1>1, <1>2, <3>2 DEF RowsAreDated
      <3>3. CASE x # i
        BY <1>1, <1>2, <3>1, <3>3 DEF RowsAreDated
      <3> QED BY <3>2, <3>3
    <2> QED BY <1>2, <2>1 DEF RowsAreDated
  <1>4. scan' = [s \in Scanners |-> IF scan[s].pc = "idle" THEN scan[s]
                                    ELSE [scan[s] EXCEPT !.calm = @ \ {i}]]
    BY DEF Churn
  <1>5. ASSUME NEW s \in Scanners, NEW v, v = scan'[s], v.pc # "idle" PROVE ScanInv(v)'
    <2>1. PICK w : w = scan[s]
      OBVIOUS
    <2>2. w.pc = "idle" => v = w
      BY <1>4, <1>5, <2>1
    <2>3. w.pc # "idle" /\ v = [w EXCEPT !.calm = @ \ {i}]
      BY <1>4, <1>5, <2>1, <2>2
    <2>4. ScanTyped(w) /\ QuietAreShown(w) /\ ShownAreBehind(w)
      BY <1>1, <2>1, <2>3 DEF ScanInv
    <2>5. /\ DOMAIN v = ScanFields /\ v.pc = w.pc /\ v.list = w.list /\ v.first = w.first
          /\ v.mixed = w.mixed /\ v.size = w.size /\ v.cursor = w.cursor /\ v.out = w.out
          /\ v.calm = w.calm \ {i}
      BY <2>3, <2>4 DEF ScanTyped, ScanFields
    <2>6. ScanTyped(v)
      BY <2>4, <2>5 DEF ScanTyped
    <2>7. \A x \in Items \ {i} : Key(w.list, x)' = Key(w.list, x)
      BY <1>2 DEF Key
    <2>8. \A x \in Items \ {i} : Ahead(v, x)' <=> Ahead(w, x)
      BY <2>5, <2>7 DEF Ahead, Beyond
    <2>9. QuietAreShown(v)'
      <3> SUFFICES ASSUME v.pc \in {"paging", "done"}, ~v.mixed,
                          NEW x \in (v.calm \cap Filters[v.first]) \ Skips(v.list),
                          item'[x].shown = "yes"
                   PROVE  v.out[x] = IF Ahead(v, x)' THEN 0 ELSE 1
        BY DEF QuietAreShown, Skips
      <3>1. x \in Items \ {i} /\ x \in (w.calm \cap Filters[w.first]) \ Skips(w.list)
        BY <2>4, <2>5 DEF ScanTyped
      <3>2. w.out[x] = IF Ahead(w, x) THEN 0 ELSE 1
        BY <1>2, <2>4, <2>5, <3>1 DEF QuietAreShown
      <3> QED BY <2>5, <2>8, <3>1, <3>2
    <2>10. ShownAreBehind(v)'
      <3> SUFFICES ASSUME v.pc \in {"paging", "done"}, KeyStays(v.list), NEW x \in Items
                   PROVE  /\ v.out[x] \in {0, 1}
                          /\ v.out[x] = 1 => item'[x].shown # "absent" /\ ~Ahead(v, x)'
        BY DEF ShownAreBehind, KeyStays
      <3>1. /\ w.out[x] \in {0, 1}
            /\ w.out[x] = 1 => item[x].shown # "absent" /\ ~Ahead(w, x)
        BY <2>4, <2>5 DEF ShownAreBehind
      <3>2. CASE x # i
        BY <1>2, <2>5, <2>8, <3>1, <3>2
      <3>3. ASSUME x = i, w.out[i] = 1 PROVE row.shown # "absent" /\ ~Ahead(v, i)'
        <4>1. /\ row.shown # "absent" /\ row.created = item[i].created
              /\ row.updated >= item[i].updated /\ ~Ahead(w, i)
          BY <3>1, <3>3
        <4>2. Key(w.list, i)' \in Int /\ Key(w.list, i) \in Int
          <5>1. w.list \in Listings
            BY <2>4 DEF ScanTyped
          <5>2. Key(w.list, i) \in Int
            BY <1>1, <5>1, KeyIsInt
          <5>3. row.created \in Int /\ row.updated \in Int
            OBVIOUS
          <5>4. w.list.by = "created" \/ w.list.by = "updated"
            BY <2>5 DEF KeyStays
          <5>5. Key(w.list, i)' \in Int
            BY <1>2, <5>3, <5>4 DEF Key
          <5> QED BY <5>2, <5>5
        <4>3. \/ Key(w.list, i)' = Key(w.list, i)
              \/ w.list.down /\ Key(w.list, i)' >= Key(w.list, i)
          BY <1>2, <2>5, <4>1 DEF KeyStays, Key
        <4>4. ASSUME w.cursor # NoPosition, ~Beyond(w.list, w.cursor, i)
              PROVE  ~Beyond(w.list, w.cursor, i)'
          <5>1. w.cursor.key \in Int /\ w.cursor.id \in Int /\ i \in Int
            BY <2>4, <4>4, ListingAssumption DEF ScanTyped
          <5> QED BY <4>2, <4>3, <4>4, <5>1 DEF Beyond
        <4> QED BY <2>5, <4>1, <4>4 DEF Ahead
      <3> QED BY <1>2, <2>5, <3>1, <3>2, <3>3
    <2> QED BY <2>6, <2>9, <2>10 DEF ScanInv, ScanTyped
  <1>6. scan' = [s \in Scanners |-> scan'[s]]
    BY <1>4
  <1> QED BY <1>3, <1>5, <1>6 DEF ListInv

LEMMA ListInvInit == ListingInit => ListInv
  BY DEF ListingInit, ListInv, RowsAreDated

LEMMA ListInvNext == ListInv /\ [ListingNext]_listingVars => ListInv'
  <1> SUFFICES ASSUME ListInv, [ListingNext]_listingVars PROVE ListInv'
    OBVIOUS
  <1>1. /\ RowsAreDated /\ scan = [s \in Scanners |-> scan[s]]
        /\ \A s \in Scanners : scan[s].pc # "idle" => ScanInv(scan[s])
    BY DEF ListInv
  <1>2. ASSUME NEW i \in Items, Create(i) PROVE ListInv'
    <2>1. PICK row : row = [item[i] EXCEPT !.shown = "uncommitted", !.created = now,
                                           !.updated = now]
      OBVIOUS
    <2>2. /\ DOMAIN row = DOMAIN item[i] /\ row.created = now /\ row.updated = now
          /\ row.rank = item[i].rank
      BY <1>1, <2>1 DEF RowsAreDated
    <2>3. now \in Nat /\ now' \in Nat /\ now' >= now /\ item[i].rank \in {1, 2}
      BY <1>1, <1>2 DEF Create, RowsAreDated
    <2> QED BY <1>2, <2>1, <2>2, <2>3, ChurnKeeps DEF Create
  <1>3. ASSUME NEW i \in Items, Appear(i) \/ Hide(i) PROVE ListInv'
    <2>1. PICK shown \in {"yes", "hidden"} : /\ Churn(i, [item[i] EXCEPT !.shown = shown])
                                             /\ now' = now
      BY <1>3 DEF Appear, Hide
    <2>2. PICK row : row = [item[i] EXCEPT !.shown = shown]
      OBVIOUS
    <2>3. /\ DOMAIN row = DOMAIN item[i] /\ row.created = item[i].created
          /\ row.updated = item[i].updated /\ row.rank = item[i].rank /\ row.shown = shown
      BY <1>1, <2>2 DEF RowsAreDated
    <2>4. /\ item[i].created \in Nat /\ item[i].updated \in Nat /\ item[i].rank \in {1, 2}
          /\ item[i].updated <= now /\ now \in Nat
      BY <1>1 DEF RowsAreDated
    <2>5. Churn(i, row) /\ now' = now /\ row.shown # "absent"
      BY <2>1, <2>2, <2>3
    <2>6. now' \in Nat /\ now' >= now /\ row.updated >= item[i].updated
      BY <2>3, <2>4, <2>5
    <2> QED BY <2>3, <2>4, <2>5, <2>6, ChurnKeeps
  <1>4. ASSUME NEW i \in Items, Touch(i) PROVE ListInv'
    <2>1. PICK row : row = [item[i] EXCEPT !.updated = now]
      OBVIOUS
    <2>2. /\ DOMAIN row = DOMAIN item[i] /\ row.created = item[i].created
          /\ row.updated = now /\ row.rank = item[i].rank /\ row.shown = item[i].shown
      BY <1>1, <2>1 DEF RowsAreDated
    <2>3. /\ item[i].created \in Nat /\ item[i].updated \in Nat /\ item[i].rank \in {1, 2}
          /\ item[i].updated <= now /\ now \in Nat
      BY <1>1 DEF RowsAreDated
    <2>4. Churn(i, row) /\ now' = now + 1
      BY <1>4, <2>1 DEF Touch
    <2>5. now' \in Nat /\ now' >= now /\ now <= now'
      BY <2>3, <2>4
    <2> QED BY <2>2, <2>3, <2>4, <2>5, ChurnKeeps
  <1>5. ASSUME NEW i \in Items, Rerank(i) PROVE ListInv'
    <2>1. PICK row : row = [item[i] EXCEPT !.rank = 3 - @]
      OBVIOUS
    <2>2. /\ DOMAIN row = DOMAIN item[i] /\ row.created = item[i].created
          /\ row.updated = item[i].updated /\ row.rank = 3 - item[i].rank
          /\ row.shown = item[i].shown
      BY <1>1, <2>1 DEF RowsAreDated
    <2>3. /\ item[i].created \in Nat /\ item[i].updated \in Nat /\ item[i].rank \in {1, 2}
          /\ item[i].updated <= now /\ now \in Nat
      BY <1>1 DEF RowsAreDated
    <2>4. row.rank \in {1, 2} /\ Churn(i, row) /\ now' = now
      BY <1>5, <2>1, <2>2, <2>3 DEF Rerank
    <2> QED BY <2>2, <2>3, <2>4, ChurnKeeps
  <1>6. ASSUME item' = item, now' = now,
               NEW s \in Scanners, NEW v, scan' = [scan EXCEPT ![s] = v], ScanInv(v)
        PROVE  ListInv'
    <2>1. /\ scan' = [x \in Scanners |-> scan'[x]] /\ scan'[s] = v
          /\ \A x \in Scanners \ {s} : scan'[x] = scan[x]
      BY <1>1, <1>6
    <2>2. RowsAreDated'
      BY <1>1, <1>6 DEF RowsAreDated
    <2>3. \A w : ScanInv(w)' <=> ScanInv(w)
      BY <1>6 DEF ScanInv, ScanTyped, QuietAreShown, ShownAreBehind, Ahead, Beyond, Key
    <2> QED BY <1>1, <1>6, <2>1, <2>2, <2>3 DEF ListInv
  <1>7. ASSUME NEW s \in Scanners, BeginScan(s) PROVE ListInv'
    <2>1. PICK l \in Listings, f \in DOMAIN Filters, k \in PageSizes :
             scan' = [scan EXCEPT ![s] =
               [pc |-> "paging", list |-> l, first |-> f, mixed |-> FALSE, size |-> k,
                cursor |-> NoPosition, out |-> [i \in Items |-> 0], calm |-> Items]]
      BY <1>7 DEF BeginScan
    <2>2. PICK v : v = [pc |-> "paging", list |-> l, first |-> f, mixed |-> FALSE, size |-> k,
                        cursor |-> NoPosition, out |-> [i \in Items |-> 0], calm |-> Items]
      OBVIOUS
    <2>3. /\ DOMAIN v = ScanFields /\ v.pc = "paging" /\ v.list = l /\ v.first = f
          /\ v.size = k /\ v.cursor = NoPosition /\ v.calm = Items
          /\ v.out \in [Items -> Nat] /\ \A i \in Items : v.out[i] = 0
      BY <2>2 DEF ScanFields
    <2>4. ScanInv(v)
      BY <2>3 DEF ScanInv, ScanTyped, QuietAreShown, ShownAreBehind, Ahead
    <2> QED BY <1>6, <1>7, <2>1, <2>2, <2>4 DEF BeginScan
  <1>8. ASSUME NEW s \in Scanners, NextPage(s) PROVE ListInv'
    <2>1. PICK w : w = scan[s]
      OBVIOUS
    <2>2. w.pc = "paging" /\ ScanInv(w) /\ item' = item /\ now' = now
      BY <1>1, <1>8, <2>1 DEF NextPage
    <2>3. PICK f \in DOMAIN Filters :
             scan' = [scan EXCEPT ![s] = IF RefusesCursor(w, f) THEN [w EXCEPT !.pc = "refused"]
                                         ELSE AfterPage(w, f)]
      BY <1>8, <2>1 DEF NextPage
    <2>4. CASE RefusesCursor(w, f)
      <3>1. PICK v : v = [w EXCEPT !.pc = "refused"]
        OBVIOUS
      <3>2. scan' = [scan EXCEPT ![s] = v]
        BY <2>3, <2>4, <3>1
      <3>3. /\ DOMAIN v = DOMAIN w /\ v.pc = "refused" /\ v.list = w.list /\ v.first = w.first
            /\ v.size = w.size /\ v.cursor = w.cursor /\ v.calm = w.calm /\ v.out = w.out
        BY <2>2, <3>1 DEF ScanInv, ScanTyped, ScanFields
      <3>4. ScanInv(v)
        BY <2>2, <3>3 DEF ScanInv, ScanTyped, QuietAreShown, ShownAreBehind
      <3> QED BY <1>6, <2>2, <3>2, <3>4
    <2>5. CASE ~RefusesCursor(w, f)
      <3>1. PICK rows : rows = Matching(w.list, f, w.cursor)
        OBVIOUS
      <3>2. PICK page : page = ListPage(w.list, rows, w.size)
        OBVIOUS
      <3>3. PICK last : last = LastOf(w.list, page)
        OBVIOUS
      <3>4. PICK cur : cur = IF Cardinality(rows) > w.size
                             THEN [key |-> Key(w.list, last), id |-> last] ELSE NoPosition
        OBVIOUS
      <3>5. PICK out : out = [i \in Items |-> IF i \in page \ Skips(w.list)
                                              THEN w.out[i] + 1 ELSE w.out[i]]
        OBVIOUS
      <3>6. PICK pc : pc = IF Cardinality(rows) > w.size THEN "paging" ELSE "done"
        OBVIOUS
      <3>7. PICK v : v = AfterPage(w, f)
        OBVIOUS
      <3>8. scan' = [scan EXCEPT ![s] = v]
        BY <2>3, <2>5, <3>7
      <3>9. v = [w EXCEPT !.out = out, !.mixed = @ \/ f # w.first, !.pc = pc, !.cursor = cur]
        BY <3>1, <3>2, <3>3, <3>4, <3>5, <3>6, <3>7 DEF AfterPage
      <3>10. /\ DOMAIN v = DOMAIN w /\ v.list = w.list /\ v.first = w.first
             /\ v.size = w.size /\ v.calm = w.calm /\ v.mixed = (w.mixed \/ f # w.first)
             /\ v.out = out /\ v.pc = pc /\ v.cursor = cur
        BY <2>2, <3>9 DEF ScanInv, ScanTyped, ScanFields
      <3>11. ScanInv(v)
        BY <1>1, <2>2, <3>1, <3>2, <3>3, <3>4, <3>5, <3>6, <3>10, PageShows
      <3> QED BY <1>6, <2>2, <3>8, <3>11
    <2> QED BY <2>4, <2>5
  <1>9. CASE UNCHANGED listingVars
    <2>1. RowsAreDated' /\ scan' = scan
      BY <1>1, <1>9 DEF listingVars, RowsAreDated
    <2>2. \A w : ScanInv(w)' <=> ScanInv(w)
      BY <1>9 DEF listingVars, ScanInv, ScanTyped, QuietAreShown, ShownAreBehind, Ahead,
                  Beyond, Key
    <2> QED BY <1>1, <2>1, <2>2 DEF ListInv
  <1> QED BY <1>2, <1>3, <1>4, <1>5, <1>7, <1>8, <1>9 DEF ListingNext

(* Paging shows every row that fits, stays in sight and is not touched from *)
(* the first page to the last, and shows it once; and it shows no row twice *)
(* where keys do not move ahead of the scan (browse.py, pagination.py): for *)
(* any number of rows, changes, equal keys and scans, and pages of any size.*)
THEOREM PagesListOnce == ListingSpec => []ListedOnce
  <1>1. ListInv => ListedOnce
    <2> SUFFICES ASSUME ListInv PROVE QuietRowsListedOnce /\ NoRowTwice
      BY DEF ListedOnce
    <2>1. QuietRowsListedOnce
      <3> SUFFICES ASSUME NEW s \in Scanners, scan[s].pc = "done", ~scan[s].mixed,
                          NEW i \in (scan[s].calm \cap Filters[scan[s].first])
                                       \ Skips(scan[s].list),
                          item[i].shown = "yes"
                   PROVE  scan[s].out[i] = 1
        BY DEF QuietRowsListedOnce, Ended
      <3>1. QuietAreShown(scan[s])
        BY DEF ListInv, ScanInv
      <3> QED BY <3>1 DEF QuietAreShown, Ahead
    <2>2. NoRowTwice
      <3> SUFFICES ASSUME NEW s \in Scanners, scan[s].pc \in {"paging", "done"},
                          KeyStays(scan[s].list), NEW i \in Items
                   PROVE  scan[s].out[i] <= 1
        BY DEF NoRowTwice, KeyStays
      <3>1. scan[s].out[i] \in {0, 1}
        BY DEF ListInv, ScanInv, ShownAreBehind
      <3> QED BY <3>1
    <2> QED BY <2>1, <2>2
  <1> QED BY <1>1, ListInvInit, ListInvNext, PTL DEF ListingSpec
=============================================================================
