---------------------------- MODULE ContextPack ----------------------------
(***************************************************************************)
(* mem_context_pack (memory_mcp/context_pack): seven sections are fetched  *)
(* one after the other, each in transactions of its own, then packed into  *)
(* one token budget.  Writers supersede and retire memories in between,    *)
(* and the vector index lags behind.  The playbooks and the trigger        *)
(* matches also come from mem_auto_context's search.                       *)
(*                                                                         *)
(* A text is its number of words.  Memories are numbered by falling        *)
(* salience, which orders every list but the digest's and the journal's.   *)
(***************************************************************************)
EXTENDS Lists, SequencesExt, FiniteSetsExt

CONSTANTS
    Packers,     \* clients calling mem_context_pack
    Notes,       \* memory ids: 1..n
    Future,      \* those not yet written
    NoteKind,    \* their kinds
    TitleWords, BodyWords,          \* the words of each title and body
    BriefWords,  \* those of a digest's selected headings
    ReadyTasks,  \* ids of the tasks _fetch_tasks returns
    TriggerOrder, MacroMatches, PlaybookOrder,
                 \* what matches the task described
    Budgets,     \* token budgets asked, MIN_TOKEN_BUDGET and more
    TopK,        \* TopK[name]: the limit of a section's query
    MaxRewrites  \* bound on the writers' changes

ASSUME NotesAssumption == IsFiniteSet(Notes) /\ Notes = 1 .. Cardinality(Notes)
ASSUME PackAssumption ==
    /\ Future \subseteq Notes /\ Notes \cap ToSet(ReadyTasks) = {}
    /\ \A b \in Budgets : b \in Nat /\ 200 <= b /\ b <= 100000
\* What there is to rank and to count.
ASSUME TextAssumption ==
    /\ TriggerOrder \in Seq(Notes) /\ PlaybookOrder \in Seq(Notes) /\ MacroMatches \subseteq Notes
    /\ ReadyTasks \in Seq(Nat)
    /\ \A m \in Notes \cup ToSet(ReadyTasks) : TitleWords[m] \in Nat
    /\ \A m \in Notes : BodyWords[m] \in Nat
    /\ BriefWords \in Nat /\ \A n \in {"trigger_matched", "recent_journal", "decisions",
                                       "playbooks", "archival"} : TopK[n] \in Nat

VARIABLES
    note,       \* note[m]: the row, its status and successor
    vectors,    \* the memories with a point in the vector index
    packer,     \* the calls
    rewrites    \* changes the writers have made

packVars == <<note, vectors, packer, rewrites>>

Visible == {"active"}          \* _VISIBLE_STATUSES; proposed is read alike

PackInit ==
    /\ note = [m \in Notes |-> [status |-> IF m \in Future THEN "absent" ELSE "active",
                                sup |-> 0]]
    /\ vectors = Notes \ Future
    /\ packer = [p \in Packers |-> [pc |-> "idle"]]
    /\ rewrites = 0

-----------------------------------------------------------------------------
(* The writers                                                             *)

\* History: still keeps the memories unchanged since a call began.
Disturb(ms) ==
    packer' = [p \in Packers |-> IF packer[p].pc = "idle" THEN packer[p]
                                 ELSE [packer[p] EXCEPT !.still = @ \ ms]]

\* Bounds: MaxRewrites changes, and none once every pack is made.
MayRewrite == /\ rewrites < MaxRewrites /\ rewrites' = rewrites + 1
              /\ \E p \in Packers : packer[p].pc # "done"

SetNote(m, status) ==
    /\ MayRewrite /\ note[m].status \in {"active", "stale"} \ {status}
    /\ note' = [note EXCEPT ![m].status = status]
    /\ Disturb({m}) /\ UNCHANGED vectors

Renew(m, n) ==
    /\ MayRewrite /\ note[m].status = "active" /\ note[n].status = "absent"
    /\ NoteKind[n] = NoteKind[m]
    /\ note' = [note EXCEPT ![m] = [status |-> "superseded", sup |-> n],
                            ![n].status = "active"]
    /\ Disturb({m, n}) /\ UNCHANGED vectors

SyncVectors ==
    /\ \E p \in Packers : packer[p].pc # "done"
    /\ vectors # {m \in Notes : note[m].status \in {"active", "stale"}}
    /\ vectors' = {m \in Notes : note[m].status \in {"active", "stale"}}
    /\ UNCHANGED <<note, packer, rewrites>>

-----------------------------------------------------------------------------
(* Fetching the sections                                                   *)

Order == <<"digest", "trigger_matched", "recent_journal", "tasks",
           "decisions", "playbooks", "archival">>
Sections == ToSet(Order)

InOrder == [i \in 1 .. Cardinality(Notes) |-> i]
Shown == {m \in Notes : note[m].status \in Visible}
OfKinds(kinds) == {m \in Notes : NoteKind[m] \in kinds}

\* The visible memories of some kinds that the query does not exclude.
Fetch(kinds, except, k) == First(k, Among((Shown \cap OfKinds(kinds)) \ except, InOrder))

\* The digest and the journal: newest first, and later ids are newer.
FetchNewest(kind, k) == First(k, Reverse(Fetch({kind}, {}, Cardinality(Notes))))

\* _fetch_memories_by_ids keeps the order of the ids it is given.
Rows(ids) == Among(Shown, ids)

\* A section excludes what the sections before it have fetched, packed or not.
Excluded(w, names) == UNION {ToSet(w.cand[n]) : n \in names \cap DOMAIN w.cand}

Earlier(name) == CASE name = "decisions" -> {"digest", "trigger_matched", "recent_journal"}
                  [] name = "playbooks" -> {"digest", "trigger_matched", "recent_journal",
                                            "decisions"}
                  [] name = "archival"  -> {"digest", "trigger_matched", "recent_journal",
                                            "decisions", "playbooks"}
                  [] OTHER -> {}

Archival == {"fact", "decision", "playbook"}       \* neither digest nor journal

Section(w, name) ==
    LET except == Excluded(w, Earlier(name)) IN
    CASE name = "digest"         -> FetchNewest("digest", 1)
      [] name = "recent_journal" -> FetchNewest("journal", TopK[name])
      [] name = "tasks"          -> ReadyTasks
      [] name = "decisions"      -> Fetch({"decision"}, except, TopK[name])
      [] name = "archival"       -> Fetch(Archival, except, TopK[name])
      [] name = "trigger_matched" -> Rows(w.found)
      [] name = "playbooks"      -> w.cand0 \o Rows(w.found)

\* _search_by_trigger: the index ranks, a transaction keeps the rows that are
\* proposed, active or stale.  A search that fails yields nothing.
TriggerIds ==
    LET rows == {m \in Notes : note[m].status \in {"active", "stale"}}
    IN  First(TopK["trigger_matched"], Among(rows \cap vectors, TriggerOrder))

\* _fetch_playbooks: rows whose macro matches, then the index tops up.
MacroRows(except) ==
    First(TopK["playbooks"],
         Among(MacroMatches, Fetch({"playbook"}, except, Cardinality(Notes))))

TopUp(except, have) ==
    First(TopK["playbooks"] - Len(have),
         Among(Notes \ (except \cup ToSet(have)),
               First(TopK["playbooks"], Among(vectors, PlaybookOrder))))

-----------------------------------------------------------------------------
(* Packing: pure functions of what was fetched                             *)

\* estimate_tokens: ceil(words / 0.75)
Tokens(words) == (4 * words + 2) \div 3

\* truncate_to_token_budget: the most words that fit the cap.
Truncated(words, cap) ==
    IF cap <= 0 THEN 0
    ELSE IF Tokens(words) <= cap THEN words
    ELSE Max({k \in 0 .. (3 * cap) \div 4 : Tokens(k) <= cap})

Weight(name) == CASE name = "digest" -> 18 [] name = "trigger_matched" -> 25
                  [] name = "recent_journal" -> 20 [] name = "playbooks" -> 7
                  [] OTHER -> 10

Place(name) == CHOOSE i \in DOMAIN Order : Order[i] = name

Total(f) == f["digest"] + f["trigger_matched"] + f["recent_journal"] + f["tasks"]
               + f["decisions"] + f["playbooks"] + f["archival"]
Of(names, f) == [n \in Sections |-> IF n \in names THEN f[n] ELSE 0]
TotalWeight(names) == Total([n \in Sections |-> IF n \in names THEN Weight(n) ELSE 0])

\* Mutant: shares are rounded up.
Caps_RoundUp(budget, names) ==
    [n \in names |-> (budget * Weight(n) + TotalWeight(names) - 1) \div TotalWeight(names)]

\* calculate_section_caps: each available section gets the floor of its
\* share, and the tokens left go one each to the largest fractions, the
\* heavier section first on a tie.
Share(budget, names) == [n \in names |-> (budget * Weight(n)) \div TotalWeight(names)]
Ahead(budget, names, a, b) ==
    LET frac(n) == (budget * Weight(n)) % TotalWeight(names)
    IN  \/ frac(a) > frac(b)
        \/ frac(a) = frac(b) /\ Weight(a) > Weight(b)
        \/ frac(a) = frac(b) /\ Weight(a) = Weight(b) /\ Place(a) < Place(b)
RoundedUp(budget, names) ==
    LET left == budget - Total(Of(names, Share(budget, names)))
    IN  {n \in names : Cardinality({a \in names : Ahead(budget, names, a, n)}) < left}
Caps(budget, names) ==
    [n \in names |-> Share(budget, names)[n] + IF n \in RoundedUp(budget, names) THEN 1 ELSE 0]

\* _build_hit and _build_task_hit: the tokens of a hit under a cap, or -1
\* when it does not fit.  The digest section falls back to the headings of a
\* body that is too long; a digest in any other section is cut like the rest.
Body(name, m, cap) ==
    IF m \notin Notes THEN 2
    ELSE IF name = "digest" /\ Tokens(BodyWords[m]) > cap /\ BriefWords > 0
         THEN BriefWords ELSE BodyWords[m]

HitTokens(name, m, cap) ==
    LET title == Tokens(TitleWords[m])
        used  == title + Tokens(Truncated(Body(name, m, cap), cap - title))
    IN  IF (cap <= title /\ Body(name, m, cap) > 0) \/ used > cap THEN -1 ELSE used

\* _pack_section: hits in order while tokens remain; seen_ids runs through
\* all the sections.
PackOne(name, cap, acc, m) ==
    IF m \in acc.seen \/ acc.used >= cap \/ HitTokens(name, m, cap - acc.used) < 0 THEN acc
    ELSE [seen |-> acc.seen \cup {m}, items |-> Append(acc.items, m),
          used |-> acc.used + HitTokens(name, m, cap - acc.used)]

NothingPacked(seen) == [seen |-> seen, items |-> <<>>, used |-> 0]
PackSection(name, ids, cap, seen) ==
    LET acc[i \in 0 .. Len(ids)] ==
            IF i = 0 THEN NothingPacked(seen) ELSE PackOne(name, cap, acc[i - 1], ids[i])
    IN  [cap |-> cap, items |-> acc[Len(ids)].items, used |-> acc[Len(ids)].used]

\* The sections that have candidates, in their order.
SeenSoFar(packed) == UNION {ToSet(packed[n].items) : n \in DOMAIN packed}
WithSection(packed, n, cand, caps) ==
    IF n \notin DOMAIN caps THEN packed
    ELSE [x \in DOMAIN packed \cup {n} |->
             IF x = n THEN PackSection(n, cand[n], caps[n], SeenSoFar(packed)) ELSE packed[x]]
PackSections(cand, budget) ==
    LET caps == Caps(budget, {n \in DOMAIN cand : cand[n] # <<>>})
        packed[k \in 0 .. Len(Order)] ==
            IF k = 0 THEN <<>> ELSE WithSection(packed[k - 1], Order[k], cand, caps)
    IN  packed[Len(Order)]

-----------------------------------------------------------------------------
(* The calls                                                               *)

StartPack(p) ==
    /\ packer[p].pc = "idle"
    /\ \E b \in Budgets, journal \in BOOLEAN :
         packer' = [packer EXCEPT ![p] =
           [pc |-> "digest", budget |-> b, journal |-> journal, cand |-> <<>>,
            cand0 |-> <<>>, found |-> <<>>, pack |-> <<>>, still |-> Notes]]
    /\ UNCHANGED <<note, vectors, rewrites>>

\* The two searches through the index that come before their rows are read.
SearchIndex(p) ==
    LET w == packer[p]
        except == Excluded(w, Earlier("playbooks")) IN
    /\ w.pc \in {"trigger_matched", "playbooks"}
    /\ \E fails \in BOOLEAN :
         packer' = [packer EXCEPT
           ![p].pc = IF w.pc = "playbooks" THEN "playbook rows" ELSE "trigger rows",
           ![p].cand0 = IF w.pc = "playbooks" THEN MacroRows(except) ELSE <<>>,
           ![p].found = IF fails THEN <<>>
                        ELSE IF w.pc = "playbooks" THEN TopUp(except, MacroRows(except))
                        ELSE TriggerIds]
    /\ UNCHANGED <<note, vectors, rewrites>>

NameAt(pc) == CASE pc = "trigger rows" -> "trigger_matched"
                [] pc = "playbook rows" -> "playbooks"
                [] OTHER -> pc

\* include_journal = FALSE skips the journal; any fetch may fail, and then
\* the section is skipped.
FetchSection(p) ==
    LET w == packer[p]
        name == NameAt(w.pc)
        next == IF name = "archival" THEN "pack" ELSE Order[Place(name) + 1] IN
    /\ w.pc \in ToSet(Order) \cup {"trigger rows", "playbook rows"}
    /\ w.pc \notin {"trigger_matched", "playbooks"}
    /\ \E got \in {Section(w, name), <<>>} :
         packer' = [packer EXCEPT ![p].pc = next, ![p].found = <<>>, ![p].cand0 = <<>>,
           ![p].cand = [n \in DOMAIN w.cand \cup {name} |->
                          IF n # name THEN w.cand[n]
                          ELSE IF name = "recent_journal" /\ ~w.journal THEN <<>> ELSE got]]
    /\ UNCHANGED <<note, vectors, rewrites>>

MakePack(p) ==
    LET w == packer[p] IN
    /\ w.pc = "pack"
    /\ packer' = [packer EXCEPT ![p].pc = "done",
                                ![p].pack = PackSections(w.cand, w.budget)]
    /\ UNCHANGED <<note, vectors, rewrites>>

PackNext ==
    \/ \E m \in Notes : \/ \E status \in {"stale", "retired"} : SetNote(m, status)
                        \/ \E n \in Notes : n > m /\ Renew(m, n)
    \/ SyncVectors
    \/ \E p \in Packers : \/ StartPack(p) \/ SearchIndex(p) \/ FetchSection(p)
                          \/ MakePack(p)

PackSpec == PackInit /\ [][PackNext]_packVars

-----------------------------------------------------------------------------
(* Properties                                                              *)

Packs == {packer[p] : p \in {q \in Packers : packer[q].pc = "done"}}

\* Whatever the sections hold and however the caps are rounded, the pack is
\* within the budget asked: the caps use up at most the budget, and no section
\* uses more than its cap.
PackFitsBudget ==
    \A w \in Packs :
        /\ Total(Of(DOMAIN w.pack, [n \in DOMAIN w.pack |-> w.pack[n].cap])) <= w.budget
        /\ \A n \in DOMAIN w.pack : w.pack[n].used <= w.pack[n].cap

\* No memory is packed twice, whatever sections it was fetched for, and a
\* memory and its successor are packed together only if the supersession
\* happened between the fetches of one pack.
PackedOnce ==
    \A w \in Packs :
        /\ \A n, o \in DOMAIN w.pack :
              \A i \in DOMAIN w.pack[n].items, j \in DOMAIN w.pack[o].items :
                  w.pack[n].items[i] = w.pack[o].items[j] => n = o /\ i = j
        /\ \A m \in SeenSoFar(w.pack) \cap Notes \cap w.still :
              note[m].sup \notin SeenSoFar(w.pack) \/ note[m].sup = 0

\* A context pack keeps to its budget and holds nothing twice
\* (context_pack/api.py).
PackIsSound == PackFitsBudget /\ PackedOnce
=============================================================================
