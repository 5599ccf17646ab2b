------------------------------- MODULE Search -------------------------------
(***************************************************************************)
(* mem_search (memory_mcp/search): up to three legs rank candidates in     *)
(* transactions of their own (lexical in Postgres, semantic in Qdrant,     *)
(* graph by the query's entities), their ranks are fused, the rows are     *)
(* read again, superseded hits are replaced by their successors, and what  *)
(* is left is filtered, sorted and cut.  With fallback, an empty answer    *)
(* widens the request and searches again.  Writers and the projection      *)
(* worker move between any two statements of a pass.                       *)
(*                                                                         *)
(* The query is one text; LexOrder, SemOrder and GraphOrder rank the       *)
(* memories it finds.  Waiting for a fresh projection is module FreshRead. *)
(***************************************************************************)
EXTENDS Lists, SequencesExt, FiniteSetsExt

CONSTANTS
    Seekers,          \* clients calling mem_search
    Corpus,           \* memory ids
    Unborn,           \* the ids not yet written
    CorpusEnv, CorpusKind,             \* env and kind of each memory
    Pinned, Salient,                   \* memories pinned, of salience 1.0
    LexOrder, SemOrder, GraphOrder,    \* best first: whom the text finds
    Queries,          \* the requests clients make
    SearchMinPerLeg,  \* settings.search_min_per_leg
    MaxEdits          \* bound on the writers' changes

RequestFields == {"mode", "envs", "kind", "stale", "archived", "retired", "follow", "limit",
                  "fallback", "expansion", "min", "ids"}

ASSUME SearchAssumption ==
    /\ Corpus \subseteq Nat \ {0} /\ IsFiniteSet(Corpus)    \* in the order of creation
    /\ Unborn \subseteq Corpus /\ Pinned \subseteq Corpus /\ Salient \subseteq Corpus
    /\ \A order \in {LexOrder, SemOrder, GraphOrder} : order \in Seq(Corpus)
    /\ SearchMinPerLeg \in Nat \ {0} /\ MaxEdits \in Nat
    /\ \A q \in Queries :
          /\ DOMAIN q = RequestFields
          /\ q.mode \in {"lex", "sem", "graph", "hybrid", "id"}
          /\ q.limit \in 1..200 /\ q.envs # {} /\ q.min \in Nat /\ q.ids \in Seq(Nat)

VARIABLES
    doc,        \* doc[m]: the row, its status and its superseded_by (0: none)
    index,      \* index[m]: the status in m's vector point, "none" without one
    seek,       \* seek[s]: the call of client s
    edits       \* changes the writers have made

searchVars == <<doc, index, seek, edits>>

Projected == {"active", "stale"}

Quiet == [pc |-> "idle"]

SearchInit ==
    /\ doc = [m \in Corpus |-> [status |-> IF m \in Unborn THEN "absent" ELSE "active",
                                sup |-> 0]]
    /\ index = [m \in Corpus |-> IF m \in Unborn THEN "none" ELSE "active"]
    /\ seek = [s \in Seekers |-> Quiet]
    /\ edits = 0

-----------------------------------------------------------------------------
(* The writers and the projection worker                                   *)

\* History: steady keeps the memories whose row has not changed since the
\* call began.  No search reads it.
Unsteady(ms) ==
    seek' = [s \in Seekers |->
               IF seek[s].pc = "idle" THEN seek[s]
               ELSE [seek[s] EXCEPT !.steady = @ \ ms]]

\* Bounds: MaxEdits changes, and none once every answer is given.
Edit == /\ edits < MaxEdits /\ edits' = edits + 1
        /\ \E s \in Seekers : seek[s].pc # "done"

SetStatus(m, status) ==
    /\ Edit
    /\ doc[m].status \in Projected \ {status}
    /\ doc' = [doc EXCEPT ![m].status = status]
    /\ Unsteady({m})
    /\ UNCHANGED index

Replace(m, n) ==
    /\ Edit
    /\ doc[m].status \in Projected /\ doc[n].status = "absent"
    /\ doc' = [doc EXCEPT ![m] = [status |-> "superseded", sup |-> n],
                          ![n].status = "active"]
    /\ Unsteady({m, n})
    /\ UNCHANGED index

Reproject(m) ==
    LET shows == IF doc[m].status \in Projected THEN doc[m].status ELSE "none"
    IN  /\ index[m] # shows /\ \E s \in Seekers : seek[s].pc # "done"
        /\ index' = [index EXCEPT ![m] = shows]
        /\ UNCHANGED <<doc, seek, edits>>

-----------------------------------------------------------------------------
(* The request                                                             *)

\* _resolve_expansion_preset: "none" and "default" change nothing.
Expanded(q) ==
    CASE q.expansion = "narrow" -> [q EXCEPT !.min = 35, !.fallback = FALSE, !.follow = FALSE]
      [] q.expansion = "broad"  -> [q EXCEPT !.fallback = TRUE, !.follow = TRUE,
                                             !.stale = TRUE, !.archived = TRUE]
      [] OTHER -> q

FinalStatuses(q) ==
    {"active"} \cup (IF q.stale THEN {"stale"} ELSE {})
               \cup (IF q.archived THEN {"archived"} ELSE {})
               \cup (IF q.retired THEN {"retired", "superseded"} ELSE {})

RetrievalStatuses(q) ==
    FinalStatuses(q) \cup (IF q.follow THEN {"superseded"} ELSE {})

LegLimit(q) == IF 2 * q.limit < SearchMinPerLeg THEN SearchMinPerLeg ELSE 2 * q.limit

KindFits(q, m) == q.kind = "any" \/ CorpusKind[m] = q.kind

Legs(q) == CASE q.mode = "hybrid" -> {"lex", "sem", "graph"}
             [] q.mode = "id"     -> {}
             [] OTHER             -> {q.mode}

\* _FALLBACK_STEPS: each builder changes the request of the step before, or
\* is skipped when it would change nothing.
WidenMode(q) == IF q.mode = "lex" THEN [q EXCEPT !.mode = "hybrid"] ELSE q
DropFilters(q) == [q EXCEPT !.kind = "any"]

WidenLifecycle(q) == [q EXCEPT !.stale = TRUE, !.archived = TRUE]

BoostLimit(q) ==
    [q EXCEPT !.follow = FALSE, !.limit = IF 5 * @ < 100 THEN 5 * @ ELSE 100]

FallbackStep(k, q) == CASE k = 1 -> WidenMode(q)
                        [] k = 2 -> DropFilters(q)
                        [] k = 3 -> WidenLifecycle(q)
                        [] k = 4 -> BoostLimit(q)

\* The steps after the k-th that still change the request.
NextSteps(k, q) == {j \in k + 1 .. 4 : FallbackStep(j, q) # q}

-----------------------------------------------------------------------------
(* The legs                                                                *)

\* The memories of the environments and the kind that are searched.
Fitting(q) == {m \in Corpus : CorpusEnv[m] \in q.envs /\ KindFits(q, m)}

\* Mutant: the leg keeps to active memories whatever the request allows.
LexLeg_ActiveOnly(q) ==
    LET matches == {m \in Fitting(q) : doc[m].status \in {"active", "superseded"}}
    IN  First(LegLimit(q), Among(matches, LexOrder))

\* fts: the memories whose text matches, best first.
LexLeg(q) ==
    LET matches == {m \in Fitting(q) : doc[m].status \in RetrievalStatuses(q)}
    IN  First(LegLimit(q), Among(matches, LexOrder))

SemLeg(q) ==
    LET matches == {m \in Fitting(q) : index[m] \in RetrievalStatuses(q) \cap Projected}
    IN  First(LegLimit(q), Among(matches, SemOrder))

\* neighbors knows nothing of statuses and kinds.
GraphLeg(q) ==
    LET near == {m \in Corpus : doc[m].status # "absent" /\ CorpusEnv[m] \in q.envs}
    IN  First(LegLimit(q), Among(near, GraphOrder))

Leg(l, q) == CASE l = "lex" -> LexLeg(q) [] l = "sem" -> SemLeg(q) [] l = "graph" -> GraphLeg(q)

-----------------------------------------------------------------------------
(* Fusing, following and filtering.  w is the call; w.rows the rows it has *)
(* read, the only ones it looks at from here on.                           *)

Scale == 61 * 62 * 63 * 64 * 65     \* fractions 1 / (60 + rank) as integers

Fused(w) == IF w.req.mode = "id" THEN ToSet(w.req.ids)
            ELSE UNION {ToSet(w.got[l]) : l \in DOMAIN w.got}

\* reciprocal_rank_fuse
Rrf(w, m) ==
    LET share(l) == IF Contains(w.got[l], m)
                    THEN Scale \div (60 + CHOOSE i \in DOMAIN w.got[l] : w.got[l][i] = m)
                    ELSE 0
    IN  IF w.req.mode = "id" THEN Scale ELSE MapThenSumSet(share, DOMAIN w.got)

\* The successors of the rows read that are not read yet.
ToFollow(w) ==
    {w.rows[m].sup : m \in DOMAIN w.rows} \ (DOMAIN w.rows \cup {0} \cup w.missing)

\* Mutant: one pointer is followed.
Follow_OneHop(w, m) ==
    IF w.rows[m].sup \in DOMAIN w.rows THEN w.rows[m].sup ELSE m

\* At most _FOLLOW_SUPERSEDED_MAX_HOPS pointers, while the next row was read.
\* (Successors are always newer memories, so the walk meets no cycle.)
Follow(w, m) ==
    LET walk[k \in 0..8] ==
          IF k = 0 THEN m
          ELSE LET n == w.rows[walk[k - 1]].sup
               IN  IF n \in DOMAIN w.rows THEN n ELSE walk[k - 1]
    IN  walk[8]

Target(w, m) == IF w.req.follow THEN Follow(w, m) ELSE m

\* The hits fused that were read: those that follow_superseded rewrites to t.
HitsFor(w, t) == {m \in Fused(w) \cap DOMAIN w.rows : Target(w, m) = t}

\* Twice the final score: scores of merged hits add up, salience multiplies.
HitScore(w, t) ==
    LET rrf(m) == Rrf(w, m)
    IN  MapThenSumSet(rrf, HitsFor(w, t)) * (IF t \in Salient THEN 3 ELSE 2)

\* _passes_post_filters, then min_score (in thousandths); mode id filters by
\* status only.
Passes(w, t) ==
    /\ w.rows[t].status \in FinalStatuses(w.req)
    /\ w.req.mode # "id" =>
          /\ KindFits(w.req, t)
          /\ w.req.min > 0 => HitScore(w, t) >= w.req.min * ((2 * Scale) \div 1000)

Kept(w) == {t \in DOMAIN w.rows : HitsFor(w, t) # {} /\ Passes(w, t)}

\* sort_hits puts every pinned hit before the rest, then the score decides;
\* equal scores are ordered by updated_at, which the model leaves open.
Outranks(w, a, b) ==
    \/ a \in Pinned /\ b \notin Pinned
    \/ (a \in Pinned <=> b \in Pinned) /\ HitScore(w, a) > HitScore(w, b)

FirstOf(ids, S) == CHOOSE i \in DOMAIN ids : ids[i] \in S

\* The pages that may be cut from what is kept: the best limit hits; in mode
\* id, those of the ids asked first.
Pages(w) ==
    LET kept == Kept(w)
        size == IF Cardinality(kept) < w.req.limit THEN Cardinality(kept) ELSE w.req.limit
        before(a, b) ==
          IF w.req.mode = "id"
          THEN FirstOf(w.req.ids, HitsFor(w, a)) < FirstOf(w.req.ids, HitsFor(w, b))
          ELSE Outranks(w, a, b)
    IN  {p \in kSubset(size, kept) : \A a \in kept \ p, b \in p : ~before(a, b)}

-----------------------------------------------------------------------------
(* The calls                                                               *)

Search(s) ==
    \E q \in Queries :
      /\ seek[s].pc = "idle"
      /\ seek' = [seek EXCEPT ![s] =
           [pc |-> IF q.mode = "id" THEN "hydrate" ELSE "legs",
            req |-> Expanded(q), asked |-> Expanded(q),
            got |-> <<>>, rows |-> <<>>, missing |-> {}, step |-> 0,
            hits |-> {}, truncated |-> FALSE, full |-> FALSE, failed |-> FALSE,
            steady |-> Corpus,
            over |-> {m \in Corpus : doc[m].status = "superseded"}]]
      /\ UNCHANGED <<doc, index, edits>>

\* full is history: some leg had more candidates than it could return.
RunLeg(s, l) ==
    LET w == seek[s] IN
    /\ w.pc = "legs" /\ l \in Legs(w.req) \ DOMAIN w.got
    /\ LET got == [k \in DOMAIN w.got \cup {l} |->
                     IF k = l THEN Leg(l, w.req) ELSE w.got[k]]
       IN  seek' = [seek EXCEPT ![s].got = got,
                                ![s].full = @ \/ Len(got[l]) = LegLimit(w.req),
                                ![s].pc = IF DOMAIN got = Legs(w.req) THEN "hydrate" ELSE "legs"]
    /\ UNCHANGED <<doc, index, edits>>

\* A graph store that fails empties the leg of a hybrid search and fails a
\* search by graph alone (GraphBackendUnavailableError).
GraphFails(s) ==
    LET w == seek[s] IN
    /\ w.pc = "legs" /\ "graph" \in Legs(w.req) \ DOMAIN w.got
    /\ IF w.req.mode = "graph"
       THEN seek' = [seek EXCEPT ![s].pc = "done", ![s].failed = TRUE]
       ELSE LET got == [k \in DOMAIN w.got \cup {"graph"} |->
                          IF k = "graph" THEN <<>> ELSE w.got[k]]
            IN  seek' = [seek EXCEPT ![s].got = got,
                           ![s].pc = IF DOMAIN got = Legs(w.req) THEN "hydrate" ELSE "legs"]
    /\ UNCHANGED <<doc, index, edits>>

\* _hydrate_memories: one statement reads the rows that exist and are in the
\* environments searched; follow_superseded reads more until none is pending.
Read(s, ms) ==
    LET w == seek[s]
        found == {m \in Corpus : /\ m \in ms /\ doc[m].status # "absent"
                                /\ CorpusEnv[m] \in w.req.envs}
        rows == [m \in DOMAIN w.rows \cup found |->
                   IF m \in found THEN doc[m] ELSE w.rows[m]]
        missing == w.missing \cup (ms \ found)
        more == w.req.follow /\ ToFollow([w EXCEPT !.rows = rows, !.missing = missing]) # {}
    IN  /\ seek' = [seek EXCEPT ![s].rows = rows, ![s].missing = missing,
                                ![s].pc = IF more THEN "follow" ELSE "finish"]
        /\ UNCHANGED <<doc, index, edits>>

Hydrate(s) == seek[s].pc = "hydrate" /\ Read(s, Fused(seek[s]))

FollowMore(s) == seek[s].pc = "follow" /\ Read(s, ToFollow(seek[s]))

Reply(s) ==
    LET w == seek[s] IN
    /\ w.pc = "finish"
    /\ \E page \in Pages(w) :
         IF page = {} /\ w.asked.fallback /\ w.asked.mode # "id" /\ NextSteps(w.step, w.req) # {}
         THEN LET k == Min(NextSteps(w.step, w.req))
                  q == FallbackStep(k, w.req)
              IN  seek' = [seek EXCEPT ![s] =
                             [w EXCEPT !.pc = "legs", !.req = q, !.got = <<>>, !.step = k,
                                       !.rows = <<>>, !.missing = {}, !.full = FALSE]]
         ELSE seek' = [seek EXCEPT ![s] =
                         [w EXCEPT !.pc = "done", !.hits = page, !.got = <<>>,
                                   !.rows = <<>>, !.missing = {}, !.step = 0,
                                   !.truncated = Cardinality(Kept(w)) > w.req.limit]]
    /\ UNCHANGED <<doc, index, edits>>

SearchNext ==
    \/ \E m \in Corpus : \/ \E status \in {"stale", "archived", "retired"} : SetStatus(m, status)
                         \/ \E n \in Corpus : n > m /\ Replace(m, n)
                         \/ Reproject(m)
    \/ \E s \in Seekers : \/ Search(s) \/ Hydrate(s) \/ FollowMore(s) \/ Reply(s)
                          \/ GraphFails(s)
                          \/ \E l \in {"lex", "sem", "graph"} : RunLeg(s, l)

SearchSpec == SearchInit /\ [][SearchNext]_searchVars

-----------------------------------------------------------------------------
(* Properties                                                              *)

Answered == {w \in {seek[s] : s \in Seekers} : w.pc = "done" /\ ~w.failed}

\* Whatever a leg or the vector index still says, an answer that follows
\* supersessions holds no memory that was superseded before the call began,
\* unless the caller asked for superseded ones and its successor is in an
\* environment the search does not see.  (_follow_superseded and
\* _passes_post_filters, search/api.py.)
SearchFollowsReplacements ==
    \A w \in Answered : w.req.follow =>
      \A m \in w.hits \cap w.over :
          w.req.retired /\ CorpusEnv[doc[m].sup] \notin w.req.envs

\* An answer that is not truncated, from legs that had room for all their
\* candidates, is complete: a memory of the environments searched whose text
\* matches, or whose id was asked, and that fitted the request untouched from
\* the call to the answer is in it, whatever replaced other memories meanwhile.
Suits(w, m) ==
    /\ CorpusEnv[m] \in w.req.envs /\ doc[m].status \in FinalStatuses(w.req)
    /\ IF w.req.mode = "id"
       THEN Contains(w.req.ids, m)
       ELSE /\ w.req.mode \in {"lex", "hybrid"} /\ Contains(LexOrder, m)
            /\ KindFits(w.req, m) /\ w.req.min = 0

HasWhatSuits(w) ==
    ~w.truncated /\ ~w.full => \A m \in w.steady : Suits(w, m) /\ doc[m].sup = 0 => m \in w.hits

UntruncatedIsComplete == \A w \in Answered : HasWhatSuits(w)

\* An empty answer to a search with fallback, from legs that had room, means
\* there was nothing: no memory of the environments searched that the text
\* matches stayed active, stale or archived from the call to the answer.
EmptyForAReason(w) ==
    ( /\ w.hits = {} /\ ~w.full /\ w.asked.fallback
      /\ w.asked.mode \in {"lex", "hybrid"} /\ w.asked.min = 0 ) =>
      \A m \in w.steady :
        ~(/\ CorpusEnv[m] \in w.req.envs /\ Contains(LexOrder, m)
          /\ doc[m].status \in {"active", "stale", "archived"})

EmptyMeansNothing == \A w \in Answered : EmptyForAReason(w)
=============================================================================
