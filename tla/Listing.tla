------------------------------ MODULE Listing ------------------------------
(***************************************************************************)
(* The paged listings: mem_browse, mem_sources_browse, entity_browse,      *)
(* relation_browse, mem_related by shared entity, mem_inbox,               *)
(* dream_proposals_list and task_list.  Each page is one query, ordered by *)
(* a key and then by id, that starts behind the last row of the page       *)
(* before; the cursor holds that row's key and id and, except for two of   *)
(* them, a fingerprint of the filters.  Rows are written, touched and      *)
(* hidden between the pages.                                               *)
(*                                                                         *)
(* A listing is described by its order: up or down, by created_at, which   *)
(* never changes (nor does a task's priority), by updated_at, which every  *)
(* change of the row moves forward, by an entity's name, which an upsert   *)
(* may spell anew, or by the number of entities shared with the seed and   *)
(* updated_at: links come and go.  rank is that name's place or number.    *)
(***************************************************************************)
EXTENDS Integers, FiniteSets

CONSTANTS
    Scanners,   \* clients paging through a listing
    Items,      \* row ids, a set of numbers
    TaskLinks,  \* of them, the relations with a task at an end
    Filters,    \* Filters[f]: the rows that can fit filter f
    PageSizes,
    MaxChurn    \* bound on the writers' steps

ASSUME ListingAssumption ==
    /\ Items \subseteq Nat /\ IsFiniteSet(Items) /\ TaskLinks \subseteq Items
    /\ \A f \in DOMAIN Filters : Filters[f] \subseteq Items
    /\ PageSizes \subseteq Nat \ {0}
    /\ MaxChurn \in Nat

\* The listings: their keys, their directions, and whether a cursor is checked
\* against the filters of the call.
MemBrowse == [by : {"created", "updated"}, down : BOOLEAN, checked : {TRUE}]
SourcesBrowse == [by : {"created"}, down : BOOLEAN, checked : {TRUE}]
EntityBrowse == [by : {"created", "name"}, down : BOOLEAN, checked : {TRUE}]
RelationBrowse == [by : {"created"}, down : BOOLEAN, checked : {TRUE}, skips : {TaskLinks}]
SharedEntity == [by |-> "overlap", down |-> TRUE, checked |-> TRUE]
ProposalsList == [by |-> "created", down |-> TRUE, checked |-> TRUE]
InboxList == [by : {"created"}, down : BOOLEAN, checked : {FALSE}]
TaskList == [by |-> "created", down |-> FALSE, checked |-> FALSE]

Listings == MemBrowse \cup SourcesBrowse \cup EntityBrowse \cup RelationBrowse
              \cup {SharedEntity, ProposalsList, TaskList} \cup InboxList

\* relation_browse builds no hit for a relation of a task, and goes past it.
Skips(l) == IF "skips" \in DOMAIN l THEN l.skips ELSE {}

VARIABLES
    item,       \* item[i]: its visibility, created_at, updated_at and rank
    now,        \* the database's clock
    scan,       \* scan[s]: the listing client s is paging through; out[i]
                \* says how often it was shown row i
    churn       \* the writers' steps so far

listingVars == <<item, now, scan, churn>>

ListingInit ==
    /\ item = [i \in Items |->
                [shown |-> "absent", created |-> 0, updated |-> 0, rank |-> 1]]
    /\ now = 1
    /\ scan = [s \in Scanners |-> [pc |-> "idle"]]
    /\ churn = 0

-----------------------------------------------------------------------------
(* The writers.  Bounds: MaxChurn steps, and none once every scan ended.   *)

\* History: calm keeps the rows unchanged since the scan began.
Churn(i, row) ==
    /\ churn < MaxChurn /\ churn' = churn + 1
    /\ \E s \in Scanners : scan[s].pc # "done"
    /\ item' = [item EXCEPT ![i] = row]
    /\ scan' = [s \in Scanners |-> IF scan[s].pc = "idle" THEN scan[s]
                                   ELSE [scan[s] EXCEPT !.calm = @ \ {i}]]

\* now() is the start of the transaction, so rows written together share it
\* and a row becomes visible after younger ones.
Create(i) ==
    /\ item[i].shown = "absent"
    /\ Churn(i, [item[i] EXCEPT !.shown = "uncommitted", !.created = now, !.updated = now])
    /\ now' \in {now, now + 1}

Appear(i) ==
    /\ item[i].shown \in {"uncommitted", "hidden"}
    /\ Churn(i, [item[i] EXCEPT !.shown = "yes"]) /\ UNCHANGED now

Hide(i) ==
    /\ item[i].shown = "yes"
    /\ Churn(i, [item[i] EXCEPT !.shown = "hidden"]) /\ UNCHANGED now

Touch(i) ==
    /\ item[i].shown = "yes"
    /\ Churn(i, [item[i] EXCEPT !.updated = now]) /\ now' = now + 1

\* A mention is linked, an entity is merged or gets another spelling.
Rerank(i) ==
    /\ item[i].shown = "yes"
    /\ Churn(i, [item[i] EXCEPT !.rank = 3 - @]) /\ UNCHANGED now

-----------------------------------------------------------------------------
(* The pages                                                               *)

\* Among equal overlaps by updated_at, which stays within MaxChurn + 1.
Key(l, i) ==
    CASE l.by = "created" -> item[i].created
      [] l.by = "updated" -> item[i].updated
      [] l.by = "name"    -> item[i].rank
      [] l.by = "overlap" -> (MaxChurn + 2) * item[i].rank + item[i].updated

\* Mutant: the id does not break ties.
Beyond_KeyOnly(l, cur, i) ==
    IF l.down THEN Key(l, i) < cur.key ELSE Key(l, i) > cur.key

\* The keyset condition: the rows behind the cursor in the listing's order.
Beyond(l, cur, i) ==
    IF l.down
    THEN Key(l, i) < cur.key \/ (Key(l, i) = cur.key /\ i < cur.id)
    ELSE Key(l, i) > cur.key \/ (Key(l, i) = cur.key /\ i > cur.id)

\* ORDER BY the key and then the id, both in the listing's direction.
Precedes(l, i, j) ==
    LET a == Key(l, i)  b == Key(l, j) IN
    IF l.down THEN a > b \/ (a = b /\ i > j) ELSE a < b \/ (a = b /\ i < j)

NoPosition == [id |-> 0]

Matching(l, f, cur) ==
    {i \in Filters[f] : item[i].shown = "yes" /\ (cur = NoPosition \/ Beyond(l, cur, i))}

\* The first k rows in order, and the last of them.
ListPage(l, rows, k) ==
    {i \in rows : Cardinality({j \in rows : Precedes(l, j, i)}) < k}

LastOf(l, page) == CHOOSE i \in page : \A j \in page \ {i} : Precedes(l, j, i)

BeginScan(s) ==
    /\ scan[s].pc = "idle"
    /\ \E l \in Listings, f \in DOMAIN Filters, k \in PageSizes :
         scan' = [scan EXCEPT ![s] =
           [pc |-> "paging", list |-> l, first |-> f, mixed |-> FALSE, size |-> k,
            cursor |-> NoPosition, out |-> [i \in Items |-> 0], calm |-> Items]]
    /\ UNCHANGED <<item, now, churn>>

\* A cursor with a fingerprint of its filters, presented with others.
RefusesCursor(w, f) == w.list.checked /\ f # w.first

\* The scan after a page of the rows that fit filter f.  One row more than
\* the page is fetched, to know whether there is a next page.
AfterPage(w, f) ==
    LET rows == Matching(w.list, f, w.cursor)
        page == ListPage(w.list, rows, w.size)
        last == LastOf(w.list, page)
        more == Cardinality(rows) > w.size
    IN  [w EXCEPT !.out = [i \in Items |-> IF i \in page \ Skips(w.list)
                                           THEN w.out[i] + 1 ELSE w.out[i]],
                  !.mixed = @ \/ f # w.first,
                  !.pc = IF more THEN "paging" ELSE "done",
                  !.cursor = IF more THEN [key |-> Key(w.list, last), id |-> last]
                             ELSE NoPosition]

\* A cursor issued for other filters is refused where it says so.
NextPage(s) ==
    LET w == scan[s] IN
    /\ w.pc = "paging"
    /\ \E f \in DOMAIN Filters :
         /\ w.cursor = NoPosition => f = w.first
         /\ scan' = [scan EXCEPT ![s] = IF RefusesCursor(w, f) THEN [w EXCEPT !.pc = "refused"]
                                        ELSE AfterPage(w, f)]
    /\ UNCHANGED <<item, now, churn>>

ListingNext ==
    \/ \E i \in Items : Create(i) \/ Appear(i) \/ Hide(i) \/ Touch(i) \/ Rerank(i)
    \/ \E s \in Scanners : BeginScan(s) \/ NextPage(s)

ListingSpec == ListingInit /\ [][ListingNext]_listingVars

-----------------------------------------------------------------------------
(* Properties                                                              *)

Ended == {w \in {scan[s] : s \in Scanners} : w.pc = "done" /\ ~w.mixed}

\* Page by page, a listing shows every row that fits its filter, is
\* not one it leaves out, and did not change from the first page to the last,
\* and shows it once, however other rows come, go and move between the
\* pages, and however many share its key.
QuietRowsListedOnce ==
    \A w \in Ended :
      \A i \in (w.calm \cap Filters[w.first]) \ Skips(w.list) :
        item[i].shown = "yes" => w.out[i] = 1

\* A row never shows up twice in one listing, touched or not, except when its
\* key can move ahead of the scan: up by updated_at, or by a rank.
NoRowTwice ==
    \A w \in {scan[s] : s \in Scanners} :
      w.pc \in {"paging", "done"}
        /\ (w.list.by = "created" \/ (w.list.by = "updated" /\ w.list.down)) =>
          \A i \in Items : w.out[i] <= 1

\* Paging neither skips nor repeats a row (_apply_browse_keyset, browse.py,
\* and its likes in the other listings).
ListedOnce == QuietRowsListedOnce /\ NoRowTwice
=============================================================================
