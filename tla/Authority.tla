------------------------------ MODULE Authority ------------------------------
(***************************************************************************)
(* The later legs of the recount pass (dream/passes/recount.py): the       *)
(* authority of a memory is the sum of the saliences of those that cite    *)
(* it, and enters its own salience, which enters the authority of those it *)
(* cites. Rows whose authority moved, and the oldest rows scored under an  *)
(* earlier formula, are scored again, each in a transaction of its own.    *)
(* (The counters' leg is in Popularity.)                                   *)
(***************************************************************************)
EXTENDS Integers, FiniteSets, FiniteSetsExt

CONSTANTS
    RankedRows,      \* memories, by (created_at, id)
    FirstQuotes,     \* citations there at first: <<citer, cited, kind>>
    NewQuotes,       \* bound: citations that may be added
    BaseScores,      \* bound: what the other terms of a salience may come to
    AuthorityShare,  \* how many units of authority make one of salience
    Damping,         \* <<n, d>>: dream_popularity_authority_damping = n / d
    RestampCap,      \* dream_recount_salience_recompute_cap (0: no cap)
    MaxTurmoil       \* bound: changes by others

AuthorityKinds == {"rel_link", "lineage", "playbook"}

ASSUME DampingIsFraction == Damping[1] \in 1..Damping[2]
ASSUME ShareIsPositive == AuthorityShare \in Nat \ {0}

VARIABLES
    standingRow,  \* the committed row: [live, ver, base, authority, salience, stamped]
                  \* (versions modulo 4: fewer changes fit between a read and its write)
    quotes,       \* committed citations
    recount,      \* the pass
    turmoil       \* changes by others so far

authVars == <<standingRow, quotes, recount, turmoil>>

NoAuthority == [k \in AuthorityKinds |-> 0]
NoRecount == [at |-> "idle", sal |-> [m \in RankedRows |-> 0], live |-> {}, targets |-> {},
              snap |-> [m \in RankedRows |-> 0]]

LiveRanked == {m \in RankedRows : standingRow[m].live}
TotalOf(a) == MapThenSumSet(LAMBDA k : a[k], AuthorityKinds)
SalienceOf(base, a) == base + (TotalOf(a) \div AuthorityShare)

----------------------------------------------------------------------------
(* The authority leg *)

\* Rounded to the column's scale, ties to even.
Quantized(n, d) ==
    LET q == n \div d
        r == 2 * (n % d)
    IN  IF r > d \/ (r = d /\ q % 2 = 1) THEN q + 1 ELSE q

CurrentAuthority(m) == standingRow[m].authority

\* _blend, for one kind.
Blend(have, want) ==
    Quantized(((Damping[2] - Damping[1]) * have) + (Damping[1] * want), Damping[2])

\* Active citers, without the memory itself.
Citers(m, k) == {x \in recount.live : <<x, m, k>> \in quotes /\ x # m}

\* _recompute_authority: from the saliences as they were read at the start.
CanonicalAuthority(m, k) == MapThenSumSet(LAMBDA x : recount.sal[x], Citers(m, k))

BlendedAuthority(m) ==
    [k \in AuthorityKinds |-> Blend(CurrentAuthority(m)[k], CanonicalAuthority(m, k))]

Moving == {m \in RankedRows : BlendedAuthority(m) # CurrentAuthority(m)}

PassStep(r) == recount' = r /\ UNCHANGED <<quotes, turmoil>>

\* _load_active_memory_salience
LoadCiters ==
    /\ recount.at = "idle"
    /\ PassStep([NoRecount EXCEPT !.at = "authority", !.live = LiveRanked,
                     !.sal = [m \in RankedRows |-> standingRow[m].salience]])
    /\ UNCHANGED standingRow

\* The UPDATEs and the commit; the version does not change.
ApplyAuthority ==
    /\ recount.at = "authority"
    /\ standingRow' = [m \in RankedRows |->
                         [standingRow[m] EXCEPT !.authority = BlendedAuthority(m)]]
    /\ PassStep([recount EXCEPT !.at = "backlog", !.targets = Moving])

----------------------------------------------------------------------------
(* The formula's backlog, and the scoring *)

Outdated == {m \in LiveRanked : ~standingRow[m].stamped}

\* _load_formula_version_mismatched: the oldest first, up to the cap.
Backlog ==
    IF RestampCap = 0 THEN Outdated
    ELSE {m \in Outdated : Cardinality({x \in Outdated : x < m}) < RestampCap}

LoadBacklog ==
    /\ recount.at = "backlog"
    /\ PassStep([recount EXCEPT !.at = "read", !.targets = @ \cup Backlog])
    /\ UNCHANGED standingRow

\* The inputs and versions of the active targets.
ReadTargets ==
    /\ recount.at = "read"
    /\ PassStep([recount EXCEPT !.at = "score", !.targets = @ \cap LiveRanked,
                                   !.snap = standingRow])
    /\ UNCHANGED standingRow

\* memory_update with the expected version: salience and stamp together, or a
\* conflict that leaves the row for a later pass.
ScoreTarget(m) ==
    /\ recount.at = "score" /\ m \in recount.targets
    /\ LET row == recount.snap[m]
       IN  standingRow' = IF row.ver # standingRow[m].ver THEN standingRow
                          ELSE [standingRow EXCEPT
                                  ![m].salience = SalienceOf(row.base, row.authority),
                                  ![m].stamped = TRUE, ![m].ver = (@ + 1) % 4]
    /\ PassStep([recount EXCEPT !.targets = @ \ {m}])

EndAuthority ==
    /\ recount.at = "score" /\ recount.targets = {}
    /\ PassStep(NoRecount)
    /\ UNCHANGED standingRow

----------------------------------------------------------------------------
(* Others *)

Stirred == turmoil < MaxTurmoil /\ turmoil' = turmoil + 1 /\ UNCHANGED recount

\* memory_update: other inputs, and a new version.
ChangeInputs(m) ==
    /\ \E b \in BaseScores :
          standingRow' = [standingRow EXCEPT ![m].base = b, ![m].ver = (@ + 1) % 4]
    /\ Stirred /\ UNCHANGED quotes

\* memory_get: the salience of the row as it is, by id, without a version.
ReadRanked(m) ==
    /\ m \in LiveRanked
    /\ standingRow' = [standingRow EXCEPT
                          ![m].salience = SalienceOf(standingRow[m].base, standingRow[m].authority)]
    /\ Stirred /\ UNCHANGED quotes

RetireRanked(m) ==
    /\ m \in LiveRanked
    /\ standingRow' = [standingRow EXCEPT ![m].live = FALSE, ![m].ver = (@ + 1) % 4]
    /\ Stirred /\ UNCHANGED quotes

Quote(e) ==
    /\ e \notin quotes /\ quotes' = quotes \cup {e}
    /\ Stirred /\ UNCHANGED standingRow

----------------------------------------------------------------------------
\* Rows of before the formula changed.
AuthInit ==
    /\ \E b \in BaseScores :
          standingRow = [m \in RankedRows |-> [live |-> TRUE, ver |-> 0, base |-> b, salience |-> b,
                                           authority |-> NoAuthority, stamped |-> FALSE]]
    /\ quotes = FirstQuotes
    /\ recount = NoRecount
    /\ turmoil = 0

AuthorityPass ==
    LoadCiters \/ ApplyAuthority \/ LoadBacklog \/ ReadTargets \/ EndAuthority
        \/ \E m \in RankedRows : ScoreTarget(m)

AuthNext ==
    \/ AuthorityPass
    \/ \E m \in RankedRows : ChangeInputs(m) \/ ReadRanked(m) \/ RetireRanked(m)
    \/ \E e \in NewQuotes : Quote(e)

(* The scheduler starts the pass again and again.                           *)
AuthFairness == WF_authVars(AuthorityPass)
AuthSpec == AuthInit /\ [][AuthNext]_authVars /\ AuthFairness

----------------------------------------------------------------------------
(* Properties *)

(* Every authority is within one unit of the sum of its active citers'      *)
(* saliences.                                                               *)
AuthorityAtRest ==
    \A m \in RankedRows : \A k \in AuthorityKinds :
        LET want == MapThenSumSet(LAMBDA x : standingRow[x].salience,
                                  {x \in LiveRanked : <<x, m, k>> \in quotes /\ x # m})
            have == standingRow[m].authority[k]
        IN  have \in (want - 1)..(want + 1)

(* Every active memory was scored by the formula of now.                    *)
AllStamped == \A m \in LiveRanked : standingRow[m].stamped
=============================================================================
