------------------------------- MODULE EnvOps -------------------------------
(***************************************************************************)
(* Administration of whole environments (env_ops/): clone, merge, delete,  *)
(* snapshot, restore and migrate, beside callers who write memories.       *)
(*                                                                         *)
(* One operation runs at a time; callers do not wait for it.  Transactions *)
(* are READ COMMITTED: what an operation reads in one statement may be     *)
(* gone at the next.                                                       *)
(***************************************************************************)
EXTENDS Naturals, FiniteSets

CONSTANTS
    Environments,
    Started,    \* those that exist at the start
    MaxRows,    \* bound: memories ever inserted
    MaxVer,     \* bound: versions of a memory
    MaxOps,     \* bound: calls by callers
    MaxAdmin,   \* bound: operations
    AdminKinds  \* the operations of the instance

ASSUME StartedExist == Started \subseteq Environments
ASSUME EnvBounds == MaxRows \in Nat /\ MaxVer \in Nat /\ MaxOps \in Nat /\ MaxAdmin \in Nat

VARIABLES
    env,        \* env[e]: absent, active or deleted
    mem,        \* memories by id: environment, status, superseded_by, version
    kin,        \* memory_lineage: <<parent, child>>
    told,       \* outbox: <<memory, version>>, unique
    shots,      \* snapshots by environment: the archive [rows, kin, ext]
    writing,    \* environment of a memory_write that passed its check, or "none"
    op,         \* the running operation
    made,       \* ids given out
    opsLeft,    \* calls so far
    runs        \* operations so far

envRows == <<env, mem, kin, told, made>>
envVars == <<env, mem, kin, told, shots, writing, op, made, opsLeft, runs>>

Idle == [kind |-> "none"]
Row(e, s, v) == [env |-> e, status |-> s, by |-> 0, ver |-> v]
Stored == DOMAIN mem
In(e) == {m \in Stored : mem[m].env = e}
RowsIn(e) == [m \in In(e) |-> mem[m]]

\* Lineage with one end in S, with both.
Crossing(S) == {p \in kin : (p[1] \in S) # (p[2] \in S)}
Within(S) == {p \in kin : p[1] \in S /\ p[2] \in S}

\* Fresh ids for the memories S.
Remap(S) == [m \in S |-> made + Cardinality({x \in S : x <= m})]

\* The table after a change of the rows of DOMAIN rows.
Put(rows, table) == [m \in DOMAIN table \cup DOMAIN rows |->
                        IF m \in DOMAIN rows THEN rows[m] ELSE table[m]]
Drop(S, table) == [m \in DOMAIN table \ S |-> table[m]]
Dropped(S) == {p \in kin : p[1] \notin S /\ p[2] \notin S}

\* superseded_by is ON DELETE RESTRICT.
Held(S) == \E m \in Stored \ S : mem[m].by \in S

----------------------------------------------------------------------------
(* Callers *)

Calls == opsLeft < MaxOps /\ opsLeft' = opsLeft + 1 /\ UNCHANGED <<env, shots, op, runs>>

\* memory_write: the environment is checked, then the row is inserted.
BeginWrite(e) ==
    /\ writing = "none" /\ env[e] = "active"
    /\ writing' = e /\ Calls
    /\ UNCHANGED <<mem, kin, told, made>>

EndWrite ==
    /\ writing # "none" /\ made < MaxRows
    /\ mem' = Put([m \in {made + 1} |-> Row(writing, "active", 1)], mem)
    /\ told' = told \cup {<<made + 1, 1>>}
    /\ made' = made + 1 /\ writing' = "none"
    /\ UNCHANGED <<env, kin, shots, op, opsLeft, runs>>

\* Rows that a restore has deleted but not committed: callers wait for them.
BeingDeleted == IF op.kind = "restore" /\ op.at = "emptied" THEN op.gone ELSE {}

Bumps(m) == /\ m \in Stored \ BeingDeleted /\ mem[m].ver < MaxVer
            /\ <<m, mem[m].ver + 1>> \notin told

MemoryUpdate(m) ==
    /\ Bumps(m) /\ Calls
    /\ mem' = [mem EXCEPT ![m].ver = @ + 1]
    /\ told' = told \cup {<<m, mem[m].ver + 1>>}
    /\ UNCHANGED <<kin, writing, made>>

\* memory_supersede, and mem_move when d is another environment.
MemorySupersede(m, d) ==
    /\ Bumps(m) /\ Calls /\ mem[m].status = "active" /\ env[d] = "active"
    /\ made < MaxRows
    /\ mem' = Put([n \in {m, made + 1} |->
                     IF n = m THEN [mem[m] EXCEPT !.status = "superseded", !.ver = @ + 1,
                                                  !.by = made + 1]
                     ELSE Row(d, "active", 1)], mem)
    /\ kin' = kin \cup {<<m, made + 1>>}
    /\ told' = told \cup {<<m, mem[m].ver + 1>>, <<made + 1, 1>>}
    /\ made' = made + 1
    /\ UNCHANGED writing

MemoryHardDelete(m) ==
    /\ Bumps(m) /\ Calls /\ ~Held({m}) /\ Crossing({m}) = {}
    /\ mem' = Drop({m}, mem)
    /\ told' = told \cup {<<m, mem[m].ver + 1>>}
    /\ UNCHANGED <<kin, writing, made>>

----------------------------------------------------------------------------
(* Operations *)

BeginOp(kind, record) ==
    /\ op = Idle /\ kind \in AdminKinds /\ runs < MaxAdmin
    /\ runs' = runs + 1
    /\ op' = record
    /\ UNCHANGED <<shots, writing, opsLeft>>

\* The operation ends; an exception has rolled its transaction back.
EndsOp == op' = Idle /\ UNCHANGED <<writing, opsLeft, runs>>
Refused == EndsOp /\ UNCHANGED <<envRows, shots>>

\* _expand_supersession_chain: both ways along superseded_by; the rows are of
\* the environment e, their targets of any.
Chain(e, S) ==
    LET Wider(T) == T \cup {mem[m].by : m \in {x \in In(e) : (x \in T \/ mem[x].by \in T)
                                                            /\ mem[x].by # 0}}
                      \cup {x \in In(e) : mem[x].by \in T}
        round[k \in 0..made] == IF k = 0 THEN S ELSE Wider(round[k - 1])
    IN  round[made]

\* _expand_lineage_parents to the depth of one, of the seeds, in any environment.
Parents(S) == {p[1] : p \in {q \in kin : q[2] \in S}}

\* _resolve_closure: everything, or what the filter finds with what it needs.
Closure(e, filtered) ==
    LET seed == {m \in In(e) : mem[m].status = "active"}
    IN  IF filtered THEN Chain(e, seed) \cup Parents(seed) ELSE In(e)

\* A memory superseded by another is inserted as active, without its target.
Inserted(r, e) ==
    [env |-> e, status |-> IF r.status = "superseded" /\ r.by # 0 THEN "active" ELSE r.status,
     by |-> 0, ver |-> r.ver]


NoMap == [m \in {} |-> 0]
Copying(kind, s, d, filtered, cuts, ends) ==
    [kind |-> kind, src |-> s, dst |-> d, at |-> "rows", filtered |-> filtered,
     cuts |-> cuts,     \* allow_external_ref_rewrite
     ends |-> ends,     \* delete_src_after
     remap |-> NoMap, copies |-> NoMap]

\* env_clone: the new environment is committed before anything is read.
BeginClone(s, d, filtered) ==
    /\ env[s] = "active" /\ env[d] = "absent"
    /\ BeginOp("clone", Copying("clone", s, d, filtered, FALSE, FALSE))
    /\ env' = [env EXCEPT ![d] = "active"]
    /\ UNCHANGED <<mem, kin, told, made>>

\* env_merge: both environments are there, and no lineage of src reaches a
\* third one unless it is to be rewritten.
BeginEnvMerge(s, d, cuts, ends) ==
    /\ s # d /\ env[s] = "active" /\ env[d] = "active"
    /\ cuts \/ \A p \in Crossing(In(s)) : d \in {mem[p[1]].env, mem[p[2]].env}
    /\ BeginOp("merge", Copying("merge", s, d, FALSE, cuts, ends))
    /\ UNCHANGED envRows

\* _copy_closure, _copy_memories: the rows as they are now, not committed yet.
CopyRows ==
    /\ op.kind \in {"clone", "merge"} /\ op.at = "rows"
    /\ LET S == Closure(op.src, op.filtered) \cap Stored
       IN  /\ made + Cardinality(S) <= MaxRows
           /\ op' = [op EXCEPT !.at = "links", !.remap = Remap(S),
                               !.copies = [m \in S |-> Inserted(mem[m], op.dst)]]
           /\ made' = made + Cardinality(S)
    /\ UNCHANGED <<env, mem, kin, told, shots, writing, opsLeft, runs>>

Copied(m) == m \in DOMAIN op.remap
Image(m) == IF Copied(m) THEN op.remap[m] ELSE m

\* Mutant: statuses come from the first read, and targets without them.
Linked_FirstRead(m) == op.copies[m]

\* Status and target are read again; a target that was not copied is left out.
Linked(m) ==
    IF m \in Stored /\ mem[m].by # 0 /\ Copied(mem[m].by)
    THEN [op.copies[m] EXCEPT !.status = mem[m].status, !.by = op.remap[mem[m].by]]
    ELSE op.copies[m]

\* _rewrite_cross_env_lineage: edges between src and elsewhere move to the copy.
Recut == IF op.cuts THEN {p \in Crossing(In(op.src)) : Copied(p[1]) \/ Copied(p[2])} ELSE {}

CopyLinks ==
    /\ op.kind \in {"clone", "merge"} /\ op.at = "links"
    \* _copy_closure expects one row for each memory it copied
    /\ op.kind = "clone" => DOMAIN op.remap \subseteq Stored
    /\ mem' = Put([n \in {op.remap[m] : m \in DOMAIN op.remap} |->
                     Linked(CHOOSE m \in DOMAIN op.remap : op.remap[m] = n)], mem)
    /\ kin' = (kin \ Recut) \cup {<<Image(p[1]), Image(p[2])>> :
                                     p \in Within(DOMAIN op.remap) \cup Recut}
    /\ env' = IF op.ends THEN [env EXCEPT ![op.src] = "deleted"] ELSE env
    /\ EndsOp /\ UNCHANGED <<told, shots, made>>

CopyFails ==
    /\ op.kind = "clone" /\ op.at = "links" /\ ~(DOMAIN op.remap \subseteq Stored)
    /\ Refused

\* env_delete: references from other environments block it, unless they are to
\* be dropped.
BeginDelete(e, cascade) ==
    /\ env[e] = "active"
    /\ cascade \/ (~Held(In(e)) /\ Crossing(In(e)) = {})
    /\ BeginOp("delete", [kind |-> "delete", src |-> e, cascade |-> cascade])
    /\ UNCHANGED envRows

\* A superseded row must keep its target (memories_superseded_status_chk), so
\* that neither the cascade nor the DELETE gets past one in another environment.
DeleteRows ==
    /\ op.kind = "delete" /\ ~Held(In(op.src))
    /\ env' = [env EXCEPT ![op.src] = "deleted"]
    /\ mem' = Drop(In(op.src), mem)
    /\ kin' = Dropped(In(op.src))
    /\ told' = {t \in told : t[1] \notin In(op.src)}
    /\ shots' = [shots EXCEPT ![op.src] = {}]
    /\ EndsOp /\ UNCHANGED made

DeleteFails == op.kind = "delete" /\ Held(In(op.src)) /\ Refused

\* env_snapshot: the export in one transaction, ...
BeginSnapshot(e) ==
    /\ env[e] = "active"
    /\ BeginOp("snapshot", [kind |-> "snapshot", src |-> e,
                          rows |-> RowsIn(e), kin |-> Within(In(e))])
    /\ UNCHANGED envRows

\* ... the lineage to other environments in the next.
EndSnapshot ==
    /\ op.kind = "snapshot"
    /\ shots' = [shots EXCEPT ![op.src] =
                   {[rows |-> op.rows, kin |-> op.kin, ext |-> Crossing(In(op.src))]}]
    /\ EndsOp /\ UNCHANGED envRows

\* env_restore, replace_env_in_place: the live lineage is read, ...
BeginRestore(e) ==
    /\ env[e] = "active" /\ shots[e] # {}
    /\ BeginOp("restore", [kind |-> "restore", src |-> e, at |-> "read",
                          ext |-> Crossing(In(e)), gone |-> {}, upto |-> 0])
    /\ UNCHANGED envRows

OnlyOp == UNCHANGED <<envRows, shots, writing, opsLeft, runs>>

\* ... the DELETE sees the rows committed by now (nothing locks the environment,
\* and callers write on), ...
BeginEmptying ==
    /\ op.kind = "restore" /\ op.at = "read"
    /\ op' = [op EXCEPT !.at = "emptying", !.gone = In(op.src), !.upto = made]
    /\ OnlyOp

\* ... waits for callers who are changing one of them, ...
EndEmptying ==
    /\ op.kind = "restore" /\ op.at = "emptying" /\ ~Held(op.gone)
    /\ op' = [op EXCEPT !.at = "emptied"]
    /\ OnlyOp

Shot == CHOOSE s \in shots[op.src] : TRUE
There == (Stored \ op.gone) \cup DOMAIN Shot.rows
Back(E) == {p \in E : p[1] \in There /\ p[2] \in There}

\* ... and the archive's rows and lineage are inserted, and what was read of
\* the lineage, before all of it is committed.
RestoreWorks ==
    /\ \A m \in DOMAIN Shot.rows : Shot.rows[m].by \in There \cup {0}
    /\ Back(Shot.ext) \cap Back(op.ext) = {}

RestoreRows ==
    /\ op.kind = "restore" /\ op.at = "emptied" /\ RestoreWorks
    /\ mem' = Put(Shot.rows, Drop(op.gone, mem))
    /\ kin' = Dropped(op.gone) \cup Shot.kin \cup Back(Shot.ext) \cup Back(op.ext)
    /\ EndsOp /\ UNCHANGED <<env, told, shots, made>>

RestoreFails ==
    /\ op.kind = "restore"
    /\ \/ op.at = "emptying" /\ Held(op.gone)
       \/ op.at = "emptied" /\ ~RestoreWorks
    /\ Refused

\* env_import, env_restore to a new environment: in one transaction.
Import(e, d) ==
    /\ shots[e] # {} /\ env[d] = "absent"
    /\ op = Idle /\ "import" \in AdminKinds /\ runs < MaxAdmin /\ runs' = runs + 1
    /\ \E s \in shots[e] :
          LET S == DOMAIN s.rows
              map == Remap(S)
              row(m) == IF s.rows[m].by \in S
                        THEN [s.rows[m] EXCEPT !.env = d, !.by = map[@]]
                        ELSE Inserted(s.rows[m], d)
          IN  /\ made + Cardinality(S) <= MaxRows
              /\ made' = made + Cardinality(S)
              /\ mem' = Put([n \in {map[m] : m \in S} |->
                               row(CHOOSE m \in S : map[m] = n)], mem)
              /\ kin' = kin \cup {<<map[p[1]], map[p[2]]>> : p \in s.kin}
    /\ env' = [env EXCEPT ![d] = "active"]
    /\ UNCHANGED <<told, shots, writing, op, opsLeft>>

----------------------------------------------------------------------------
(* Migration, memory by memory *)

BeginMigrate(s, d, moves, edges) ==
    /\ s # d /\ env[s] = "active" /\ env[d] = "active"
    /\ LET S == Chain(s, {m \in In(s) : mem[m].status \in {"active", "superseded"}})
       IN  BeginOp("migrate", [kind |-> "migrate", src |-> s, dst |-> d, moves |-> moves,
                             edges |-> edges,   \* create_lineage_edges
                             todo |-> S, heir |-> [m \in S |-> mem[m].by], remap |-> NoMap])
    /\ UNCHANGED envRows

\* _order_for_chain: the furthest from the end of its chain goes first.
Before(m, n) == op.heir[n] = m

\* mem_copy, mem_move: both environments exist and differ; a move bumps its source.
Movable(m) == /\ m \in Stored /\ mem[m].env # op.dst /\ env[mem[m].env] = "active"
              /\ op.moves => Bumps(m)

\* The loop over the ordered memories reaches m.
Turn(m) == op.kind = "migrate" /\ m \in op.todo /\ ~\E n \in op.todo : Before(m, n)

\* A copy that is active, in a transaction of its own.
MigrateOne(m) ==
    /\ Turn(m) /\ Movable(m) /\ made < MaxRows
    /\ mem' = Put([n \in {m, made + 1} |->
                     IF n = made + 1 THEN Row(op.dst, "active", 1)
                     ELSE IF op.moves THEN [mem[m] EXCEPT !.status = "superseded", !.ver = @ + 1,
                                                          !.by = made + 1]
                     ELSE mem[m]], mem)
    /\ kin' = IF op.edges THEN kin \cup {<<m, made + 1>>} ELSE kin
    /\ told' = told \cup {<<made + 1, 1>>}
                    \cup (IF op.moves THEN {<<m, mem[m].ver + 1>>} ELSE {})
    /\ made' = made + 1
    /\ op' = [op EXCEPT !.todo = @ \ {m}, !.remap = Put([n \in {m} |-> made + 1], @)]
    /\ UNCHANGED <<env, shots, writing, opsLeft, runs>>

\* It is reported and left out.
MigrateFails(m) ==
    /\ Turn(m) /\ ~Movable(m)
    /\ op' = [op EXCEPT !.todo = @ \ {m}]
    /\ UNCHANGED <<envRows, shots, writing, opsLeft, runs>>

\* The copies that get a copy as their target, each with its original.
Rechained == {m \in DOMAIN op.remap : Copied(op.heir[m]) /\ op.remap[m] \in Stored}
OpTargets == {op.remap[op.heir[m]] : m \in Rechained}

\* _restore_dst_supersession_chain: by id alone, and without an event.
RestoreChain ==
    /\ op.kind = "migrate" /\ op.todo = {} /\ OpTargets \subseteq Stored
    /\ mem' = Put([n \in {op.remap[m] : m \in Rechained} |->
                     LET m == CHOOSE x \in Rechained : op.remap[x] = n
                     IN  [mem[n] EXCEPT !.status = "superseded", !.by = op.remap[op.heir[m]]]],
                  mem)
    /\ EndsOp /\ UNCHANGED <<env, kin, told, shots, made>>

ChainFails == op.kind = "migrate" /\ op.todo = {} /\ ~(OpTargets \subseteq Stored) /\ Refused

----------------------------------------------------------------------------
EnvInit ==
    /\ env = [e \in Environments |-> IF e \in Started THEN "active" ELSE "absent"]
    /\ mem = NoMap /\ kin = {} /\ told = {}
    /\ shots = [e \in Environments |-> {}]
    /\ writing = "none" /\ op = Idle /\ made = 0 /\ opsLeft = 0 /\ runs = 0

Call == \/ EndWrite
        \/ \E e \in Environments : BeginWrite(e)
        \/ \E m \in Stored : MemoryUpdate(m)
        \/ \E m \in Stored : MemoryHardDelete(m)
        \/ \E m \in Stored, d \in Environments : MemorySupersede(m, d)

Starts == \/ \E s, d \in Environments, f \in BOOLEAN : BeginClone(s, d, f)
          \/ \E s, d \in Environments, cuts, ends \in BOOLEAN : BeginEnvMerge(s, d, cuts, ends)
          \/ \E e \in Environments, cascade \in BOOLEAN : BeginDelete(e, cascade)
          \/ \E e \in Environments : BeginSnapshot(e)
          \/ \E e \in Environments : BeginRestore(e)
          \/ \E e, d \in Environments : Import(e, d)
          \/ \E s, d \in Environments, moves, edges \in BOOLEAN :
               BeginMigrate(s, d, moves, edges)

Continues == \/ CopyRows \/ CopyLinks \/ CopyFails
             \/ DeleteRows \/ DeleteFails
             \/ EndSnapshot
             \/ BeginEmptying \/ EndEmptying \/ RestoreRows \/ RestoreFails
             \/ \E m \in Stored \cup 1..made : MigrateOne(m) \/ MigrateFails(m)
             \/ RestoreChain \/ ChainFails

EnvNext == Call \/ Starts \/ Continues

EnvSpec == EnvInit /\ [][EnvNext]_envVars /\ WF_envVars(Continues)

----------------------------------------------------------------------------
(* Properties *)

\* A restore in place that commits brings back each row of the archive at its
\* version, with the lineage among them.  What else is in the environment then,
\* callers wrote after it began to be emptied; it and the rows of others stay as
\* they are.
RestoreIsSnapshot ==
    op.kind = "restore" /\ op' = Idle /\ mem' # mem =>
        /\ \A m \in DOMAIN Shot.rows : m \in DOMAIN mem' /\ mem'[m] = Shot.rows[m]
        /\ {p \in kin' : p[1] \in DOMAIN Shot.rows /\ p[2] \in DOMAIN Shot.rows} = Shot.kin
        /\ \A m \in DOMAIN mem' \ DOMAIN Shot.rows :
              /\ m \in Stored /\ mem'[m] = mem[m]
              /\ mem'[m].env = op.src => m > op.upto

\* What a clone or a merge commits stands for its source as it is then: where
\* the source follows superseded_by or lineage to a copied memory, the copies do
\* the same with the same status, though the source changed between the reads.
CopiesFollowSource ==
    op.kind \in {"clone", "merge"} /\ op.at = "links" /\ op' = Idle /\ mem' # mem =>
        \A m \in DOMAIN op.remap \cap Stored :
            /\ mem[m].by # 0 /\ Copied(mem[m].by) =>
                  /\ mem'[op.remap[m]].by = op.remap[mem[m].by]
                  /\ mem'[op.remap[m]].status = mem[m].status
            /\ \A n \in DOMAIN op.remap \cap Stored :
                  <<m, n>> \in kin => <<op.remap[m], op.remap[n]>> \in kin'

(* env_restore brings the archive back and keeps what callers wrote since it  *)
(* emptied the environment, and nothing older; env_clone and env_merge copy   *)
(* what the source is when they commit (env_ops/).                            *)
EnvCopiesAreFaithful == [][RestoreIsSnapshot /\ CopiesFollowSource]_envVars

(* The inductive invariant behind the proofs (MemoryStoreProofs).             *)
IsRow(r) == DOMAIN r = {"env", "status", "by", "ver"}
EnvTyped ==
    /\ made \in Nat /\ Stored \subseteq 1..made
    /\ \A m \in Stored : IsRow(mem[m])
    /\ DOMAIN shots = Environments
    /\ \A p \in kin : p[1] \in Stored /\ p[2] \in Stored /\ p[1] # p[2]

\* rows and edges of e, read in one transaction: a memory never changes its
\* environment, so what is left of the rows is in e.
IsArchive(e, rows, edges) ==
    /\ DOMAIN rows \subseteq 1..made
    /\ \A m \in DOMAIN rows : /\ IsRow(rows[m]) /\ rows[m].env = e
                              /\ m \in Stored => mem[m].env = e
    /\ \A p \in edges : p[1] \in DOMAIN rows /\ p[2] \in DOMAIN rows /\ p[1] # p[2]

\* Edges that leave the environment of rows.
LeadElsewhere(ext, rows) ==
    \A p \in ext : p[1] # p[2] /\ ~(p[1] \in DOMAIN rows /\ p[2] \in DOMAIN rows)

Archived(e) == UNION {DOMAIN s.rows : s \in shots[e]}

(* No memory is in the archives of two environments, though its row be gone. *)
ArchivesHold ==
    \A e \in Environments :
        /\ \A s \in shots[e] : IsArchive(e, s.rows, s.kin) /\ LeadElsewhere(s.ext, s.rows)
        /\ \A f \in Environments \ {e} : Archived(e) \cap Archived(f) = {}

\* The ids that a copy gave out are of nobody else yet.
CopyFits ==
    /\ DOMAIN op = {"kind", "src", "dst", "at", "filtered", "cuts", "ends", "remap", "copies"}
    /\ op.at = "links" =>
        /\ DOMAIN op.copies = DOMAIN op.remap
        /\ \A m \in DOMAIN op.remap : /\ IsRow(op.copies[m])
                                      /\ op.remap[m] \in 1..made \ Stored
                                      /\ \A e \in Environments : op.remap[m] \notin Archived(e)
        /\ \A m, n \in DOMAIN op.remap : op.remap[m] = op.remap[n] => m = n

\* A restore deletes what the environment had; what came since has newer ids,
\* and nothing of it is in the archive.
RestoreFits ==
    /\ DOMAIN op = {"kind", "src", "at", "ext", "gone", "upto"}
    /\ op.src \in Environments /\ shots[op.src] # {}
    /\ LeadElsewhere(op.ext, Shot.rows)
    /\ op.at # "read" =>
        /\ op.upto \in 0..made /\ DOMAIN Shot.rows \subseteq 1..op.upto
        /\ op.gone \subseteq 1..op.upto
        /\ \A m \in Stored : (mem[m].env = op.src /\ m <= op.upto) <=> m \in op.gone

(* What the operation under way has read is of the source as it was.         *)
OperationFits ==
    \/ op = Idle
    \/ op.kind \in {"clone", "merge"} /\ CopyFits
    \/ op.kind = "delete" /\ op.src \in Environments
    \/ /\ op.kind = "snapshot" /\ op.src \in Environments
       /\ IsArchive(op.src, op.rows, op.kin)
       /\ \A f \in Environments \ {op.src} : DOMAIN op.rows \cap Archived(f) = {}
    \/ op.kind = "restore" /\ RestoreFits
    \/ /\ op.kind = "migrate"
       /\ DOMAIN op = {"kind", "src", "dst", "moves", "edges", "todo", "heir", "remap"}

EnvInv == EnvTyped /\ ArchivesHold /\ OperationFits
=============================================================================
