-------------------------------- MODULE Mvcc --------------------------------
(***************************************************************************)
(* Transactions over the table rows of the unified store: the connections  *)
(* of the server run BEGIN, SAVEPOINT, UPDATE, DELETE, INSERT, COMMIT and  *)
(* ROLLBACK against a store of row versions stamped with xids, while the   *)
(* autovacuum worker reclaims versions.  Composes SnapshotManager with     *)
(* TransactionState (reddb-engine, transaction/state.rs), the transaction  *)
(* control and conflict check of the runtime (impl_core.rs,                *)
(* mvcc_lifecycle.rs), its DML paths, and the reclaimer (mvcc_reclaim.rs). *)
(*                                                                         *)
(* A statement is several steps, one per critical section; the phase of a  *)
(* connection says which it has reached.  With Serial, statements of       *)
(* different connections do not overlap (transactions still do).           *)
(***************************************************************************)
EXTENDS Integers, Sequences, SequencesExt, FiniteSets, FiniteSetsExt

CONSTANTS
    Conns,                  \* connections
    InitialRows,            \* rows the store holds when the server starts
    MaxId,                  \* bound: entity ids handed out
    MaxTombstones,          \* bound: pending tombstones of a connection
    Serial,                 \* TRUE: no two statements overlap
    Autocommit,             \* TRUE: connections also write outside transactions
    RollsBackReleased,      \* TRUE: clients also roll back to a savepoint around
                            \* one that they have released
    MaxXid, AutocommitPoolBatch, MaxCaptures, MaxPins, VacuumRetention

ASSUME StoreAssumption == InitialRows \in Nat /\ MaxId \in Nat /\ InitialRows <= MaxId
                           /\ MaxTombstones \in Nat
ASSUME ModeAssumption == Serial \in BOOLEAN /\ Autocommit \in BOOLEAN
                           /\ RollsBackReleased \in BOOLEAN
ASSUME ManagerAssumption == MaxXid \in Nat \ {0} /\ AutocommitPoolBatch \in Nat \ {0}
                              /\ MaxCaptures \in Nat /\ MaxPins \in Nat
                              /\ VacuumRetention \in Nat
ASSUME ConnsAssumption == IsFiniteSet(Conns) /\ "none" \notin Conns

VARIABLES
    \* The snapshot manager (module SnapshotManager); frames belong to
    \* connections, which run one statement at a time.
    next_xid, pool_next, pool_end, active, aborted, snapshot_horizons,
    statement_horizons, pinned, held, frame, vac_next, vac_cutoff, begun,
    \* The server.
    store,       \* entity id -> version of a table row
    next_id,     \* the next entity id
    ctx,         \* contexts: each connection's TxnContext
    updates,     \* pending_versioned_updates of each connection
    tombstones,  \* pending_tombstones of each connection
    lock,        \* holder of the store's vault_publication_lock
    phase,       \* how far each connection's statement has come
    todo,        \* xids the statement has still to commit or to abort
    buf,         \* the pre-image a write has cloned, its new id and its xid
    \* History.
    view,        \* entity ids each transaction saw at BEGIN
    base,        \* those of them that were the last committed version of a row
    latest,      \* logical row -> entity id of its last committed version
    wrote        \* committed writes: row, xid and kind

Manager == INSTANCE SnapshotManager WITH Frames <- Conns

managerVars == <<next_xid, pool_next, pool_end, active, aborted, snapshot_horizons,
                 statement_horizons, pinned, held, frame, vac_next, vac_cutoff, begun>>
txnVars == <<ctx, updates, tombstones>>
stmtVars == <<lock, phase, todo, buf>>
history == <<view, base, latest, wrote>>
vars == <<managerVars, store, next_id, txnVars, stmtVars, history>>

-----------------------------------------------------------------------------
XID_NONE == 0
NoConn == "none"
Ids == 1..MaxId

\* Versions of one logical row share logical, the id of its first version.
Version == [logical : Ids, xmin : 0..MaxXid, xmax : 0..MaxXid]

NoSnapshot == [xid |-> 0, in_progress |-> {}, owner |-> XID_NONE]
NoContext == [xid |-> XID_NONE, snapshot |-> NoSnapshot, savepoints |-> <<>>, released |-> <<>>]
NoBuf == [id |-> 0, new |-> 0, xid |-> XID_NONE, old |-> [logical |-> 0, xmin |-> 0, xmax |-> 0]]

in_transaction(c) == ctx[c].xid # XID_NONE

\* TxnContext::writer_xid: the innermost open savepoint, or the parent.
writer_xid(c) ==
    IF ctx[c].savepoints = <<>> THEN ctx[c].xid ELSE Last(ctx[c].savepoints)

\* The order in which commit and rollback_context visit the xids.
ending_xids(c) == ctx[c].savepoints \o ctx[c].released \o <<ctx[c].xid>>

own_xids(c) == IF in_transaction(c) THEN ToSet(ending_xids(c)) ELSE {}

visible(s, own, v) == Manager!visibility_check(s, own, v.xmin, v.xmax)

\* The versions a scan under the snapshot returns (resolve_candidate).
scan(s, own) == {id \in DOMAIN store : visible(s, own, store[id])}
transaction_scan(c) == scan(ctx[c].snapshot, own_xids(c))
fresh_scan == scan(Manager!fresh_read_snapshot, {})

\* resolve_logical_id: of a row's visible versions, one with the highest xmin.
newest(ids) == {i \in ids : \A j \in ids :
                   store[j].logical = store[i].logical => store[j].xmin <= store[i].xmin}

-----------------------------------------------------------------------------
(* Stamps, undo and the conflict check.                                    *)

\* revive_versioned_update: drop the new version, give the old one the stamp
\* it had before, unless somebody has stamped it since.
revive_tombstone(st, e) ==
    IF e.id \in DOMAIN st /\ st[e.id].xmax = e.xid
    THEN [st EXCEPT ![e.id].xmax = e.previous_xmax] ELSE st
revive_versioned_update(st, e) ==
    revive_tombstone([id \in DOMAIN st \ {e.new} |-> st[id]], e)

\* The positions in c's undo journal that a rollback under way has to undo:
\* those stamped at or after the least of the xids it will abort.
pending_since(c, pending) ==
    {i \in DOMAIN pending : pending[i].xid >= Min(ToSet(todo[c]))}

\* restore_pending_write_stamps: of the updates and then of the tombstones,
\* the last entry for a version leaves its stamp.
last_stamp(pending, id, otherwise) ==
    LET at == {i \in DOMAIN pending : pending[i].id = id}
    IN  IF at = {} THEN otherwise ELSE pending[Max(at)].xid
restored_stamps(c) ==
    [id \in DOMAIN store |->
        [store[id] EXCEPT !.xmax = last_stamp(tombstones[c], id, last_stamp(updates[c], id, @))]]

\* Mutant: a writer in flight at BEGIN that has committed since is no conflict.
bug_conflicting(c, x) ==
    /\ x # XID_NONE /\ x \notin own_xids(c)
    /\ x \notin aborted /\ x \notin active
    /\ x > ctx[c].snapshot.xid

\* xid_conflicts_with_snapshot: committed, but not in c's snapshot.
conflicting(c, x) ==
    /\ x # XID_NONE /\ x \notin own_xids(c)
    /\ x \notin aborted /\ x \notin active
    /\ x > ctx[c].snapshot.xid \/ x \in ctx[c].snapshot.in_progress

\* check_table_row_write_conflicts, for one pending entry: the stamp it
\* replaced, the stamp there now, and every other version of the row.
entry_conflicts(c, e, excluded) ==
    /\ e.id \in DOMAIN store
    /\ \/ conflicting(c, e.previous_xmax)
       \/ store[e.id].xmax # e.xid /\ conflicting(c, store[e.id].xmax)
       \/ \E id \in DOMAIN store \ excluded :
             /\ store[id].logical = store[e.id].logical
             /\ conflicting(c, store[id].xmin) \/ conflicting(c, store[id].xmax)

check_table_row_write_conflicts(c) ==
    \/ \E e \in ToSet(updates[c]) : entry_conflicts(c, e, {e.id, e.new})
    \/ \E e \in ToSet(tombstones[c]) : entry_conflicts(c, e, {e.id})

-----------------------------------------------------------------------------
Init ==
    /\ Manager!Init
    /\ store = [id \in 1..InitialRows |-> [logical |-> id, xmin |-> XID_NONE, xmax |-> XID_NONE]]
    /\ next_id = InitialRows + 1
    /\ ctx = [c \in Conns |-> NoContext]
    /\ updates = [c \in Conns |-> <<>>] /\ tombstones = [c \in Conns |-> <<>>]
    /\ lock = NoConn
    /\ phase = [c \in Conns |-> "idle"]
    /\ todo = [c \in Conns |-> <<>>]
    /\ buf = [c \in Conns |-> NoBuf]
    /\ view = [c \in Conns |-> {}] /\ base = [c \in Conns |-> {}]
    /\ latest = [r \in Ids |-> IF r <= InitialRows THEN r ELSE 0]
    /\ wrote = {}

\* The connection may start a statement.
Ready(c) ==
    /\ phase[c] = "idle"
    /\ Serial => \A d \in Conns : phase[d] = "idle"
ReadyInTransaction(c) == Ready(c) /\ in_transaction(c)

Goto(c, p) == phase' = [phase EXCEPT ![c] = p]

ForgetView(c) == view' = [view EXCEPT ![c] = {}] /\ base' = [base EXCEPT ![c] = {}]

TakeId == next_id <= MaxId /\ next_id' = next_id + 1

\* The store st with a version of row r, written by x, under a new id.
with_version(st, new, r, x) ==
    [id \in DOMAIN st \cup {new} |->
        IF id = new THEN [logical |-> r, xmin |-> x, xmax |-> XID_NONE] ELSE st[id]]

\* install_versioned_table_row_update: the clone, stamped, replaces the old
\* version and the new one enters the store.
Install(b) ==
    /\ b.id \in DOMAIN store
    /\ store' = with_version([store EXCEPT ![b.id] = [b.old EXCEPT !.xmax = b.xid]],
                             b.new, b.old.logical, b.xid)

-----------------------------------------------------------------------------
(* Transaction control (TransactionState and TxnControl).                  *)

\* BEGIN: begin(), then snapshot(xid), then the context appears.
Begin(c) ==
    /\ Ready(c) /\ ~ in_transaction(c)
    /\ Manager!begin
    /\ ctx' = [ctx EXCEPT ![c].xid = next_xid]
    /\ Goto(c, "begun")
    /\ UNCHANGED <<store, next_id, updates, tombstones, lock, todo, buf, history>>

Capture(c) ==
    LET snap == Manager!captured_snapshot(ctx[c].xid)
    IN  /\ phase[c] = "begun"
        /\ Manager!snapshot(ctx[c].xid)
        /\ ctx' = [ctx EXCEPT ![c].snapshot = snap]
        /\ view' = [view EXCEPT ![c] = scan(snap, {ctx[c].xid})]
        /\ base' = [base EXCEPT ![c] = view'[c] \cap {latest[r] : r \in Ids}]
        /\ Goto(c, "idle")
        /\ UNCHANGED <<store, next_id, updates, tombstones, lock, todo, buf, latest, wrote>>

Savepoint(c) ==
    /\ ReadyInTransaction(c)
    /\ Manager!begin
    /\ ctx' = [ctx EXCEPT ![c].savepoints = Append(@, next_xid)]
    /\ UNCHANGED <<store, next_id, updates, tombstones, stmtVars, history>>

Release(c) ==
    /\ ReadyInTransaction(c)
    /\ \E i \in 1..Len(ctx[c].savepoints) :
          ctx' = [ctx EXCEPT ![c].savepoints = SubSeq(@, 1, i - 1),
                             ![c].released = @ \o SubSeq(ctx[c].savepoints, i,
                                                         Len(ctx[c].savepoints))]
    /\ UNCHANGED <<managerVars, store, next_id, updates, tombstones, stmtVars, history>>

\* ROLLBACK TO: take the savepoint and those above it off the stack, undo
\* their writes, then abort their xids.  The xid of a savepoint that was
\* released inside the one rolled back to is not among them.
RollbackTo(c) ==
    /\ ReadyInTransaction(c)
    /\ \E i \in 1..Len(ctx[c].savepoints) :
          /\ ~ RollsBackReleased => \A x \in ToSet(ctx[c].released) : x < ctx[c].savepoints[i]
          /\ ctx' = [ctx EXCEPT ![c].savepoints = SubSeq(@, 1, i - 1)]
          /\ todo' = [todo EXCEPT ![c] = SubSeq(ctx[c].savepoints, i,
                                                Len(ctx[c].savepoints))]
    /\ Goto(c, "undoing")
    /\ UNCHANGED <<managerVars, store, next_id, updates, tombstones, lock, buf, history>>

\* ROLLBACK undoes everything while the xids are still active.
Rollback(c) ==
    /\ ReadyInTransaction(c)
    /\ todo' = [todo EXCEPT ![c] = ending_xids(c)]
    /\ Goto(c, "undoing")
    /\ UNCHANGED <<managerVars, store, next_id, txnVars, lock, buf, history>>

\* One update is undone, newest first; deleting its new version takes the
\* publication lock.
UndoUpdate(c) ==
    /\ phase[c] = "undoing"
    /\ lock = NoConn
    /\ pending_since(c, updates[c]) # {}
    /\ LET i == Max(pending_since(c, updates[c]))
       IN  /\ store' = revive_versioned_update(store, updates[c][i])
           /\ updates' = [updates EXCEPT ![c] = RemoveAt(@, i)]
    /\ UNCHANGED <<managerVars, next_id, ctx, tombstones, stmtVars, history>>

\* Then one tombstone, oldest first.
UndoTombstone(c) ==
    /\ phase[c] = "undoing"
    /\ pending_since(c, updates[c]) = {}
    /\ pending_since(c, tombstones[c]) # {}
    /\ LET i == Min(pending_since(c, tombstones[c]))
       IN  /\ store' = revive_tombstone(store, tombstones[c][i])
           /\ tombstones' = [tombstones EXCEPT ![c] = RemoveAt(@, i)]
    /\ UNCHANGED <<managerVars, next_id, ctx, updates, stmtVars, history>>

\* Then the manager aborts the xids one by one; the parent's is the last of a
\* transaction.
AbortXid(c) ==
    LET x == Head(todo[c])
    IN  /\ phase[c] = "undoing"
        /\ pending_since(c, updates[c]) = {} /\ pending_since(c, tombstones[c]) = {}
        /\ Manager!rollback(x)
        /\ todo' = [todo EXCEPT ![c] = Tail(@)]
        /\ Goto(c, IF Tail(todo[c]) = <<>> THEN "idle" ELSE "undoing")
        /\ IF x = ctx[c].xid
           THEN ctx' = [ctx EXCEPT ![c] = NoContext] /\ ForgetView(c)
           ELSE UNCHANGED <<ctx, view, base>>
        /\ UNCHANGED <<store, next_id, updates, tombstones, lock, buf, latest, wrote>>

\* COMMIT, first part: the conflict check, before the publication lock.
Validate(c) ==
    /\ ReadyInTransaction(c)
    /\ todo' = [todo EXCEPT ![c] = ending_xids(c)]
    /\ Goto(c, IF check_table_row_write_conflicts(c) THEN "undoing" ELSE "validated")
    /\ UNCHANGED <<managerVars, store, next_id, txnVars, lock, buf, history>>

\* Mutant: a failed append leaves without giving the lock back.
bug_publish(c) ==
    /\ phase[c] = "validated"
    /\ lock = NoConn /\ lock' = c
    /\ store' = restored_stamps(c)
    /\ Goto(c, "publishing") \/ Goto(c, "undoing")
    /\ UNCHANGED <<managerVars, next_id, txnVars, todo, buf, history>>

\* Second part, under the lock: stamp again what others have overwritten and
\* append to the WAL.  A failed append gives the lock back and undoes.
Publish(c) ==
    /\ phase[c] = "validated"
    /\ lock = NoConn
    /\ store' = restored_stamps(c)
    /\ \/ lock' = c /\ Goto(c, "publishing")
       \/ Goto(c, "undoing") /\ UNCHANGED lock
    /\ UNCHANGED <<managerVars, next_id, txnVars, todo, buf, history>>

\* The rows a transaction has pending writes for, or versions of.
updated_rows(c) == {store[e.new].logical : e \in ToSet(updates[c])}
deleted_rows(c) ==
    {store[e.id].logical : e \in {d \in ToSet(tombstones[c]) : d.id \in DOMAIN store}}
inserted_rows(c) ==
    {store[id].logical : id \in {i \in DOMAIN store : store[i].xmin \in own_xids(c)}}

\* The version of r that c's transaction leaves behind, 0 if it deleted r.
outcome(c, r) ==
    LET left == {id \in DOMAIN store : /\ store[id].logical = r
                                       /\ store[id].xmin \in own_xids(c)
                                       /\ store[id].xmax \notin own_xids(c)}
    IN  IF left = {} THEN 0 ELSE CHOOSE id \in left : \A j \in left : j <= id

\* Third part: the manager commits the xids one by one, the parent's last;
\* then the lock is released and the undo journal dropped.
CommitXid(c) ==
    LET x == Head(todo[c])
    IN  /\ phase[c] = "publishing"
        /\ Manager!commit(x)
        /\ todo' = [todo EXCEPT ![c] = Tail(@)]
        /\ IF x # ctx[c].xid
           THEN UNCHANGED <<phase, lock, txnVars, history>>
           ELSE /\ Goto(c, "idle")
                /\ lock' = NoConn
                /\ ctx' = [ctx EXCEPT ![c] = NoContext]
                /\ updates' = [updates EXCEPT ![c] = <<>>]
                /\ tombstones' = [tombstones EXCEPT ![c] = <<>>]
                /\ ForgetView(c)
                /\ latest' = [r \in Ids |-> IF r \in updated_rows(c) \cup deleted_rows(c)
                                                       \cup inserted_rows(c)
                                            THEN outcome(c, r) ELSE latest[r]]
                /\ wrote' = wrote \cup [row : updated_rows(c), xid : {x}, kind : {"update"}]
                                  \cup [row : deleted_rows(c), xid : {x}, kind : {"delete"}]
        /\ UNCHANGED <<store, next_id, buf>>

-----------------------------------------------------------------------------
(* Statements of a transaction.                                            *)

\* UPDATE clones the version its scan finds; an explicit UPDATE of constants
\* takes no row lock.
UpdateRead(c) ==
    /\ ReadyInTransaction(c)
    /\ TakeId
    /\ \E id \in transaction_scan(c) :
          buf' = [buf EXCEPT ![c] = [id |-> id, new |-> next_id, xid |-> writer_xid(c),
                                     old |-> store[id]]]
    /\ Goto(c, "updating")
    /\ UNCHANGED <<managerVars, store, txnVars, lock, todo, history>>

\* persist_applied_entity_mutations, which also records the undo entry.
UpdatePersist(c) ==
    LET b == buf[c]
    IN  /\ phase[c] = "updating"
        /\ lock = NoConn
        /\ Install(b)
        /\ updates' = [updates EXCEPT ![c] =
                          Append(@, [id |-> b.id, new |-> b.new, xid |-> b.xid,
                                     previous_xmax |-> b.old.xmax])]
        /\ buf' = [buf EXCEPT ![c] = NoBuf]
        /\ Goto(c, "idle")
        /\ UNCHANGED <<managerVars, next_id, ctx, tombstones, lock, todo, history>>

\* No autocommit UPDATE holds the row's read-modify-write lock.
row_unlocked(r) == \A d \in Conns : phase[d] = "idle" \/ buf[d].old.logical # r \/ in_transaction(d)

\* delete_entities_batch: under the row's RMW lock and the publication lock.
Delete(c) ==
    /\ ReadyInTransaction(c)
    /\ lock = NoConn
    /\ Len(tombstones[c]) < MaxTombstones
    /\ \E id \in transaction_scan(c) :
          /\ row_unlocked(store[id].logical)
          /\ store' = [store EXCEPT ![id].xmax = writer_xid(c)]
          /\ tombstones' = [tombstones EXCEPT ![c] =
                               Append(@, [id |-> id, xid |-> writer_xid(c),
                                          previous_xmax |-> store[id].xmax])]
    /\ UNCHANGED <<managerVars, next_id, ctx, updates, stmtVars, history>>

Insert(c) ==
    /\ ReadyInTransaction(c)
    /\ lock = NoConn
    /\ TakeId
    /\ store' = with_version(store, next_id, next_id, writer_xid(c))
    /\ UNCHANGED <<managerVars, txnVars, stmtVars, history>>

-----------------------------------------------------------------------------
(* Statements outside a transaction.                                       *)

\* The statement frame retains a fresh snapshot until the statement ends.
AutoStart(c) ==
    /\ Autocommit /\ Ready(c) /\ ~ in_transaction(c)
    /\ Manager!fresh_retained_snapshot(c)
    /\ Goto(c, "statement")
    /\ UNCHANGED <<store, next_id, txnVars, lock, todo, buf, history>>

\* UPDATE, under the table's and the row's RMW lock: clone the newest version
\* a fresh snapshot shows.
AutoUpdateRead(c) ==
    /\ phase[c] = "statement"
    /\ \A d \in Conns : phase[d] \notin {"read", "stamped"}
    /\ TakeId
    /\ \E id \in newest(fresh_scan) :
          /\ row_unlocked(store[id].logical)
          /\ buf' = [buf EXCEPT ![c] = [id |-> id, new |-> next_id, xid |-> XID_NONE,
                                        old |-> store[id]]]
    /\ Goto(c, "read")
    /\ UNCHANGED <<managerVars, store, txnVars, lock, todo, history>>

\* The writer xid is begun and committed before anything is stored.
AutoUpdateBegin(c) ==
    /\ phase[c] = "read" /\ buf[c].xid = XID_NONE
    /\ Manager!begin
    /\ buf' = [buf EXCEPT ![c].xid = next_xid]
    /\ UNCHANGED <<store, next_id, txnVars, lock, phase, todo, history>>

AutoUpdateCommit(c) ==
    /\ phase[c] = "read" /\ buf[c].xid # XID_NONE
    /\ Manager!commit(buf[c].xid)
    /\ Goto(c, "stamped")
    /\ UNCHANGED <<store, next_id, txnVars, lock, todo, buf, history>>

AutoUpdatePersist(c) ==
    LET b == buf[c]
    IN  /\ phase[c] = "stamped"
        /\ lock = NoConn
        /\ Install(b)
        /\ latest' = [latest EXCEPT ![b.old.logical] = b.new]
        /\ wrote' = wrote \cup {[row |-> b.old.logical, xid |-> b.xid, kind |-> "update"]}
        /\ buf' = [buf EXCEPT ![c] = NoBuf]
        /\ Goto(c, "done")
        /\ UNCHANGED <<managerVars, next_id, txnVars, lock, todo, view, base>>

\* DELETE, under the row's RMW lock and the publication lock: begin, stamp,
\* append to the WAL, and commit or (after a failed append) restore and abort.
AutoDelete(c) ==
    /\ phase[c] = "statement"
    /\ lock = NoConn
    /\ \E id \in fresh_scan :
          /\ row_unlocked(store[id].logical)
          /\ store' = [store EXCEPT ![id].xmax = next_xid]
          /\ buf' = [buf EXCEPT ![c] = [id |-> id, new |-> 0, xid |-> next_xid, old |-> store[id]]]
    /\ Manager!begin
    /\ lock' = c
    /\ Goto(c, "deleting")
    /\ UNCHANGED <<next_id, txnVars, todo, history>>

AutoDeleteCommit(c) ==
    LET b == buf[c]
    IN  /\ phase[c] = "deleting"
        /\ Manager!commit(b.xid)
        /\ latest' = [latest EXCEPT ![b.old.logical] = IF @ = b.id THEN 0 ELSE @]
        /\ wrote' = wrote \cup {[row |-> b.old.logical, xid |-> b.xid, kind |-> "delete"]}
        /\ lock' = NoConn
        /\ buf' = [buf EXCEPT ![c] = NoBuf]
        /\ Goto(c, "done")
        /\ UNCHANGED <<store, next_id, txnVars, todo, view, base>>

AutoDeleteAbort(c) ==
    LET b == buf[c]
    IN  /\ phase[c] = "deleting"
        /\ store' = IF store[b.id].xmax = b.xid THEN [store EXCEPT ![b.id] = b.old] ELSE store
        /\ Manager!rollback(b.xid)
        /\ lock' = NoConn
        /\ buf' = [buf EXCEPT ![c] = NoBuf]
        /\ Goto(c, "done")
        /\ UNCHANGED <<next_id, txnVars, todo, history>>

\* INSERT: a born-committed xid from the pool, then (insert_auto, under the
\* publication lock) the version.
AutoInsert(c) ==
    /\ phase[c] = "statement"
    /\ Manager!allocate_committed_xid
    /\ buf' = [buf EXCEPT ![c].xid = Manager!allocated_slot]
    /\ Goto(c, "inserting")
    /\ UNCHANGED <<store, next_id, txnVars, lock, todo, history>>

AutoInsertPersist(c) ==
    /\ phase[c] = "inserting"
    /\ lock = NoConn
    /\ TakeId
    /\ store' = with_version(store, next_id, next_id, buf[c].xid)
    /\ latest' = [latest EXCEPT ![next_id] = next_id]
    /\ buf' = [buf EXCEPT ![c] = NoBuf]
    /\ Goto(c, "done")
    /\ UNCHANGED <<managerVars, txnVars, lock, todo, view, base, wrote>>

\* The statement ends (a SELECT, or an UPDATE or DELETE that matched nothing,
\* straight after it started).
AutoEnd(c) ==
    /\ phase[c] \in {"statement", "done"}
    /\ Manager!drop_retention(c)
    /\ Goto(c, "idle")
    /\ UNCHANGED <<store, next_id, txnVars, lock, todo, buf, history>>

-----------------------------------------------------------------------------
(* Vacuum.  The cutoff is taken when it is used: that a stale one is as    *)
(* good is what SnapshotManager's ReclaimedIsInvisible says.               *)

\* Mutant: the reclaimer goes by the allocator alone.
bug_cutoff_xid == next_xid

cutoff_xid == Manager!mvcc_vacuum_cutoff_xid(next_xid)

Discard(ids) ==
    /\ store' = [i \in DOMAIN store \ ids |-> store[i]]
    /\ UNCHANGED <<managerVars, next_id, txnVars, stmtVars, history>>

\* Mutant: a stamp below the cutoff is taken for a committed one.
bug_reclaim ==
    /\ lock = NoConn
    /\ \E id \in DOMAIN store :
          /\ store[id].xmax # XID_NONE /\ store[id].xmax < cutoff_xid
          /\ Discard({id})

\* reclaim_mvcc_tick: a tick gives up when the publication lock is taken.
\* (A tick with a reclaim budget of one; larger budgets are several of these.)
Reclaim ==
    /\ lock = NoConn
    /\ \E id \in DOMAIN store :
          /\ Manager!reclaimable(cutoff_xid, store[id].xmin, store[id].xmax)
          /\ Discard({id})

\* The VACUUM statement (vacuum_mvcc_history): every version stamped below the
\* cutoff goes, under the publication lock; nobody asks whether the transaction
\* that set the stamp has aborted.  (The code scans before it takes the lock;
\* the two are one step here.)
VacuumStatement ==
    LET reclaim_ids == {id \in DOMAIN store :
                           store[id].xmax # XID_NONE /\ store[id].xmax < cutoff_xid}
    IN  lock = NoConn /\ reclaim_ids # {} /\ Discard(reclaim_ids)

-----------------------------------------------------------------------------
\* The steps that finish a statement under way.
Continue(c) ==
    \/ Capture(c) \/ UndoUpdate(c) \/ UndoTombstone(c) \/ AbortXid(c)
    \/ Publish(c) \/ CommitXid(c) \/ UpdatePersist(c)
    \/ AutoUpdateBegin(c) \/ AutoUpdateCommit(c) \/ AutoUpdatePersist(c)
    \/ AutoDeleteCommit(c) \/ AutoDeleteAbort(c) \/ AutoInsertPersist(c) \/ AutoEnd(c)

Start(c) ==
    \/ Begin(c) \/ Savepoint(c) \/ Release(c) \/ RollbackTo(c) \/ Rollback(c) \/ Validate(c)
    \/ UpdateRead(c) \/ Delete(c) \/ Insert(c)
    \/ AutoStart(c) \/ AutoUpdateRead(c) \/ AutoDelete(c) \/ AutoInsert(c)

Next == (\E c \in Conns : Start(c) \/ Continue(c)) \/ Reclaim

Spec == Init /\ [][Next]_vars

\* A connection's thread runs its statement to the end.
FairSpec == Spec /\ \A c \in Conns : WF_vars(Continue(c))

\* The same system when somebody also runs VACUUM.
VacuumSpec == Init /\ [][Next \/ VacuumStatement]_vars

-----------------------------------------------------------------------------
(* Properties.                                                             *)

Context == [xid : 0..MaxXid, snapshot : Manager!Snapshot,
            savepoints : Seq(1..MaxXid), released : Seq(1..MaxXid)]
Update == [id : Ids, new : Ids, xid : 1..MaxXid, previous_xmax : 0..MaxXid]
Tombstone == [id : Ids, xid : 1..MaxXid, previous_xmax : 0..MaxXid]
Buffer == [id : 0..MaxId, new : 0..MaxId, xid : 0..MaxXid,
           old : [logical : 0..MaxId, xmin : 0..MaxXid, xmax : 0..MaxXid]]
Write == [row : Ids, xid : 1..MaxXid, kind : {"update", "delete"}]
Phase == {"idle", "begun", "updating", "undoing", "validated", "publishing",
          "statement", "read", "stamped", "deleting", "inserting", "done"}

\* Versions, contexts, journals and buffers keep their types, and only a
\* connection that is publishing or deleting holds the publication lock.
TypeOK ==
    /\ Manager!TypeOK
    /\ DOMAIN store \subseteq Ids /\ store \in [DOMAIN store -> Version]
    /\ next_id \in 1..MaxId + 1
    /\ ctx \in [Conns -> Context]
    /\ updates \in [Conns -> Seq(Update)] /\ tombstones \in [Conns -> Seq(Tombstone)]
    /\ phase \in [Conns -> Phase]
    /\ todo \in [Conns -> Seq(1..MaxXid)]
    /\ buf \in [Conns -> Buffer]
    /\ view \in [Conns -> SUBSET Ids] /\ base \in [Conns -> SUBSET Ids]
    /\ latest \in [Ids -> 0..MaxId]
    /\ wrote \subseteq Write
    /\ lock \in Conns \cup {NoConn}
    /\ \A c \in Conns : lock = c <=> phase[c] \in {"publishing", "deleting"}

sees(s, x) == x <= s.xid /\ x \notin s.in_progress

\* The rows c has pending writes on.
touched(c) == updated_rows(c) \cup deleted_rows(c)

\* The rows of the versions that c has replaced or deleted and that the store
\* still has: those that check_table_row_write_conflicts looks at.
checked_rows(c) == deleted_rows(c)
    \cup {store[e.id].logical : e \in {d \in ToSet(updates[c]) : d.id \in DOMAIN store}}

\* A transaction that reaches publication overwrites no committed UPDATE that
\* its snapshot does not show: of two overlapping transactions that write a
\* row, one of which updates it, the later to commit fails, as long as the
\* version it replaced has not been reclaimed under it.
NoLostUpdate ==
    \A c \in Conns : phase[c] = "publishing" =>
        \A w \in wrote :
            w.kind = "update" /\ w.row \in checked_rows(c) => sees(ctx[c].snapshot, w.xid)

\* docs/query/transactions.md, "Isolation": "If two concurrent transactions
\* update or delete the same logical row, the first transaction to commit
\* wins; the later conflicting commit fails with a serialization conflict".
FirstCommitterWins ==
    \A c \in Conns : phase[c] = "publishing" =>
        \A w \in wrote : w.row \in touched(c) => sees(ctx[c].snapshot, w.xid)

\* The last committed version of every row is shown to a fresh snapshot,
\* whatever open transactions have stamped, undone or let the vacuum reclaim.
CommittedStaysReadable ==
    \A r \in Ids :
        /\ latest[r] # 0
        /\ \A c \in Conns : phase[c] = "publishing" => r \notin touched(c)
        => latest[r] \in fresh_scan

\* The committed versions that a transaction saw at BEGIN it still sees, but
\* for the rows it has itself written and not rolled back to a savepoint.
CapturedStaysVisible ==
    \A c \in Conns : in_transaction(c) /\ phase[c] \in {"idle", "updating"} =>
        \A id \in base[c] :
            /\ id \in DOMAIN store
            /\ store[id].logical \in touched(c) \/ id \in transaction_scan(c)

\* docs/query/transactions.md, "Isolation": "Each BEGIN captures a snapshot -
\* a frozen view of the database"; of the rows it has not written itself, a
\* transaction sees exactly the versions it saw at BEGIN.
FrozenSnapshot ==
    \A c \in Conns : in_transaction(c) /\ phase[c] = "idle" =>
        \A id \in transaction_scan(c) :
            \/ id \in view[c]
            \/ store[id].logical \in touched(c) \/ store[id].xmin \in own_xids(c)

\* Every statement ends: nobody waits for the publication lock forever, no xid
\* is left that the manager refuses, and the version that an UPDATE has cloned
\* is still there when the UPDATE is stored.
StatementsEnd == \A c \in Conns : phase[c] # "idle" ~> phase[c] = "idle"
=============================================================================
