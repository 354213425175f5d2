----------------------------- MODULE GroupCommit -----------------------------
(***************************************************************************)
(* Group commit of the unified store: StoreCommitCoordinator and            *)
(* WalAppendQueue of reddb-server, storage/unified/store/commit.rs, on top  *)
(* of WalWriter of storage/wal/writer.rs.                                   *)
(*                                                                         *)
(* A call reserves a range of the log and queues its record (enqueue), says *)
(* up to where it needs the log to be durable, and waits.  One flusher      *)
(* thread drains the queue, appends, syncs and publishes how far the log is *)
(* durable.  A checkpoint truncates the log and moves the positions back.   *)
(* Every call and every round of the flusher holds the epoch lock for       *)
(* reading, a truncation holds it for writing.  Each action is one critical *)
(* section (the queue's mutex, the writer's or the state's).                *)
(*                                                                         *)
(* Every record is one unit long: positions are only compared and reserved. *)
(* The window in which the flusher gathers statements is a step it takes at *)
(* some time: pending_statements, pending_wal_bytes and first_pending_at    *)
(* decide when, and nothing else.                                           *)
(***************************************************************************)
EXTENDS Integers, FiniteSets

CONSTANTS
    Calls,     \* the calls, each made once
    Modes,     \* the DurabilityModes the store may be opened with
    Kinds,     \* the kinds of calls made
    Faults     \* "append", "sync": the file may refuse it; "crash"

ASSUME CallsAssumption == IsFiniteSet(Calls)
ASSUME ModesAssumption == Modes \subseteq {"Strict", "WalDurableGrouped", "Async"}
ASSUME KindsAssumption ==
    Kinds \subseteq {"commit",      \* append_actions
                    "runtime",     \* append_single_record of a runtime-owned record
                    "ownership",   \* append_durable_ownership_bytes
                    "sync",        \* sync_pending
                    "force"}       \* force_sync
ASSUME FaultsAssumption == Faults \subseteq {"append", "sync", "crash"}

VARIABLES
    mode,
    \* The calls.
    pc, kind,
    target,              \* where a call waits for; what a force_sync read
    barrier,             \* history: the calls answered "ok" when it began
    \* CommitState.
    durable_lsn, pending_target_lsn, last_error, shutdown,
    \* WalQueueState.
    next_lsn, entries,
    \* WalWriter: records appended, of which synced; positions of both.
    written, current_lsn, synced, wal_durable,
    \* The flusher: where it is, what it has drained, what it will publish.
    flusher, batch, flushed,
    drained_to,          \* history: next_lsn when the queue was last drained
    \* The checkpoint that truncates.
    checkpoint, runtime_wal_state, ownership_wal_state,
    covered              \* history: records whose effect a checkpoint has stored

callVars  == <<pc, kind, target, barrier>>
stateVars == <<durable_lsn, pending_target_lsn, last_error, shutdown>>
queueVars == <<next_lsn, entries, drained_to>>
walVars   == <<written, current_lsn, synced, wal_durable>>
flushVars == <<flusher, batch, flushed>>
trimVars  == <<checkpoint, runtime_wal_state, ownership_wal_state, covered>>
vars == <<mode, callVars, stateVars, queueVars, walVars, flushVars, trimVars>>

-----------------------------------------------------------------------------
\* The calls that hold the epoch lock for reading.
Leased == {c \in Calls : pc[c] \in {"leased", "appended", "synced", "queued", "waiting"}}

\* The flusher holds it from its lease to its publication.
FlusherLeased == flusher \in {"leased", "drained", "flushed"}

\* A truncation holds it for writing.
Truncating == checkpoint \in {"draining", "drained", "runtime_draining", "runtime_drained"}

\* Mutant: the flusher's read() queues behind the truncation as any other.
bug_mayReadRecursively == checkpoint = "idle"

\* read() waits behind a writer that waits.  read_recursive() passes it, but only as
\* long as there is a reader that it has to wait for anyway.
mayRead == checkpoint = "idle"
mayReadRecursively == ~Truncating /\ (checkpoint = "idle" \/ Leased # {} \/ FlusherLeased)

Failed == -1

larger(a, b) == IF a >= b THEN a ELSE b

\* force_sync, and sync_pending where it is no more than that.
forces(k) == k = "force" \/ (k = "sync" /\ mode = "Strict")

\* An asynchronous commit is answered once its target is recorded.
waits(c) == mode # "Async" \/ kind[c] \in {"ownership", "sync"}

-----------------------------------------------------------------------------
Init ==
    /\ mode \in Modes
    /\ pc = [c \in Calls |-> "new"]
    /\ kind = [c \in Calls |-> "none"]
    /\ target = [c \in Calls |-> 0]
    /\ barrier = [c \in Calls |-> {}]
    /\ durable_lsn = 0 /\ pending_target_lsn = 0
    /\ last_error = FALSE /\ shutdown = FALSE
    /\ next_lsn = 0 /\ entries = {} /\ drained_to = 0
    /\ written = {} /\ current_lsn = 0 /\ synced = {} /\ wal_durable = 0
    /\ flusher = "idle" /\ batch = {} /\ flushed = 0
    /\ checkpoint = "idle" /\ runtime_wal_state = 0 /\ ownership_wal_state = 0
    /\ covered = {}

-----------------------------------------------------------------------------
(* The calls. *)

\* Mutant: the record is not announced before it is appended.
bug_Begin(c, k) ==
    /\ pc[c] = "new"
    /\ ~shutdown
    /\ IF forces(k) THEN mayReadRecursively ELSE mayRead
    /\ pc' = [pc EXCEPT ![c] = IF forces(k) THEN "appended" ELSE "leased"]
    /\ kind' = [kind EXCEPT ![c] = k]
    /\ barrier' = [barrier EXCEPT ![c] = {b \in Calls : pc[b] = "ok"}]
    /\ UNCHANGED <<mode, target, stateVars, queueVars, walVars, flushVars, trimVars>>

Begin(c, k) ==
    /\ pc[c] = "new"
    /\ ~shutdown
    /\ IF forces(k) THEN mayReadRecursively ELSE mayRead
    /\ pc' = [pc EXCEPT ![c] = IF forces(k) THEN "appended" ELSE "leased"]
    /\ kind' = [kind EXCEPT ![c] = k]
    /\ barrier' = [barrier EXCEPT ![c] = {b \in Calls : pc[b] = "ok"}]
    /\ runtime_wal_state' = IF k = "runtime" THEN 2 ELSE runtime_wal_state
    /\ ownership_wal_state' = IF k = "ownership" THEN 2 ELSE ownership_wal_state
    /\ UNCHANGED <<mode, target, stateVars, queueVars, walVars, flushVars, checkpoint, covered>>

\* WalAppendQueue::enqueue: the range is reserved and its record pushed at once.
Enqueue(c) ==
    /\ pc[c] = "leased" /\ mode # "Strict" /\ kind[c] # "sync"
    /\ next_lsn' = next_lsn + 1
    /\ entries' = entries \cup {c}
    /\ target' = [target EXCEPT ![c] = next_lsn + 1]
    /\ pc' = [pc EXCEPT ![c] = "queued"]
    /\ UNCHANGED <<mode, kind, barrier, stateVars, drained_to, walVars, flushVars, trimVars>>

\* Mutant: sync_pending looks where the file ends.
bug_ReadEnd(c) ==
    /\ pc[c] = "leased" /\ mode # "Strict" /\ kind[c] = "sync"
    /\ target' = [target EXCEPT ![c] = current_lsn]
    /\ pc' = [pc EXCEPT ![c] = "queued"]
    /\ UNCHANGED <<mode, kind, barrier, stateVars, queueVars, walVars, flushVars, trimVars>>

\* sync_pending looks where the queue ends.
ReadEnd(c) ==
    /\ pc[c] = "leased" /\ mode # "Strict" /\ kind[c] = "sync"
    /\ target' = [target EXCEPT ![c] = next_lsn]
    /\ pc' = [pc EXCEPT ![c] = "queued"]
    /\ UNCHANGED <<mode, kind, barrier, stateVars, queueVars, walVars, flushVars, trimVars>>

\* Mutant: the flusher is not told how far to go.
bug_Register(c) ==
    /\ pc[c] = "queued"
    /\ pc' = [pc EXCEPT ![c] = IF waits(c) THEN "waiting" ELSE "ok"]
    /\ UNCHANGED <<mode, kind, target, barrier, stateVars, queueVars, walVars, flushVars, trimVars>>

\* wait_until_durable up to its loop; an asynchronous commit returns here.
Register(c) ==
    /\ pc[c] = "queued"
    /\ pending_target_lsn' = larger(pending_target_lsn, target[c])
    /\ pc' = [pc EXCEPT ![c] = IF waits(c) THEN "waiting" ELSE "ok"]
    /\ UNCHANGED <<mode, kind, target, barrier, durable_lsn, last_error, shutdown, queueVars,
                   walVars, flushVars, trimVars>>

\* A round of the wait loop that ends it: the error is looked at first.
Return(c) ==
    /\ pc[c] = "waiting"
    /\ last_error \/ durable_lsn >= target[c]
    /\ pc' = [pc EXCEPT ![c] = IF last_error THEN "err" ELSE "ok"]
    /\ UNCHANGED <<mode, kind, target, barrier, stateVars, queueVars, walVars, flushVars, trimVars>>

\* Strict mode appends past the queue, one unit at the end of the log.
AppendStrict(c) ==
    /\ pc[c] = "leased" /\ mode = "Strict"
    /\ written' = written \cup {c}
    /\ current_lsn' = current_lsn + 1
    /\ target' = [target EXCEPT ![c] = current_lsn + 1]
    /\ pc' = [pc EXCEPT ![c] = "appended"]
    /\ UNCHANGED <<mode, kind, barrier, stateVars, queueVars, synced, wal_durable, flushVars,
                   trimVars>>

\* force_sync under the writer's mutex.
SyncWal(c) ==
    /\ pc[c] = "appended"
    /\ synced' = written
    /\ wal_durable' = current_lsn
    /\ target' = [target EXCEPT ![c] = current_lsn]
    /\ pc' = [pc EXCEPT ![c] = "synced"]
    /\ UNCHANGED <<mode, kind, barrier, stateVars, queueVars, written, current_lsn, flushVars,
                   trimVars>>

\* The file refuses the record or the sync; a record that is appended stays.
StrictFails(c) ==
    /\ \/ pc[c] = "leased" /\ mode = "Strict" /\ "append" \in Faults
       \/ pc[c] = "appended" /\ "sync" \in Faults
    /\ pc' = [pc EXCEPT ![c] = "err"]
    /\ UNCHANGED <<mode, kind, target, barrier, stateVars, queueVars, walVars, flushVars, trimVars>>

\* force_sync under the state's mutex.
PublishSync(c) ==
    /\ pc[c] = "synced"
    /\ durable_lsn' = target[c]
    /\ pending_target_lsn' = larger(target[c], pending_target_lsn)
    /\ last_error' = FALSE
    /\ pc' = [pc EXCEPT ![c] = "ok"]
    /\ UNCHANGED <<mode, kind, target, barrier, shutdown, queueVars, walVars, flushVars, trimVars>>

-----------------------------------------------------------------------------
(* run_group_commit_loop. *)

Wake ==
    /\ flusher = "idle" /\ mode # "Strict"
    /\ ~shutdown /\ pending_target_lsn > durable_lsn
    /\ flusher' = "woken"
    /\ UNCHANGED <<mode, callVars, stateVars, queueVars, walVars, batch, flushed, trimVars>>

Exit ==
    /\ flusher = "idle" /\ mode # "Strict"
    /\ shutdown
    /\ flusher' = "gone"
    /\ UNCHANGED <<mode, callVars, stateVars, queueVars, walVars, batch, flushed, trimVars>>

Lease ==
    /\ flusher = "woken"
    /\ mayReadRecursively
    /\ flusher' = "leased"
    /\ UNCHANGED <<mode, callVars, stateVars, queueVars, walVars, batch, flushed, trimVars>>

Drain ==
    /\ flusher = "leased"
    /\ batch' = entries
    /\ entries' = {}
    /\ drained_to' = next_lsn
    /\ flusher' = "drained"
    /\ UNCHANGED <<mode, callVars, stateVars, next_lsn, walVars, flushed, trimVars>>

\* append_bytes of each record, then sync, under the writer's mutex.
Flush ==
    /\ flusher = "drained"
    /\ written' = written \cup batch
    /\ current_lsn' = current_lsn + Cardinality(batch)
    /\ synced' = written'
    /\ wal_durable' = current_lsn'
    /\ batch' = {}
    /\ flushed' = wal_durable'
    /\ flusher' = "flushed"
    /\ UNCHANGED <<mode, callVars, stateVars, queueVars, trimVars>>

\* The records from the first that is refused on are dropped.  Where the sync is refused,
\* all are appended and stay in the writer's buffer for the next one.
FlushFails ==
    /\ flusher = "drained"
    /\ \E appended \in SUBSET batch :
          /\ \/ /\ "append" \in Faults
                /\ \E refused \in batch : appended = {c \in batch : target[c] < target[refused]}
             \/ "sync" \in Faults /\ appended = batch
          /\ written' = written \cup appended
          /\ current_lsn' = current_lsn + Cardinality(appended)
    /\ batch' = {}
    /\ flushed' = Failed
    /\ flusher' = "flushed"
    /\ UNCHANGED <<mode, callVars, stateVars, queueVars, synced, wal_durable, trimVars>>

\* Mutant: a failed round publishes its sentinel.
bug_Publish ==
    /\ flusher = "flushed"
    /\ durable_lsn' = flushed
    /\ last_error' = (flushed = Failed)
    /\ flushed' = 0
    /\ flusher' = "idle"
    /\ UNCHANGED <<mode, callVars, pending_target_lsn, shutdown, queueVars, walVars, batch, trimVars>>

\* Mutant: the round publishes what it was asked for, not what it has synced.
bug_PublishTarget ==
    /\ flusher = "flushed"
    /\ durable_lsn' = IF flushed = Failed THEN durable_lsn ELSE pending_target_lsn
    /\ last_error' = (flushed = Failed)
    /\ flushed' = 0
    /\ flusher' = "idle"
    /\ UNCHANGED <<mode, callVars, pending_target_lsn, shutdown, queueVars, walVars, batch, trimVars>>

Publish ==
    /\ flusher = "flushed"
    /\ durable_lsn' = IF flushed = Failed THEN durable_lsn ELSE flushed
    /\ last_error' = (flushed = Failed)
    /\ flushed' = 0
    /\ flusher' = "idle"
    /\ UNCHANGED <<mode, callVars, pending_target_lsn, shutdown, queueVars, walVars, batch, trimVars>>

-----------------------------------------------------------------------------
(* truncate_inner, and release_completed_ownership_wal. *)

\* A checkpoint asks for the epoch lock; some have stored runtime snapshots.
WantTruncate ==
    /\ checkpoint = "idle" /\ ~shutdown
    /\ checkpoint' \in {"waiting", "runtime_waiting"}
    /\ UNCHANGED <<mode, callVars, stateVars, queueVars, walVars, flushVars, runtime_wal_state,
                   ownership_wal_state, covered>>

\* Mutant: the truncation does not wait for the calls under way.
bug_LockEpoch ==
    /\ checkpoint \in {"waiting", "runtime_waiting"}
    /\ ~FlusherLeased
    /\ checkpoint' = IF checkpoint = "waiting" THEN "draining" ELSE "runtime_draining"
    /\ UNCHANGED <<mode, callVars, stateVars, queueVars, walVars, flushVars, runtime_wal_state,
                   ownership_wal_state, covered>>

LockEpoch ==
    /\ checkpoint \in {"waiting", "runtime_waiting"}
    /\ Leased = {} /\ ~FlusherLeased
    /\ checkpoint' = IF checkpoint = "waiting" THEN "draining" ELSE "runtime_draining"
    /\ UNCHANGED <<mode, callVars, stateVars, queueVars, walVars, flushVars, runtime_wal_state,
                   ownership_wal_state, covered>>

\* The records of the queue are the log's next ones, in the order of their ranges.
inPlace == \A c \in entries :
              (\A b \in entries : target[c] <= target[b]) => target[c] = current_lsn + 1

\* drain_sorted, append_bytes of each record and sync.
TruncateDrain ==
    /\ checkpoint \in {"draining", "runtime_draining"}
    /\ inPlace
    /\ written' = written \cup entries
    /\ current_lsn' = current_lsn + Cardinality(entries)
    /\ synced' = written'
    /\ wal_durable' = current_lsn'
    /\ entries' = {}
    /\ drained_to' = next_lsn
    /\ checkpoint' = IF checkpoint = "draining" THEN "drained" ELSE "runtime_drained"
    /\ UNCHANGED <<mode, callVars, stateVars, next_lsn, flushVars, runtime_wal_state,
                   ownership_wal_state, covered>>

\* A record out of place, or one the file refuses: the drained rest is dropped.
TruncateDrainFails ==
    /\ checkpoint \in {"draining", "runtime_draining"}
    /\ \E appended \in SUBSET entries :
          /\ \/ ~inPlace /\ appended = {}
             \/ /\ inPlace /\ "append" \in Faults
                /\ \E refused \in entries : appended = {c \in entries : target[c] < target[refused]}
             \/ inPlace /\ "sync" \in Faults /\ appended = entries
          /\ written' = written \cup appended
          /\ current_lsn' = current_lsn + Cardinality(appended)
    /\ entries' = {}
    /\ drained_to' = next_lsn
    /\ checkpoint' = "idle"
    /\ UNCHANGED <<mode, callVars, stateVars, next_lsn, synced, wal_durable, flushVars,
                   runtime_wal_state, ownership_wal_state, covered>>

Records(k) == {c \in written : kind[c] = k}

\* What the WAL's flag says, after the scan that settles an unscanned one.
scanned(flag, k) == IF flag # 0 THEN flag ELSE IF Records(k) = {} THEN 1 ELSE 2

\* Ownership records forbid the truncation; the queue has been drained all the same.
TruncateRefused ==
    /\ checkpoint \in {"drained", "runtime_drained"}
    /\ scanned(ownership_wal_state, "ownership") = 2
    /\ ownership_wal_state' = 2
    /\ checkpoint' = "idle"
    /\ UNCHANGED <<mode, callVars, stateVars, queueVars, walVars, flushVars, runtime_wal_state,
                   covered>>

\* retain_runtime_wal, unless the checkpoint has stored the runtime's snapshots.
retained ==
    IF checkpoint = "drained" /\ scanned(runtime_wal_state, "runtime") = 2
    THEN Records("runtime") ELSE {}

\* The log is replaced, the queue follows it, and the state follows both.
TruncateReset ==
    /\ checkpoint \in {"drained", "runtime_drained"}
    /\ scanned(ownership_wal_state, "ownership") = 1
    /\ ownership_wal_state' = 1
    /\ written' = retained /\ synced' = retained
    /\ current_lsn' = Cardinality(retained) /\ wal_durable' = Cardinality(retained)
    /\ next_lsn' = Cardinality(retained) /\ entries' = {} /\ drained_to' = Cardinality(retained)
    /\ durable_lsn' = Cardinality(retained) /\ pending_target_lsn' = Cardinality(retained)
    /\ last_error' = FALSE
    /\ runtime_wal_state' =
          IF checkpoint = "drained" THEN scanned(runtime_wal_state, "runtime") ELSE 1
    /\ covered' = covered \cup
          {c \in written : /\ pc[c] \in {"ok", "err", "lost"}
                           /\ kind[c] # "runtime" \/ checkpoint = "runtime_drained"}
    /\ checkpoint' = "idle"
    /\ UNCHANGED <<mode, callVars, shutdown, flushVars>>

\* The checkpoint has finished its ownership epoch, and its journal is complete.
ReleaseOwnership ==
    /\ checkpoint = "idle" /\ ~shutdown
    /\ Leased = {} /\ ~FlusherLeased
    /\ ownership_wal_state = 2
    /\ ownership_wal_state' = 1
    /\ UNCHANGED <<mode, callVars, stateVars, queueVars, walVars, flushVars, checkpoint,
                   runtime_wal_state, covered>>

-----------------------------------------------------------------------------
(* The end of the coordinator, orderly or not, and the next one. *)

\* Drop: nobody holds the coordinator; the flusher thread has its own handles.
Drop ==
    /\ ~shutdown /\ Leased = {} /\ checkpoint = "idle"
    /\ shutdown' = TRUE
    /\ UNCHANGED <<mode, callVars, durable_lsn, pending_target_lsn, last_error, queueVars, walVars,
                   flushVars, trimVars>>

\* open: the log is what the file holds; what was only queued is gone.
Open(file) ==
    /\ synced' = file /\ written' = file
    /\ current_lsn' = Cardinality(file) /\ wal_durable' = Cardinality(file)
    /\ next_lsn' = Cardinality(file) /\ entries' = {} /\ drained_to' = Cardinality(file)
    /\ durable_lsn' = Cardinality(file) /\ pending_target_lsn' = Cardinality(file)
    /\ last_error' = FALSE /\ shutdown' = FALSE
    /\ flusher' = "idle" /\ batch' = {} /\ flushed' = 0
    /\ checkpoint' = "idle" /\ runtime_wal_state' = 0 /\ ownership_wal_state' = 0
    /\ pc' = [c \in Calls |->
                IF c \in Leased \/ (pc[c] = "ok" /\ kind[c] \notin {"sync", "force"}
                                    /\ c \notin file \cup covered)
                THEN "lost" ELSE pc[c]]
    /\ UNCHANGED <<mode, kind, target, barrier, covered>>

\* The writer's buffer reaches the file when the last handle is dropped.
Reopen ==
    /\ shutdown /\ (flusher = "gone" \/ mode = "Strict")
    /\ Open(written)

\* Of what was not synced, the file system may have kept a prefix.
Crash ==
    /\ "crash" \in Faults
    /\ \E kept \in SUBSET (written \ synced) :
          /\ \A a \in kept, b \in written \ synced : target[b] < target[a] => b \in kept
          /\ Open(synced \cup kept)

-----------------------------------------------------------------------------
Call(c) ==
    \/ Enqueue(c) \/ ReadEnd(c) \/ Register(c) \/ Return(c)
    \/ AppendStrict(c) \/ SyncWal(c) \/ StrictFails(c) \/ PublishSync(c)

Flusher == Wake \/ Exit \/ Lease \/ Drain \/ Flush \/ FlushFails \/ Publish

Truncation ==
    LockEpoch \/ TruncateDrain \/ TruncateDrainFails \/ TruncateRefused \/ TruncateReset

Next ==
    \/ \E c \in Calls : (\E k \in Kinds : Begin(c, k)) \/ Call(c)
    \/ Flusher
    \/ WantTruncate \/ Truncation \/ ReleaseOwnership
    \/ Drop \/ Reopen \/ Crash

Spec == Init /\ [][Next]_vars

\* A call runs on its client's thread, the flusher and the checkpoint on threads of
\* their own; the operating system schedules them.  Nothing is asked of clients.
Fairness == (\A c \in Calls : WF_vars(Call(c))) /\ WF_vars(Flusher) /\ WF_vars(Truncation)

FairSpec == Spec /\ Fairness

-----------------------------------------------------------------------------
\* Types; a synced record has been written, and no position is the failure's sentinel.
TypeOK ==
    /\ mode \in Modes
    /\ pc \in [Calls -> {"new", "leased", "queued", "waiting", "appended", "synced",
                         "ok", "err", "lost"}]
    /\ kind \in [Calls -> Kinds \cup {"none"}]
    /\ target \in [Calls -> Nat]
    /\ barrier \in [Calls -> SUBSET Calls]
    /\ durable_lsn \in Nat /\ pending_target_lsn \in Nat
    /\ last_error \in BOOLEAN /\ shutdown \in BOOLEAN
    /\ next_lsn \in Nat /\ drained_to \in Nat
    /\ current_lsn \in Nat /\ wal_durable \in Nat
    /\ entries \subseteq Calls /\ batch \subseteq Calls
    /\ written \subseteq Calls /\ synced \subseteq written /\ covered \subseteq Calls
    /\ flusher \in {"idle", "woken", "leased", "drained", "flushed", "gone"}
    /\ flushed \in Nat \cup {Failed}
    /\ checkpoint \in {"idle", "waiting", "runtime_waiting", "draining", "runtime_draining",
                       "drained", "runtime_drained"}
    /\ runtime_wal_state \in 0..2 /\ ownership_wal_state \in 0..2

Stored(c) == c \in synced \cup covered

HasRecord(c) == kind[c] \notin {"sync", "force"}

\* A call that waits for durability is answered "ok" only if its record survives a crash,
\* and it survives every later truncation and restart (wait_until_durable, truncate_inner).
AckedIsDurable ==
    \A c \in Calls : pc[c] = "ok" /\ HasRecord(c) /\ waits(c) => Stored(c)

\* Whatever fails, no more of the log is claimed to be durable than has been synced
\* since it was last replaced (run_group_commit_loop, force_sync, truncate_inner).
ClaimsOnlySynced == durable_lsn <= wal_durable /\ wal_durable <= Cardinality(synced)

\* The log has no holes: when a record has reached it, or a sync_pending has returned, so
\* have all records whose calls had been answered before that call began.
NoHoles ==
    \A b \in Calls :
        b \in synced \/ (kind[b] = "sync" /\ pc[b] = "ok")
            => \A a \in barrier[b] : HasRecord(a) => Stored(a)

\* No call waits forever, for the flusher, for a truncation or for a position that was
\* moved away from it.
EveryCallReturns == \A c \in Calls : (c \in Leased) ~> (c \notin Leased)

\* A truncation that waits for the calls under way gets its turn.
TruncationEnds == (checkpoint # "idle") ~> (checkpoint = "idle")

\* Whatever the queue, the flusher and the truncation do, callers see a durable log.
Status(c) ==
    IF pc[c] = "new" THEN "idle" ELSE IF c \in Leased THEN "pending" ELSE pc[c]
Abstract == INSTANCE DurableLog
    WITH status <- [c \in Calls |-> Status(c)],
         lazy <- {c \in Calls : pc[c] # "new" /\ (~HasRecord(c) \/ ~waits(c))},
         log <- synced
IsDurableLog == Abstract!Spec
=============================================================================
