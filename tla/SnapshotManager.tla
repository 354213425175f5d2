--------------------------- MODULE SnapshotManager ---------------------------
(***************************************************************************)
(* The xid allocator and liveness tracker of the transaction engine:       *)
(* crates/reddb-engine/src/transaction/snapshot.rs, with the visibility    *)
(* predicate of visibility.rs and read.rs and the vacuum cutoff that the   *)
(* server derives from it (reddb-server, runtime/mvcc_lifecycle.rs).       *)
(*                                                                         *)
(* One action is one critical section: every method of SnapshotManager     *)
(* holds the state lock or the pool lock from its first read to its last   *)
(* write, so its effect is atomic and any two methods interleave.  The     *)
(* vacuum cutoff is the exception: it reads the allocator without a lock   *)
(* and the horizons under it, and is two actions.                          *)
(***************************************************************************)
EXTENDS Integers, FiniteSets, FiniteSetsExt

CONSTANTS
    MaxXid,                 \* bound: xids handed out in a behaviour
    AutocommitPoolBatch,    \* AUTOCOMMIT_POOL_BATCH (16 in the code)
    Frames,                 \* statement frames that can be open at once
    MaxCaptures,            \* bound: snapshots one transaction captures
    MaxPins,                \* bound: pins of one xid
    VacuumRetention         \* runtime.mvcc.vacuum_retention_xids

ASSUME MaxXidAssumption == MaxXid \in Nat \ {0}
ASSUME BatchAssumption == AutocommitPoolBatch \in Nat \ {0}
ASSUME FramesAssumption == IsFiniteSet(Frames)
ASSUME CapturesAssumption == MaxCaptures \in Nat /\ MaxPins \in Nat
ASSUME RetentionAssumption == VacuumRetention \in Nat

VARIABLES
    next_xid,            \* the allocator: the next xid to hand out
    pool_next,           \* AutocommitPool.next
    pool_end,            \* AutocommitPool.end (exclusive)
    active,              \* ManagerState.active
    aborted,             \* ManagerState.aborted
    snapshot_horizons,   \* ManagerState.snapshot_horizons, 0 for no entry
    statement_horizons,  \* ManagerState.statement_horizons, 0 for no entry
    pinned,              \* ManagerState.pinned, 0 for no entry
    held,                \* the snapshots each transaction has captured
    frame,               \* the retained snapshot of each statement frame
    vac_next,            \* vacuum: the allocator as peeked, 0 before the peek
    vac_cutoff,          \* vacuum: the cutoff in use, 0 for none
    begun                \* history: the xids begin() has returned

managerVars == <<next_xid, pool_next, pool_end, active, aborted,
                 snapshot_horizons, statement_horizons, pinned>>
vars == <<next_xid, pool_next, pool_end, active, aborted, snapshot_horizons,
          statement_horizons, pinned, held, frame, vac_next, vac_cutoff, begun>>

-----------------------------------------------------------------------------
XID_NONE == 0
Xid == 1..MaxXid

\* What a capture remembers.  owner is the transaction whose own xid is
\* left out of in_progress (XID_NONE for a statement frame's snapshot).
Snapshot == [xid : 0..MaxXid, in_progress : SUBSET Xid, owner : 0..MaxXid]

\* A frame's guard: the snapshot, the horizon it registered, and whether
\* the snapshot was captured or rebuilt from a commit's root xid (AS OF).
Frame == [kind : {"closed", "captured", "as_of"}, snap : Snapshot, horizon : 1..MaxXid + 1]
NoFrame == [kind |-> "closed", horizon |-> 1,
            snap |-> [xid |-> 0, in_progress |-> {}, owner |-> XID_NONE]]

\* Slots of the autocommit pool that are reserved but not handed out.
pool_slots == pool_next .. (pool_end - 1)

\* The smaller of a bound and the least element of a set of xids.
Lowest(bound, S) == Min(S \cup {bound})

-----------------------------------------------------------------------------
(* The visibility predicate.                                               *)

is_visible(xmin, xmax, s, abortedSet) ==
    /\ xmin # XID_NONE => /\ xmin <= s.xid
                          /\ xmin \notin s.in_progress
                          /\ xmin \notin abortedSet
    /\ ~ (/\ xmax # XID_NONE
          /\ xmax <= s.xid
          /\ xmax \notin s.in_progress
          /\ xmax \notin abortedSet)

\* visibility_check of a reader whose own writer xids are own: aborted
\* writers never existed, aborted deleters never deleted, own stamps count.
visibility_check(s, own, xmin, xmax) ==
    LET effective_xmax == IF xmax \in aborted THEN XID_NONE ELSE xmax
    IN  /\ xmin \notin aborted
        /\ effective_xmax \notin own
        /\ xmin \in own \/ is_visible(xmin, effective_xmax, s, {})

-----------------------------------------------------------------------------
(* What the methods compute from the state they lock.                      *)

\* Mutant: the capture forgets the transactions in flight.
bug_captured_snapshot(x) == [xid |-> x, in_progress |-> pool_slots, owner |-> x]

\* The snapshot of the active transaction x, which leaves x itself out.
captured_snapshot(x) ==
    [xid |-> x, in_progress |-> (active \ {x}) \cup pool_slots, owner |-> x]

\* Mutant: reserved pool slots are not treated as in progress.
bug_fresh_read_snapshot ==
    [xid |-> next_xid - 1, in_progress |-> active, owner |-> XID_NONE]

\* The snapshot of a statement outside a transaction.
fresh_read_snapshot ==
    [xid |-> next_xid - 1, in_progress |-> active \cup pool_slots, owner |-> XID_NONE]

\* The slot allocate_committed_xid hands out.
allocated_slot == IF pool_next >= pool_end THEN next_xid ELSE pool_next

\* Mutant: the oldest active xid stands for what its snapshot can still read.
bug_required_xids ==
    active \cup {h \in 1..MaxXid + 1 : statement_horizons[h] > 0}
           \cup {x \in Xid : pinned[x] > 0}

\* The xids that somebody still reads at (oldest_required_xid is the least).
required_xids ==
    active
      \cup {snapshot_horizons[x] : x \in {y \in Xid : snapshot_horizons[y] > 0}}
      \cup {h \in 1..MaxXid + 1 : statement_horizons[h] > 0}
      \cup {x \in Xid : pinned[x] > 0}

\* mvcc_vacuum_cutoff_xid, from the allocator as it was peeked.
mvcc_vacuum_cutoff_xid(next) ==
    Lowest(IF next > VacuumRetention THEN next - VacuumRetention ELSE 0, required_xids)

\* mvcc_reclaim.rs, reclaimable: may the version (xmin, xmax) be deleted?
reclaimable(cutoff, xmin, xmax) ==
    \/ xmin \in aborted
    \/ xmax # XID_NONE /\ xmax < cutoff /\ xmax \notin aborted

-----------------------------------------------------------------------------
Init ==
    /\ next_xid = 1
    /\ pool_next = 0 /\ pool_end = 0
    /\ active = {} /\ aborted = {}
    /\ snapshot_horizons = [x \in Xid |-> 0]
    /\ statement_horizons = [h \in 1..MaxXid + 1 |-> 0]
    /\ pinned = [x \in Xid |-> 0]
    /\ held = [x \in Xid |-> {}]
    /\ frame = [f \in Frames |-> NoFrame]
    /\ vac_next = 0 /\ vac_cutoff = 0
    /\ begun = {}

\* begin: retire the unused pool slots, take the next xid, make it active.
begin ==
    /\ next_xid <= MaxXid
    /\ pool_next' = pool_end
    /\ next_xid' = next_xid + 1
    /\ active' = active \cup {next_xid}
    /\ begun' = begun \cup {next_xid}
    /\ UNCHANGED <<pool_end, aborted, snapshot_horizons, statement_horizons,
                   pinned, held, frame, vac_next, vac_cutoff>>

\* snapshot(xid): called by the transaction that owns the active xid.
snapshot(x) ==
    LET horizon == Lowest(x, captured_snapshot(x).in_progress)
    IN  /\ x \in active
        /\ Cardinality(held[x]) < MaxCaptures
        /\ held' = [held EXCEPT ![x] = @ \cup {captured_snapshot(x)}]
        /\ snapshot_horizons' = [snapshot_horizons EXCEPT ![x] =
                                    IF @ = 0 THEN horizon ELSE Lowest(horizon, {@})]
        /\ UNCHANGED <<next_xid, pool_next, pool_end, active, aborted,
                       statement_horizons, pinned, frame, vac_next, vac_cutoff, begun>>

\* commit(xid) and rollback(xid): the transaction gives up its snapshots.
commit(x) ==
    /\ x \in active
    /\ active' = active \ {x}
    /\ aborted' = aborted \ {x}
    /\ snapshot_horizons' = [snapshot_horizons EXCEPT ![x] = 0]
    /\ held' = [held EXCEPT ![x] = {}]
    /\ UNCHANGED <<next_xid, pool_next, pool_end, statement_horizons, pinned,
                   frame, vac_next, vac_cutoff, begun>>

rollback(x) ==
    /\ x \in active
    /\ active' = active \ {x}
    /\ aborted' = aborted \cup {x}
    /\ snapshot_horizons' = [snapshot_horizons EXCEPT ![x] = 0]
    /\ held' = [held EXCEPT ![x] = {}]
    /\ UNCHANGED <<next_xid, pool_next, pool_end, statement_horizons, pinned,
                   frame, vac_next, vac_cutoff, begun>>

\* allocate_committed_xid: refill the pool if it is drained, hand out a slot.
allocate_committed_xid ==
    /\ IF pool_next >= pool_end
       THEN /\ next_xid + AutocommitPoolBatch <= MaxXid + 1
            /\ next_xid' = next_xid + AutocommitPoolBatch
            /\ pool_next' = next_xid + 1
            /\ pool_end' = next_xid + AutocommitPoolBatch
       ELSE /\ pool_next' = pool_next + 1
            /\ UNCHANGED <<next_xid, pool_end>>
    /\ UNCHANGED <<active, aborted, snapshot_horizons, statement_horizons,
                   pinned, held, frame, vac_next, vac_cutoff, begun>>

\* observe_committed_xid(xid): recovery and replica apply import an xid that
\* another allocator handed out.
observe_committed_xid(x) ==
    /\ pool_next' = Max({pool_next, Min({x + 1, pool_end})})
    /\ next_xid' = Max({next_xid, x + 1})
    /\ UNCHANGED <<pool_end, active, aborted, snapshot_horizons,
                   statement_horizons, pinned, held, frame, vac_next,
                   vac_cutoff, begun>>

-----------------------------------------------------------------------------
(* Statement frames.                                                       *)

\* retain_snapshot_locked: register the horizon of s and open frame f on it.
Retain(f, kind, s) ==
    LET horizon == Lowest(s.xid + 1, s.in_progress)
    IN  /\ frame[f].kind = "closed"
        /\ statement_horizons' = [statement_horizons EXCEPT ![horizon] = @ + 1]
        /\ frame' = [frame EXCEPT ![f] = [kind |-> kind, snap |-> s, horizon |-> horizon]]
        /\ UNCHANGED <<next_xid, pool_next, pool_end, active, aborted,
                       snapshot_horizons, pinned, held, vac_next, vac_cutoff, begun>>

\* fresh_retained_snapshot: autocommit and READ COMMITTED statements.
fresh_retained_snapshot(f) ==
    Retain(f, "captured", fresh_read_snapshot)

\* retain_snapshot of the snapshot the statement's transaction captured.
retain_transaction_snapshot(f) ==
    \E x \in active : \E s \in held[x] : Retain(f, "captured", s)

\* retain_snapshot of the enclosing frame's snapshot (a nested statement).
retain_outer_snapshot(f) ==
    \E g \in Frames : frame[g].kind # "closed" /\ Retain(f, frame[g].kind, frame[g].snap)

\* AS OF a commit: a snapshot rebuilt from the pinned root xid alone.
retain_as_of_snapshot(f) ==
    \E x \in Xid : /\ pinned[x] > 0
                   /\ Retain(f, "as_of", [xid |-> x, in_progress |-> {}, owner |-> XID_NONE])

\* Mutant: the guard can be dropped twice.
bug_drop_twice(f) ==
    /\ frame[f].kind # "closed"
    /\ statement_horizons' = [statement_horizons EXCEPT ![frame[f].horizon] = @ - 1]
    /\ UNCHANGED <<next_xid, pool_next, pool_end, active, aborted, snapshot_horizons,
                   pinned, held, vac_next, vac_cutoff, begun, frame>>

\* Mutant: dropping one guard removes the horizon's whole entry.
bug_drop_all(f) ==
    /\ frame[f].kind # "closed"
    /\ statement_horizons' = [statement_horizons EXCEPT ![frame[f].horizon] = 0]
    /\ frame' = [frame EXCEPT ![f] = NoFrame]
    /\ UNCHANGED <<next_xid, pool_next, pool_end, active, aborted, snapshot_horizons,
                   pinned, held, vac_next, vac_cutoff, begun>>

\* SnapshotRetentionGuard::drop.
drop_retention(f) ==
    /\ frame[f].kind # "closed"
    /\ statement_horizons' = [statement_horizons EXCEPT ![frame[f].horizon] = @ - 1]
    /\ frame' = [frame EXCEPT ![f] = NoFrame]
    /\ UNCHANGED <<next_xid, pool_next, pool_end, active, aborted,
                   snapshot_horizons, pinned, held, vac_next, vac_cutoff, begun>>

-----------------------------------------------------------------------------
(* Pins and the vacuum cutoff.                                             *)

\* vcs_commit pins the root xid after it has begun and committed it.
pin(x) ==
    /\ x \in begun \ active
    /\ x \notin aborted
    /\ pinned[x] < MaxPins
    /\ pinned' = [pinned EXCEPT ![x] = @ + 1]
    /\ UNCHANGED <<next_xid, pool_next, pool_end, active, aborted, held, frame,
                   snapshot_horizons, statement_horizons, vac_next, vac_cutoff, begun>>

unpin(x) ==
    /\ pinned[x] > 0
    /\ pinned' = [pinned EXCEPT ![x] = @ - 1]
    /\ UNCHANGED <<next_xid, pool_next, pool_end, active, aborted, held, frame,
                   snapshot_horizons, statement_horizons, vac_next, vac_cutoff, begun>>

\* mvcc_vacuum_cutoff_xid, first half: peek_next_xid, without a lock.
vacuum_peek ==
    /\ vac_next = 0
    /\ vac_next' = next_xid
    /\ UNCHANGED <<managerVars, held, frame, vac_cutoff, begun>>

\* Second half: the horizons, under the state lock.  The cutoff is then used
\* at any later moment, until the vacuum ends.
vacuum_cutoff ==
    /\ vac_next > 0 /\ vac_cutoff = 0
    /\ vac_cutoff' = mvcc_vacuum_cutoff_xid(vac_next)
    /\ UNCHANGED <<managerVars, held, frame, vac_next, begun>>

vacuum_end ==
    /\ vac_next > 0
    /\ vac_next' = 0 /\ vac_cutoff' = 0
    /\ UNCHANGED <<managerVars, held, frame, begun>>

-----------------------------------------------------------------------------
Next ==
    \/ begin
    \/ allocate_committed_xid
    \/ \E x \in Xid : \/ snapshot(x) \/ commit(x) \/ rollback(x)
                      \/ observe_committed_xid(x)
                      \/ pin(x) \/ unpin(x)
    \/ \E f \in Frames : \/ fresh_retained_snapshot(f)
                         \/ retain_transaction_snapshot(f)
                         \/ retain_outer_snapshot(f)
                         \/ retain_as_of_snapshot(f)
                         \/ drop_retention(f)
    \/ vacuum_peek \/ vacuum_cutoff \/ vacuum_end

Spec == Init /\ [][Next]_vars

-----------------------------------------------------------------------------
(* Properties.                                                             *)

\* Every variable keeps its type; the pool window never leaves the range the
\* allocator has passed.
TypeOK ==
    /\ next_xid \in 1..MaxXid + 1
    /\ pool_next \in 0..MaxXid + 1
    /\ pool_end \in 0..MaxXid + 1
    /\ active \subseteq Xid /\ aborted \subseteq Xid /\ begun \subseteq Xid
    /\ snapshot_horizons \in [Xid -> 0..MaxXid]
    /\ statement_horizons \in [1..MaxXid + 1 -> Nat]
    /\ pinned \in [Xid -> Nat]
    /\ held \in [Xid -> SUBSET Snapshot]
    /\ frame \in [Frames -> Frame]
    /\ vac_next \in 0..MaxXid + 1
    /\ vac_cutoff \in 0..MaxXid + 1

\* The snapshots captured under the state lock that somebody can still read
\* with: those of the active transactions and those of the open frames.
Captured ==
    (UNION {held[x] : x \in active})
      \cup {frame[f].snap : f \in {g \in Frames : frame[g].kind = "captured"}}

\* A writer whose outcome is settled: its number has been passed, it is not
\* active, and no pool slot will hand it out.
Finished(x) == x < next_xid /\ x \notin active /\ x \notin pool_slots

\* The claim in the comment of begin(): a captured snapshot is never short a
\* concurrent writer.  Every writer it shows, but the one that owns it, has
\* finished, whichever path handed out its number (begin, the pool, replay).
VisibleWritersFinished ==
    \A s \in Captured : \A x \in Xid :
        is_visible(x, XID_NONE, s, {}) => x = s.owner \/ Finished(x)

\* The vacuum never reclaims a version that a captured snapshot still shows,
\* even when the snapshot is captured between the computation of the cutoff
\* and its use.  (xmax stamps are xids that begin() returned.)
ReclaimedIsInvisible ==
    \A s \in Captured : \A xmin \in 0..MaxXid : \A xmax \in begun \cup {XID_NONE} :
        reclaimable(vac_cutoff, xmin, xmax) => ~ visibility_check(s, {}, xmin, xmax)

\* The counted statement horizons are exactly those of the open frames, so
\* that dropping one frame's guard never releases another's history.
HorizonsCounted ==
    \A h \in 1..MaxXid + 1 :
        statement_horizons[h] =
            Cardinality({f \in Frames : frame[f].kind # "closed" /\ frame[f].horizon = h})

\* A frozen view: no step changes which other writers a captured snapshot
\* shows, neither a commit nor a rollback nor an import.
ViewFrozen ==
    [][\A s \in Captured \cap Captured' : \A x \in Xid :
          x # s.owner =>
             (visibility_check(s, {}, x, XID_NONE) <=> visibility_check(s, {}, x, XID_NONE)')]_vars
=============================================================================
