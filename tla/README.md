# A verification of RedDB's transaction, log and leadership core

RedDB is a multi-model database server in Rust. This directory models the parts of it whose
correctness depends on orders of steps that tests hardly reach: the multi-version concurrency
control of table rows, the group commit of the write-ahead log, the writer lease, and the
election of a primary. The modules are checked with TLC on small
instances; the properties that matter most are proved with TLAPS for every value of the
constants. Paths below are relative to the repository root; `engine/` stands for
`crates/reddb-engine/src/` and `server/` for `crates/reddb-server/src/`.

The repository keeps specifications of its own under `specs/tla`. They are written from the
design. The modules here are written from the code, and where the two disagree (see "Findings")
the code is what is modelled.

## 1. Inventory

| Component | State | Operations | Hard behaviour | What makes it correct |
|---|---|---|---|---|
| Snapshot manager (`engine/transaction/snapshot.rs`, `visibility.rs`, `read.rs`) | xid allocator, autocommit pool, active and aborted sets, horizons, pins | begin, snapshot, commit, rollback, allocate_committed_xid, observe_committed_xid, retain, pin | two locks and an atomic; capture against allocation; cutoff read without a lock | a snapshot shows finished writers only, stays frozen, and keeps its versions |
| Transaction state and control (`engine/transaction/state.rs`, `server/runtime/mvcc_lifecycle.rs`, `server/runtime/impl_core.rs`) | contexts, savepoint stacks, undo journals | BEGIN, SAVEPOINT, RELEASE, ROLLBACK TO, ROLLBACK, COMMIT | validation outside the lock; undo of overlapping stamps; failure of the WAL append | no lost update; undo restores what was committed; every statement ends |
| Versioned DML (`server/application/ports_impls_entity.rs`, `server/runtime/impl_dml*.rs`, `delete_publication.rs`, `mutation.rs`) | row versions with xmin and xmax | UPDATE, DELETE, INSERT | clone, then install; row locks on some paths only | committed versions stay readable |
| Reclamation (`server/storage/unified/store/mvcc_reclaim.rs`, `impl_entities.rs`) | row versions | autovacuum tick, VACUUM | stale cutoff; aborted stamps | nothing that can be read is removed |
| Election (`server/replication/election.rs`, `witness.rs`) | durable last vote, terms | run, collect, consider | lost, late, repeated requests; crashes; stale watermarks | one primary per term; committed writes survive |
| Group commit (`server/storage/unified/store/commit.rs`, `server/storage/wal/writer.rs`) | append queue, commit state, writer, epoch lock, two flags | append, wait, sync, flush, truncate, open, drop | truncation against waiting calls and the flusher; refused appends and syncs; crashes | an acknowledged commit is durable; the log has no holes; nobody waits forever |
| Writer lease and write gate (`server/replication/lease.rs`, `server/runtime/lease_*.rs`, `write_gate.rs`) | lease object in the backend, current lease, gate, phase | acquire, refresh, release, promote, drain, exit | requests of two instances interleave; answers are lost; the clock runs on | one writer with a live lease; take-overs are fenced; a writer without a lease stops |
| Replication, quorum, failover, fencing (`server/replication`) | logs, acknowledgements, terms | stream, ack, promote, roll back | partition, stale primary | acknowledged writes survive a failover |
| Cluster ownership and cross-range commit (`server/cluster`) | ownership epochs, ranges, transaction records | transfer, move, drain, prepare, resolve | hand-over against writes; crash of the coordinator | one owner per epoch; atomic commit |
| Queues, VCS, query language, storage engine, auth, wire | - | - | mostly sequential or I/O | not modelled, see section 8 |

How they interact: a connection's statement opens a frame, which retains a snapshot of the
snapshot manager; its writes stamp versions in the unified store with the xid of the
connection's context; COMMIT validates the undo journal against the store, appends to the WAL
under the store's publication lock (that append is a call of the group commit) and commits the
xids; a checkpoint truncates the log; the writer lease opens and closes the gate that admits
writes; the autovacuum asks the snapshot
manager for a cutoff. Replica apply and recovery import xids into the snapshot manager. The
commit watermark computed by replication is what the election's voters compare logs with.

PROJECT.json lists the hazards of this code at their lines, with the properties that watch them.

## 2. Modules

- `SnapshotManager`: one action per method of `SnapshotManager`, each one critical section; the
  frames that retain snapshots; pins; and the vacuum cutoff in two actions, because
  `mvcc_vacuum_cutoff_xid` peeks the allocator without a lock. `held` and `frame` record the
  snapshots that transactions and frames have in hand, `begun` (history) the xids that can occur
  as stamps.
- `Mvcc`: instantiates SnapshotManager and adds the store, the contexts, the undo journals, the
  publication lock (a reentrant mutex in the code; a holder never waits for itself) and the
  statements. A statement is several actions, one per critical section; `phase` says how far it
  has come, `todo` which xids it has still to settle, `buf` what it has cloned. `view`, `base`,
  `latest` and `wrote` are history and guard nothing.
- `Election`: the candidates (`Stand`, `Ask`, `Return`, `Unreachable`, `BumpTerm`, `Promote`,
  `Exhausted`, `TimedOut`, `Crash`), the voters (`Consider`) and the network between them
  (`ballots`: a real request may be delivered at any later time, any number of times).
  `elected`, `granted` and `known` are history.
- `DurableLog`: what a log promises to its callers, with no queue, flusher or lock in it: a record
  enters the log between its call and its answer, leaves it only into a checkpoint, and survives
  crashes; an answer "ok" means that it is there, unless the call did not wait.
- `GroupCommit`: `StoreCommitCoordinator`. The calls (`Begin`, `Enqueue`, `ReadEnd`, `Register`,
  `Return`; in strict mode `AppendStrict`, `SyncWal`, `PublishSync`), the flusher thread (`Wake` to
  `Publish`), the truncation (`WantTruncate` to `TruncateReset`), and `Drop`, `Reopen` and `Crash`.
  It implements `DurableLog`. `barrier`, `covered` and `drained_to` are history and guard nothing.
- `WriterLease`: instances that start (`Boot`), are promoted, drain and exit, and their lease calls
  as sequences of requests to the backend: read, conditional put, verify; read, conditional put;
  read, conditional delete.
- `MCSnapshotManager`, `MCMvcc`, `MCElection`, `MCGroupCommit`, `MCWriterLease`: the instances for
  TLC, with symmetry sets where symmetry is sound.
- `SnapshotManagerProofs`, `ElectionProofs`, `GroupCommitProofs`, `WriterLeaseProofs`: theorems and
  proofs, one module per component.
- `MvccInvariant`, `MvccTransactionProofs`, `MvccProofs`, `MvccSerialProofs`: the theorems about
  `Mvcc`, each module extending the one before it. The first states the inductive invariant and
  what its parts rest on, the second shows it preserved by transactions, the third by the rest,
  and the fourth adds what holds when statements do not overlap.

PROJECT.json maps every definition to the lines it models. Definitions whose name starts with
`bug_` are mutants: plausible mistakes with which TLC must find the property violated.

## 3. How the models correspond to the code

SnapshotManager. The state lock and the pool lock make every method atomic. A transaction's
snapshot leaves its own xid out of `in_progress`; a statement's snapshot is at the allocator's
high-water mark and counts the reserved pool slots as in progress. AS OF snapshots are rebuilt
from a commit's root xid with an empty `in_progress`; they are retained like others but make no
claim to be captured, so the properties about captured snapshots exempt them.

Mvcc. A logical row is its first version's id. Payloads, columns and indexes are left out. An
UPDATE in a transaction clones a version its snapshot shows (`UpdateRead`) and installs clone
and new version under the publication lock (`UpdatePersist`); an UPDATE of constants in a
transaction takes no row lock. An autocommit UPDATE holds the table's and the row's
read-modify-write lock from its read to its end, and begins and commits its xid before it stores
anything. DELETE works under the row and publication locks. COMMIT is `Validate` (no lock),
`Publish` (lock; restore the stamps that others have overwritten; WAL append, which may fail) and
one `CommitXid` per xid. A rollback undoes one update at a time, newest first, then one
tombstone at a time, then aborts the xids one by one. `Reclaim` is a tick of the autovacuum with
a budget of one version. `VacuumStatement` is the VACUUM statement, part of `VacuumSpec` only.
ROLLBACK TO takes savepoints off the stack and leaves alone those released earlier, whatever their
nesting, as the code does; the constant `RollsBackReleased` says whether clients ever roll back to
a savepoint around one that they have released (finding 6).

Simplifications: restoring one version's stamp in an undo is one step (the code gets the version
and then updates it); an UPDATE or DELETE statement touches one row; the VACUUM statement's scan
and its deletion are one step.

Election. `Data`, `Witnesses` and `CatchingUp` fix the membership view that all candidates read.
`Consider` is `Voter::consider` with the persist before the answer. A voter handles one request at
a time: `LastVoteStore` has load and persist only, and no code in the repository calls a voter
from two threads. `bump_term` is the transport's. Its contract is to advance the term durably;
whether it also records the candidate's vote for itself is the constant `RecordsSelfVote`.
`LearnTerm`, `Replicate`, `LearnWatermark` and `Crash` are the surroundings: they are marked
external.

GroupCommit. Each action is one critical section of the queue's mutex, the writer's or the state's.
A record has length one: the code compares and reserves positions and never looks at lengths
otherwise. A sequence of records is the set of its calls, ordered by `target`, the end of each
record's range. `append_actions`, `append_single_record` and `append_durable_ownership_bytes`
differ in the flag they raise before they append (`Begin`) and in whether they wait in Async mode
(`waits`). The epoch lock is the set of its readers: `Leased`, the flusher between `Lease` and
`Publish`, and the truncation as writer; `read` waits behind a writer that waits, `read_recursive`
does not. The counters that decide when the flusher stops gathering statements are left out, and
`Wake` may happen at any time instead. `FlushFails` drops what comes from the refused record on, as
the code does. Closing (`Drop`, then the flusher's `Exit`, then `Reopen`) flushes the writer's
buffer but not the queue. `Crash` keeps what was synced and any prefix of the rest. A crash does
not come inside the replacement of the log, which the code makes atomic by renaming a file.

WriterLease. The version of the lease object is the hash of its content in the local backend, so
that comparing versions is comparing leases. Between any two requests of a call all other
instances may act; a request may fail, and a put or a delete may be carried out although its
answer is lost. A request is not carried out after its caller has given it up. All instances read
one clock: the code compares the wall clocks of different machines. A process's replication term
does not change while it runs. The refresh thread's period is not modelled: it wakes at any time,
also later than the lease lasts, so nothing checked depends on a margin between period and TTL.

## 4. Runs

| Run | Question | Answer |
|---|---|---|
| `snapshot_manager` | do captured snapshots show finished writers only, stay frozen, and survive a vacuum whose cutoff is stale? are horizons counted right? | yes |
| `mvcc_serial` | transactions and autocommit statements overlap, statements do not: is a committed update ever lost on a version that the store has, does undo or autovacuum remove what is committed? | no |
| `mvcc_concurrent` | statements overlap step by step (inserts and updates): the same, and does every statement end? | yes |
| `mvcc_first_committer` | does the first committer win, as documented? | violated |
| `mvcc_frozen_snapshot` | is a transaction's view frozen, as documented? | violated |
| `mvcc_vacuum_statement` | does the VACUUM statement keep what is needed? | violated |
| `mvcc_released_savepoint` | does what is committed stay readable when clients roll back around a released savepoint? | violated |
| `election` | if self-votes are recorded: is there one primary per term, do probes burn no terms, does a winner cover what a majority knew was committed? | yes |
| `election_self_vote` | is there one primary per term if self-votes are not recorded? | violated |
| `group_commit` | with refused syncs, crashes, restarts and truncations: is what is acknowledged durable, is the log free of holes, does everybody return, is the whole a `DurableLog`? | yes |
| `group_commit_append` | is what is acknowledged durable when the file may refuse an append? | violated |
| `writer_lease` | is there one writer with a live lease, are take-overs fenced, does a writer without a lease stop? | yes |

Bounds and why they suffice for the interesting cases:

- Three xids and a pool batch of two (`snapshot_manager`): a refilled pool with one slot handed
  out and one reserved, next to a transaction; imports below, inside and above the pool; two
  frames on one horizon. One capture per transaction, as BEGIN makes it; `snapshot` itself allows
  more. The proofs remove these bounds.
- Two connections, one initial row, three versions, three xids (`mvcc_*`): two overlapping
  transactions and a third writer or a savepoint; two generations of a row; a row inserted and
  rolled back. `mvcc_serial` allows two pending tombstones per connection. `mvcc_concurrent` has
  no DELETE: with DELETE, statements that overlap run into the divergence of
  `mvcc_first_committer`, which is asked about by itself. Nor does it have autocommit
  statements, whose steps multiply the states; those overlap with transactions, statement by
  statement, in `mvcc_serial`.
- Four xids in `mvcc_released_savepoint`: a transaction with two savepoints, and another one. Without
  ROLLBACK TO around a released savepoint the same property is proved for all bounds.
- Two data members, a witness and a member catching up (`election*`): every pair of majorities
  and a voter that is never asked. One term and two log positions; two terms
  take longer than a run should. The proofs cover any number of terms, members and positions, and
  all but `ElectionSafety` also the case that self-votes are not recorded.
- Two calls, all three modes and all five kinds (`group_commit`): one call is queued, drained,
  flushed or truncated while the other is anywhere; a synchronous call waits behind an asynchronous
  one; a restart comes between them. Truncations, rounds, failures and restarts are unbounded. The
  proofs remove the bound on calls.
- Two instances, a TTL of one tick, two ticks, two terms, three generations (`writer_lease`): a lease
  expires, is taken over and is taken over again or released; a contender is behind by a term; a
  replica is promoted while the primary refreshes. The proofs remove these bounds.
- `MaxCaptures`, `MaxPins`, `MaxTombstones`, `MaxId`, `MaxXid`, `MaxTerm`, `MaxLsn`, `MaxTime` and
  `MaxGeneration` are bounds of the models and of nothing in the code. Runs end when they are used up, hence
  `CHECK_DEADLOCK FALSE`; that nobody waits on anybody is what `StatementsEnd` says. The group
  commit has no such bound, and deadlock is checked.

Symmetry: frames, connections and data members are interchangeable in every action and property.
The runs with a liveness property use no symmetry.

Fairness: `FairSpec` asks weak fairness of `Continue(c)`, the steps that finish a statement under
way. A connection's statement runs on a thread of its own that the operating system schedules,
and none of these steps waits for anything but the publication lock, which is held for a bounded
time. Nothing is asked of clients: starting a statement, and so ending a transaction, is never
fair.

`FairSpec` of `GroupCommit` asks weak fairness of each call once it has begun, of the flusher and of
a truncation once it has been asked for: threads that the operating system schedules. It does not
ask that a sync succeeds, that clients call, or that a checkpoint comes. `FairSpec` of `WriterLease`
asks that a running refresh thread is scheduled and that each of its requests is answered or fails
in the end, as the backends' clients time out. It does not ask that time passes or that an
acquire or a shutdown goes on.

## 5. Properties

- `VisibleWritersFinished`: whichever path hands out a number (begin, the pool, an import), a
  captured snapshot shows it only once its writer has finished.
- `ReclaimedIsInvisible`: no version the vacuum may take, with a cutoff of any age, is visible to
  a captured snapshot.
- `HorizonsCounted`, `ViewFrozen`: see the comments in the module.
- `NoLostUpdate`: a transaction that publishes overwrites no committed UPDATE it does not see
  (statements not overlapping), on rows whose replaced version the store still has. Without that
  proviso it does not hold, see the end of section 6.
- `CommittedStaysReadable`: the last committed version of a row is visible to a fresh snapshot,
  whatever open transactions have stamped, undone or let the vacuum take.
- `CapturedStaysVisible`: the committed versions a transaction saw at BEGIN stay in the store and
  visible to it, but for the rows that it has itself written.
- `StatementsEnd`: every statement ends.
- `VotesOncePerTerm`, `OnePrimaryPerTerm`, `CoversKnownWatermark`, `ProbesBurnNoTerms`: the four
  claims of the module documentation of `election.rs`.

- `AckedIsDurable`: a call that waits is answered "ok" only if its record is synced, or covered by a
  checkpoint, and then stays so through crashes, restarts and truncations.
- `ClaimsOnlySynced`: `durable_lsn` never runs ahead of what has been synced since the log was last
  replaced.
- `NoHoles`: a record in the log, or a finished `sync_pending`, has behind it every record answered
  before its call began.
- `EveryCallReturns`, `TruncationEnds`: no call and no truncation waits forever, whichever waits
  for the other and for the flusher.
- `IsDurableLog`: the refinement of `DurableLog`, with the synced records as the abstract log.
- `LiveLeaseIsPublished`, `OneLiveWriter`: while a lease has not expired, its holder's memory and the
  backend agree, and nobody else has a live one. Two instances may both have an open gate for a
  while: the old holder's gate closes at its next refresh, after the new holder's has opened. The
  property is what remains true.
- `HandoverIsFenced`: a lease passes to another holder only once it has expired, with a term not
  behind and the next generation, and is deleted only when its holder has let go of it. After a
  release nothing of the term is left: a contender of an older term may then create the lease
  anew, and no property says otherwise.
- `UnfitWriterStops`: an open gate whose lease is gone, or whose process drains, closes.

## 6. Findings

1. First committer wins (`mvcc_first_committer`). The conflict check of COMMIT runs before the
   publication lock and is not repeated under it: two COMMITs that delete the same row both pass.
2. Frozen snapshots (`mvcc_frozen_snapshot`). A write replaces the xmax stamp of a delete that
   has committed since the writer's snapshot; until the writer ends, the deleted row is back for
   everyone.
3. VACUUM and aborted stamps (`mvcc_vacuum_statement`). Undo can leave the stamp of an aborted
   transaction on a live version; the VACUUM statement, unlike the autovacuum, does not ask
   whether the stamp's owner aborted, and deletes the row.
4. Self-votes (`election_self_vote`). A candidate counts its own vote but does not record it, so
   it may grant the same term to another. With the self-vote recorded (as `specs/tla/ElectionSafety.tla`
   assumes) the claim holds and is proved.
5. Refused appends (`group_commit_append`). The flusher drops the drained records from the refused
   one on, but their range stays reserved; the next successful round clears the error, and the
   bytes of other records carry `durable_lsn` past the target of a record that was never written.
   A caller not yet woken, or one that writes later, returns Ok. Where no append is refused the
   property is proved.

6. Released savepoints (`mvcc_released_savepoint`). ROLLBACK TO aborts the savepoints that are on
   the stack. The writes of one released inside them are undone too, since the undo goes by xid, but
   its xid has moved to `released_sub_xids`, stays active and is committed at COMMIT. If another
   transaction kept the released xid's stamp as its undo value, its rollback puts the stamp back,
   and COMMIT makes the committed version of the row disappear for everybody. The proofs about
   `Mvcc` assume that clients do not do this; finding the invariant for them is what brought it to
   light.

Two things came up and are not part of a run. First, a lost update that takes too many steps for
one (30, with four xids and five versions; replayed with TLC step by step): h and d begin; h updates the row
and commits; d, with its old snapshot, updates the same version, over h's stamp (finding 2); c
begins, sees the old version again and updates it too; d deletes it and rolls back. The undo takes
updates before tombstones, so d's undo of its UPDATE finds d's own stamp, that of the DELETE, and
restores h's committed one. Now the reclaimer takes the version. Another transaction updates the
row and commits; c's conflict check skips the entry whose version is gone
(`mvcc_lifecycle.rs:344`), and c commits. `NoLostUpdate` therefore speaks of versions that
are still there. Second, the promotion endpoint opens its lease store with
the default prefix (`server/server/handlers_failover.rs:138`), the refresh loop with
`RED_LEASE_PREFIX` (`server/runtime/lease_loop.rs`); where that variable is set they use different
objects and do not exclude each other. The model gives them one object.

## 7. Proofs

`SnapshotManagerProofs` (`MaxXid`, `AutocommitPoolBatch`, `Frames`, `VacuumRetention` arbitrary;
assumptions: the named ones of the module). The inductive invariant adds to the type invariant
how the allocator, the pool and the active set lie to each other (every active or reserved number
has been passed; the two are disjoint), that every captured snapshot's unfinished numbers are in
its `in_progress` or above its xid, that each retained snapshot's horizon is registered, counted
and no higher than anything the snapshot excludes, and that a cutoff in use is no higher than the
horizon of any captured snapshot: those captured before it were read by it, and those captured
later start at or above it. Theorems: `TypeCorrect`, `NoLateWriter`, `CountedHorizons`,
`VacuumSafe`, and the action property `FrozenView`.

`ElectionProofs` (members, bounds and `RecordsSelfVote` arbitrary). The invariant ties what is in
memory to what is durable: the votes a candidate holds for a real ballot are grants on record
(`Mandates`), a voter's last vote dominates its grants (`LastVotes`), every ballot under way
carries its candidate's term and log (`Ballots`), and a voter that knew a higher watermark when
the candidate stood has not granted (`WatermarkRule`). `QuorumsIntersect` is a cardinality
argument. Theorems: `TypeCorrect`, `VotesAreFinal`, `ElectionSafety` (under `RecordsSelfVote`),
`WatermarkSafety`, `ProbesAreFree`.

`GroupCommitProofs` (any finite set of calls, any modes and kinds). `LogInv` holds whatever fails: the
positions are ordered (durable, synced, written, drained, reserved), a record is in one place, its
target lies in the zone between the positions that its place stands for, the epoch lock excludes,
and a flag that says "no runtime records" is right. It gives `TypeCorrect` and `ClaimsCorrect`.
`AckInv` adds that a call under way has its record where it left it; together they say that a durable
position is the position of a synced record, hence `AcknowledgedSurvives` and, action by action, the
step simulation of `Refinement`. `GapInv` adds that the zones are full (so the queue starts where
the file ends) and where a record lies relative to the calls answered before it, hence
`LogHasNoHoles`. These three assume `"append" \notin Faults`: finding 5 shows that they need to.

`WriterLeaseProofs` (any instances, TTL and bounds). The properties relate the object in the backend
to a lifecycle's memory, which change in different steps; `LeaseInv` says what each call knows in
between: a contender about to put has seen a lease that is its own or had expired by its clock
(`PutInv`), one that has put, and a lifecycle that holds a lease, finds it published or has lost it
after it expired (`VerifyInv`, `CurrentInv`), and a refresh or release that goes on has seen a
lease of its own (`SeenInv`, `ReleaseInv`). Compare-and-swap then carries what was seen over to the
moment of the write. Theorems: `TypeCorrect`, `LiveLeasePublished`, `SingleLiveWriter`, and the
action property `HandoverFenced`.

`MvccInvariant`, `MvccTransactionProofs` and `MvccProofs` (any finite set of connections, any rows,
versions, xids, tombstones and savepoints, overlapping statements, autocommit or not).
`ManagerRefinement` shows, without further assumptions, that every behaviour of `Mvcc` is one of
`SnapshotManager`, so that what is proved of the manager holds inside the server. For
`CommittedReadable` one has to know who can still put which stamp on a version, since an undo
puts back what it once read. `StampInv` says it: on every current version, a stamp that is there, or
that a journal or a buffer keeps in order to put it back, is of an aborted transaction or of one
that still answers for it with a journal entry or an xid it is about to abort. `IdInv`,
`JournalInv`, `OwnerInv` and `IsolationInv` say why no step of another connection can break that
(entity ids are used once, xids have one owner and are active until it ends them, nobody stamps the
versions of somebody else's open transaction), and `LatestInv` that the last committed version is in
the store and its writer settled. The reclaimer is safe because a stamp below the cutoff that has not
aborted belongs to a finished transaction, which answers for nothing. Theorems: `TypeCorrect` and
`CommittedReadable`, under `~ RollsBackReleased`: finding 6 shows that they need it.

`MvccSerialProofs` (the same, when statements do not overlap). `UnseenInv`: a snapshot shows no xid
of somebody else's open statement or transaction. `BaseInv`: a version a transaction saw at BEGIN is
in the store, its writer is done and in the snapshot, and every stamp that is there or can come back
has aborted, is not shown by the snapshot, or is the transaction's own with a journal entry behind
it. Theorem: `CapturedVisible`.

`UpdateInv` is about the versions that others have written and a transaction's snapshot does not
show: their stamps are not shown either, so the reclaimer leaves them (`LateOK`); the transaction
has no entry for one, so the conflict check excludes none; and every committed UPDATE that the
snapshot does not show has left one of its row (`WroteOK`). A pending write on such a row therefore
fails the check, and what has passed it stays valid until the COMMIT ends, since nobody else commits
in between (`ValidOK`). Two more facts carry this through a BEGIN: nobody else begins before it has
its snapshot (`BegunOK`), and an active writer of a stored version is an open transaction
(`OwnedInv`). Theorem: `UpdatesNotLost`.

With overlapping statements two COMMITs may both pass the check before either commits (finding 1).
There, too, an autocommit UPDATE commits its xid before it stamps, so that a snapshot taken in
between shows the stamp when it arrives, and `CapturedStaysVisible` is checked only without
autocommit and DELETE (`mvcc_concurrent`).

Only model-checked: `CapturedStaysVisible` of overlapping statements, and liveness, which is out of
the prover's reach.

## 8. Not modelled

The SSI dependency map, READ COMMITTED contexts, compound updates in explicit transactions,
claims, unique keys, ON CONFLICT, secondary indexes, graph and vector entities, deletes deferred
behind an event capture, errors inside an undo, pruning of the aborted set. Of the log: replay and
record formats, a truncation that fails after it has drained the queue, directory syncs, pages that
a failed fsync has dropped, checkpoint batches, archiving, and the older coordinators of
`server/storage/wal` (the page engine's). Of the lease: the uploads it protects, the gate's other
conditions, clocks that differ, a request carried out after its caller gave up, a TTL or holder id
given in a promotion request. Parsing, planning and
execution of queries, file formats, authentication and wire protocols are sequential data
processing or I/O.

## 9. Plan

1. Done: `SnapshotManager`, `Mvcc`, `Election`, `GroupCommit` (with `DurableLog`) and `WriterLease`,
   each with proofs.
2. A proof of `CapturedStaysVisible` for overlapping transactions without autocommit and DELETE.
3. Failover and fencing composed with `Election`: quorum, commit waiter, rollback of a deposed
   primary.
4. Ownership transitions and cross-range commit of the cluster.
5. The page engine's append coordinator (`server/storage/wal/append_coordinator.rs`).
