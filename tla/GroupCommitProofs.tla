--------------------------- MODULE GroupCommitProofs ---------------------------
(***************************************************************************)
(* Proofs about GroupCommit, for any finite set of calls and all modes.    *)
(*                                                                         *)
(* LogInv holds whatever the file refuses.  It orders the positions        *)
(* (durable <= synced <= written <= drained <= reserved) and says in which  *)
(* of the zones between them the targets of the records lie that have not   *)
(* been synced yet.  AckInv adds that a call that waits has its record in   *)
(* one of the zones: so a position that is durable is the position of a     *)
(* synced record.  GapInv adds that the zones are full, so that the queue   *)
(* always starts where the file ends, and where a record lies relative to   *)
(* the calls answered before it.  AckInv and GapInv fail where the file     *)
(* refuses appends: a failed round forgets the records it had drained.      *)
(***************************************************************************)
EXTENDS GroupCommit, FiniteSetTheorems, TLAPS

USE DEF callVars, stateVars, queueVars, walVars, flushVars, trimVars

\* The records that are on their way to the file or have reached it.
Held == entries \cup batch \cup written

Order ==
    /\ durable_lsn <= wal_durable /\ wal_durable <= current_lsn
    /\ mode # "Strict" => current_lsn <= drained_to /\ drained_to <= next_lsn

\* A record is in one place, and only a round under way has drained records.
Apart ==
    /\ entries \cap batch = {} /\ entries \cap written = {} /\ batch \cap written = {}
    /\ flusher # "drained" => batch = {}
    /\ mode = "Strict" => entries = {} /\ flusher = "idle"

Counted ==
    /\ mode # "Strict" => Cardinality(entries) <= next_lsn - drained_to
    /\ mode # "Strict" => Cardinality(batch) <= drained_to - current_lsn
    /\ current_lsn <= Cardinality(written)
    /\ wal_durable <= Cardinality(synced)

\* What is not synced lies behind what is.
Zones ==
    mode # "Strict" =>
      /\ \A c \in entries : target[c] > drained_to
      /\ \A c \in batch : target[c] > current_lsn
      /\ \A c \in written \ synced : target[c] > wal_durable

\* What a sync or a round is about to publish is durable.
Claims ==
    /\ \A c \in Calls : pc[c] = "synced" => target[c] <= wal_durable
    /\ flusher = "flushed" /\ flushed # Failed => flushed <= wal_durable

\* The epoch lock works, and a truncation that has drained finds everything synced.
Locked ==
    /\ Truncating => Leased = {} /\ ~FlusherLeased
    /\ checkpoint \in {"drained", "runtime_drained"} => entries = {} /\ synced = written

\* What a call has done so far fits where it is.
Begun ==
    /\ \A c \in Held : pc[c] \notin {"new", "leased"} /\ HasRecord(c)
    /\ \A c \in Calls : pc[c] \in {"queued", "waiting"} => mode # "Strict"
    /\ \A c \in Calls : pc[c] = "leased" => ~forces(kind[c])
    /\ \A c \in Calls : pc[c] # "new" => kind[c] \in Kinds
    /\ \A c \in Calls : pc[c] \in {"appended", "synced"} /\ kind[c] # "force" => mode = "Strict"

\* A flag that says there are no runtime records is right.
Announced ==
    runtime_wal_state = 1 =>
        \A c \in Calls : kind[c] = "runtime" => c \notin Held /\ pc[c] # "leased"

LogInv ==
    TypeOK /\ Order /\ Apart /\ Counted /\ Zones /\ Claims /\ Locked /\ Begun /\ Announced

\* The record of a call under way is where the call left it.
Placed ==
    \A c \in Calls :
      HasRecord(c) =>
        /\ pc[c] \in {"queued", "waiting"} => c \in Held
        /\ pc[c] = "appended" => c \in written
        /\ pc[c] = "synced" => c \in synced

AckInv == Placed /\ AckedIsDurable

\* Every position that is reserved and not drained belongs to a queued record.
Contiguous ==
    mode # "Strict" =>
      /\ Cardinality(entries) = next_lsn - drained_to
      /\ Cardinality(batch) = drained_to - current_lsn
      /\ \A p \in drained_to + 1 .. next_lsn : \E c \in entries : target[c] = p
      /\ \A c \in entries : target[c] <= next_lsn
      /\ \A c \in batch : target[c] <= drained_to
      /\ \A c \in written \ synced : target[c] <= current_lsn

\* As long as a record is not stored, calls begun after its answer are behind it.
Behind ==
    \A b \in Calls : \A a \in barrier[b] :
      /\ pc[a] \in {"ok", "lost"}
      /\ HasRecord(a) /\ ~Stored(a) =>
          /\ b \notin synced
          /\ ~(kind[b] = "sync" /\ pc[b] = "ok")
          /\ pc[a] = "ok" =>
               /\ b \in Held => target[a] < target[b]
               /\ kind[b] = "sync" /\ pc[b] \in {"queued", "waiting"} => target[a] <= target[b]
          /\ pc[a] = "lost" => b \notin Held /\ b \notin Leased

\* An answered record is stored or on its way.
Kept == \A a \in Calls : pc[a] = "ok" /\ HasRecord(a) => Stored(a) \/ a \in Held

GapInv == Contiguous /\ Behind /\ Kept

-----------------------------------------------------------------------------
(* Sets of calls. *)

\* Sets of calls are finite.
LEMMA FiniteCalls ==
    ASSUME NEW S \in SUBSET Calls
    PROVE  IsFiniteSet(S) /\ Cardinality(S) \in Nat
BY CallsAssumption, FS_Subset, FS_CardinalityType

\* A part of a batch is no longer than the batch.
LEMMA Smaller ==
    ASSUME NEW S \in SUBSET Calls, NEW T \in SUBSET S
    PROVE  Cardinality(T) <= Cardinality(S)
BY FiniteCalls, FS_Subset

\* Appending records that are not in the file adds their number to it.
LEMMA Joined ==
    ASSUME NEW S \in SUBSET Calls, NEW T \in SUBSET Calls, S \cap T = {}
    PROVE  Cardinality(S \cup T) = Cardinality(S) + Cardinality(T)
<1>1. Cardinality(S \cup T) = Cardinality(S) + Cardinality(T) - Cardinality({})
  BY FiniteCalls, FS_Union, S \cap T = {}
<1>2. QED
  BY <1>1, FiniteCalls, FS_EmptySet

\* The lengths the positions are compared with are numbers.
LEMMA Sizes ==
    ASSUME LogInv
    PROVE  /\ Cardinality(entries) \in Nat /\ Cardinality(batch) \in Nat
           /\ Cardinality(written) \in Nat /\ Cardinality(synced) \in Nat
BY FiniteCalls DEF LogInv, TypeOK

-----------------------------------------------------------------------------
(* LogInv is inductive. *)

\* A new coordinator on an empty file.
LEMMA InitLogInv == Init => LogInv
<1>1. Cardinality({}) = 0
  BY FS_EmptySet
<1> SUFFICES ASSUME Init PROVE LogInv
  OBVIOUS
<1>2. last_error \in BOOLEAN /\ shutdown \in BOOLEAN
  BY DEF Init
<1>3. TypeOK
  BY <1>2 DEF Init, TypeOK
<1>4. Order /\ Apart /\ Counted /\ Zones /\ Claims /\ Locked /\ Announced
  BY <1>1 DEF Init, Order, Apart, Counted, Zones, Claims, Locked, Announced, Truncating
<1>5. Begun
  BY DEF Init, Begun, Held
<1>6. QED
  BY <1>3, <1>4, <1>5 DEF LogInv

\* The steps of a call.
LEMMA CallKeepsLogInv ==
    ASSUME LogInv, NEW c \in Calls, (\E k \in Kinds : Begin(c, k)) \/ Call(c)
    PROVE  LogInv'
<1> USE DEF LogInv, TypeOK, Order, Apart, Counted, Zones, Claims, Locked, Begun, Announced, Held,
            HasRecord, forces, Leased, FlusherLeased, Truncating, Failed
<1>1. ASSUME NEW k \in Kinds, Begin(c, k) PROVE LogInv'
  BY <1>1 DEF Begin, mayRead, mayReadRecursively
<1>2. CASE Enqueue(c)
  <2>1. Cardinality(entries') = Cardinality(entries) + 1
    BY <1>2, FiniteCalls, FS_AddElement DEF Enqueue
  <2>2. QED
    BY <1>2, <2>1, Sizes DEF Enqueue
<1>3. CASE ReadEnd(c)
  BY <1>3 DEF ReadEnd
<1>4. CASE Register(c)
  BY <1>4 DEF Register, larger, waits
<1>5. CASE Return(c)
  BY <1>5 DEF Return
<1>6. CASE AppendStrict(c)
  <2>1. Cardinality(written') = Cardinality(written) + 1
    BY <1>6, FiniteCalls, FS_AddElement DEF AppendStrict
  <2>2. QED
    BY <1>6, <2>1, Sizes DEF AppendStrict
<1>7. CASE StrictFails(c)
  BY <1>7 DEF StrictFails
<1>8. CASE SyncWal(c)
  BY <1>8 DEF SyncWal
<1>9. CASE PublishSync(c)
  BY <1>9 DEF PublishSync, larger
<1>10. QED
  BY <1>1, <1>2, <1>3, <1>4, <1>5, <1>6, <1>7, <1>8, <1>9 DEF Call

\* The steps of run_group_commit_loop.
LEMMA FlusherKeepsLogInv ==
    ASSUME LogInv, Flusher
    PROVE  LogInv'
<1> USE DEF LogInv, TypeOK, Order, Apart, Counted, Zones, Claims, Locked, Begun, Announced, Held,
            HasRecord, forces, Leased, FlusherLeased, Truncating, Failed
<1>1. CASE Wake \/ Exit \/ Lease
  BY <1>1 DEF Wake, Exit, Lease, mayReadRecursively
<1>2. CASE Drain
  <2>1. Cardinality(entries') = 0
    BY <1>2, FS_EmptySet DEF Drain
  <2>2. QED
    BY <1>2, <2>1, Sizes DEF Drain
<1>3. CASE Flush
  <2>1. Cardinality(written') = Cardinality(written) + Cardinality(batch) /\ Cardinality(batch') = 0
    BY <1>3, Joined, FS_EmptySet DEF Flush
  <2>2. QED
    BY <1>3, <2>1, Sizes DEF Flush
<1>4. CASE FlushFails
  <2>1. PICK appended \in SUBSET batch :
            /\ written' = written \cup appended
            /\ current_lsn' = current_lsn + Cardinality(appended)
    BY <1>4 DEF FlushFails
  <2>2. Cardinality(written') = Cardinality(written) + Cardinality(appended)
    BY <2>1, Joined
  <2>3. Cardinality(appended) \in Nat /\ Cardinality(appended) <= Cardinality(batch)
    BY Smaller, FiniteCalls
  <2>4. Cardinality(batch') = 0
    BY <1>4, FS_EmptySet DEF FlushFails
  <2>5. QED
    BY <1>4, <2>1, <2>2, <2>3, <2>4, Sizes DEF FlushFails
<1>5. CASE Publish
  BY <1>5 DEF Publish
<1>6. QED
  BY <1>1, <1>2, <1>3, <1>4, <1>5 DEF Flusher

\* The steps of truncate_inner.
LEMMA TruncationKeepsLogInv ==
    ASSUME LogInv, Truncation
    PROVE  LogInv'
<1> USE DEF LogInv, TypeOK, Order, Apart, Counted, Zones, Claims, Locked, Begun, Announced, Held,
            HasRecord, forces, Leased, FlusherLeased, Truncating, Failed
<1>1. CASE LockEpoch
  BY <1>1 DEF LockEpoch
<1>2. CASE TruncateDrain
  <2>1. /\ Cardinality(written') = Cardinality(written) + Cardinality(entries)
        /\ Cardinality(entries') = 0 /\ Cardinality(batch) = 0
    BY <1>2, Joined, FS_EmptySet DEF TruncateDrain
  <2>2. QED
    BY <1>2, <2>1, Sizes DEF TruncateDrain
<1>3. CASE TruncateDrainFails
  <2>1. PICK appended \in SUBSET entries :
            /\ written' = written \cup appended
            /\ current_lsn' = current_lsn + Cardinality(appended)
    BY <1>3 DEF TruncateDrainFails
  <2>2. /\ Cardinality(written') = Cardinality(written) + Cardinality(appended)
        /\ Cardinality(appended) \in Nat /\ Cardinality(appended) <= Cardinality(entries)
        /\ Cardinality(entries') = 0 /\ Cardinality(batch) = 0
    BY <1>3, <2>1, Joined, Smaller, FiniteCalls, FS_EmptySet DEF TruncateDrainFails
  <2>3. QED
    BY <1>3, <2>1, <2>2, Sizes DEF TruncateDrainFails
<1>4. CASE TruncateRefused
  BY <1>4 DEF TruncateRefused, scanned
<1>5. CASE TruncateReset
  <2>1. /\ retained \in SUBSET written /\ Cardinality(retained) \in Nat
        /\ Cardinality(entries') = 0 /\ batch = {} /\ Cardinality(batch) = 0
    BY <1>5, FiniteCalls, FS_EmptySet DEF TruncateReset, retained, Records
  <2>2. runtime_wal_state' \in 0..2 /\ covered' \subseteq Calls
    BY <1>5 DEF TruncateReset, scanned
  <2>3. last_error' \in BOOLEAN /\ shutdown' \in BOOLEAN
    BY <1>5 DEF TruncateReset
  <2>4. TypeOK'
    BY <1>5, <2>1, <2>2, <2>3 DEF TruncateReset
  <2>5. Announced'
    BY <1>5, <2>1 DEF TruncateReset, scanned, retained, Records
  <2>6. QED
    BY <1>5, <2>1, <2>4, <2>5 DEF TruncateReset
<1>6. QED
  BY <1>1, <1>2, <1>3, <1>4, <1>5 DEF Truncation

\* The next coordinator, on what the file has kept.
LEMMA OpenKeepsLogInv ==
    ASSUME LogInv, NEW file \in SUBSET written, Open(file)
    PROVE  LogInv'
<1> USE DEF LogInv, TypeOK, Order, Apart, Counted, Zones, Claims, Locked, Begun, Announced, Held,
            HasRecord, forces, Leased, FlusherLeased, Truncating, Failed
<1>1. Cardinality(file) \in Nat /\ Cardinality({}) = 0
  BY FiniteCalls, FS_EmptySet
<1>2. /\ pc' \in [Calls -> {"new", "leased", "queued", "waiting", "appended", "synced",
                         "ok", "err", "lost"}]
      /\ Leased' = {}
  BY DEF Open
<1>3. last_error' \in BOOLEAN /\ shutdown' \in BOOLEAN
    BY DEF Open
<1>4. TypeOK'
  BY <1>1, <1>2, <1>3 DEF Open
<1>5. QED
  BY <1>1, <1>2, <1>4 DEF Open

\* One case for each group of actions.
LEMMA StepLogInv == LogInv /\ [Next]_vars => LogInv'
<1> SUFFICES ASSUME LogInv, [Next]_vars PROVE LogInv'
  OBVIOUS
<1>1. CASE WantTruncate
  BY <1>1 DEF WantTruncate, LogInv, TypeOK, Order, Apart, Counted, Zones,
              Claims, Locked, Begun, Announced, Held, HasRecord, forces, Leased, FlusherLeased,
              Truncating, Failed
<1>2. CASE Drop
  <2>1. shutdown' \in BOOLEAN
    BY <1>2 DEF Drop
  <2>2. TypeOK'
    BY <1>2, <2>1 DEF Drop, LogInv, TypeOK
  <2>3. QED
    BY <1>2, <2>2 DEF Drop, LogInv, Order, Apart, Counted, Zones,
              Claims, Locked, Begun, Announced, Held, HasRecord, forces, Leased, FlusherLeased,
              Truncating, Failed
<1>3. CASE ReleaseOwnership
  BY <1>3 DEF ReleaseOwnership,  LogInv, TypeOK, Order, Apart, Counted, Zones,
              Claims, Locked, Begun, Announced, Held, HasRecord, forces, Leased, FlusherLeased,
              Truncating, Failed
<1>4. CASE Reopen \/ Crash
  <2>1. \E file \in SUBSET written : Open(file)
    BY <1>4 DEF Reopen, Crash, LogInv, TypeOK
  <2>2. QED
    BY <2>1, OpenKeepsLogInv
<1>5. CASE UNCHANGED vars
  BY <1>5 DEF vars, LogInv, TypeOK, Order, Apart, Counted, Zones, Claims, Locked, Begun, Announced,
              Held, HasRecord, forces, Leased, FlusherLeased, Truncating, Failed
<1>6. QED
  BY <1>1, <1>4, <1>5, <1>3, <1>2, CallKeepsLogInv, FlusherKeepsLogInv, TruncationKeepsLogInv DEF Next

\* The positions and the zones stay in order in every behaviour.
LEMMA AlwaysLogInv == Spec => []LogInv
BY InitLogInv, StepLogInv, PTL DEF Spec

\* The variables of the coordinator, the queue and the writer keep their types.
THEOREM TypeCorrect == Spec => []TypeOK
<1>1. LogInv => TypeOK
  BY DEF LogInv
<1>2. QED
  BY <1>1, AlwaysLogInv, PTL

\* Whatever the file refuses, the coordinator claims no more of the log to be durable
\* than WalWriter has synced.
THEOREM ClaimsCorrect == Spec => []ClaimsOnlySynced
<1>1. LogInv => ClaimsOnlySynced
  BY DEF LogInv, Order, Counted, ClaimsOnlySynced
<1>2. QED
  BY <1>1, AlwaysLogInv, PTL

-----------------------------------------------------------------------------
(* AckInv is inductive where no append is refused. *)

\* The wait loop returns "ok" only for a position that a synced record has.
LEMMA CallKeepsAckInv ==
    ASSUME LogInv, AckInv, "append" \notin Faults,
           NEW c \in Calls, (\E k \in Kinds : Begin(c, k)) \/ Call(c)
    PROVE  AckInv'
<1> USE DEF LogInv, AckInv, TypeOK, Begun, Placed, AckedIsDurable, Stored, Held, HasRecord, forces, waits
<1>1. ASSUME NEW k \in Kinds, Begin(c, k) PROVE AckInv'
  BY <1>1 DEF Begin
<1>2. CASE Enqueue(c)
  BY <1>2 DEF Enqueue
<1>3. CASE ReadEnd(c)
  BY <1>3 DEF ReadEnd
<1>4. CASE Register(c)
  BY <1>4 DEF Register
<1>5. CASE Return(c)
  <2>1. pc'[c] = "ok" /\ HasRecord(c) => c \in synced
    BY <1>5 DEF Return, Order, Zones
  <2>2. QED
    BY <1>5, <2>1 DEF Return
<1>6. CASE AppendStrict(c) \/ StrictFails(c)
  BY <1>6 DEF AppendStrict, StrictFails
<1>7. CASE SyncWal(c)
  BY <1>7 DEF SyncWal
<1>8. CASE PublishSync(c)
  BY <1>8 DEF PublishSync
<1>9. QED
  BY <1>1, <1>2, <1>3, <1>4, <1>5, <1>6, <1>7, <1>8 DEF Call

\* The flusher moves records from zone to zone.
LEMMA FlusherKeepsAckInv ==
    ASSUME LogInv, AckInv, "append" \notin Faults, Flusher
    PROVE  AckInv'
<1> USE DEF LogInv, AckInv, TypeOK, Placed, AckedIsDurable, Stored, Held, HasRecord, waits
<1>1. CASE Wake \/ Exit \/ Lease \/ Publish
  BY <1>1 DEF Wake, Exit, Lease, Publish
<1>2. CASE Drain
  BY <1>2 DEF Drain, Apart
<1>3. CASE Flush \/ FlushFails
  BY <1>3 DEF Flush, FlushFails
<1>4. QED
  BY <1>1, <1>2, <1>3 DEF Flusher

\* A truncation replaces the log by what it retains, and stores the rest.
LEMMA NothingDropped ==
    ASSUME LogInv, TruncateReset
    PROVE  /\ retained \in SUBSET synced
           /\ covered' = covered \cup (synced \ retained)
<1> USE DEF LogInv, TypeOK, Locked, Truncating, Begun, Held, Announced
<1>1. synced = written /\ retained \in SUBSET written
  BY DEF TruncateReset, retained, Records
<1>2. \A c \in written : pc[c] \in {"ok", "err", "lost"}
  BY DEF TruncateReset, Leased
<1>3. {c \in written : kind[c] # "runtime" \/ checkpoint = "runtime_drained"} = written \ retained
  BY DEF TruncateReset, retained, Records, scanned
<1>4. QED
  BY <1>1, <1>2, <1>3 DEF TruncateReset

\* A truncation runs alone, and drops nothing it has not stored.
LEMMA TruncationKeepsAckInv ==
    ASSUME LogInv, AckInv, Truncation
    PROVE  AckInv'
<1> USE DEF LogInv, AckInv, TypeOK, Placed, AckedIsDurable, Stored, Held, HasRecord, waits, Locked,
            Truncating, Leased
<1>1. CASE LockEpoch \/ TruncateRefused
  BY <1>1 DEF LockEpoch, TruncateRefused
<1>2. CASE TruncateDrain
  BY <1>2 DEF TruncateDrain
<1>3. CASE TruncateDrainFails
  BY <1>3 DEF TruncateDrainFails
<1>4. CASE TruncateReset
  BY <1>4, NothingDropped DEF TruncateReset
<1>5. QED
  BY <1>1, <1>2, <1>3, <1>4 DEF Truncation

\* What a new coordinator finds includes all that was synced.
LEMMA Openings ==
    ASSUME LogInv, Reopen \/ Crash
    PROVE  \E file \in SUBSET written : synced \subseteq file /\ Open(file)
BY DEF Reopen, Crash, LogInv, TypeOK

\* Restarts keep what was synced.
LEMMA OpenKeepsAckInv ==
    ASSUME LogInv, AckInv, NEW file \in SUBSET written, synced \subseteq file, Open(file)
    PROVE  AckInv'
BY DEF Open, LogInv, AckInv, TypeOK, Placed, AckedIsDurable, Stored, HasRecord, waits, Leased

\* No step of a file that refuses no append breaks an acknowledgement.
LEMMA StepAckInv ==
    ASSUME "append" \notin Faults
    PROVE  LogInv /\ AckInv /\ [Next]_vars => AckInv'
<1> SUFFICES ASSUME LogInv, AckInv, [Next]_vars PROVE AckInv'
  OBVIOUS
<1>1. CASE WantTruncate \/ ReleaseOwnership \/ Drop \/ UNCHANGED vars
  BY <1>1 DEF WantTruncate, ReleaseOwnership, Drop, vars, AckInv, Placed, AckedIsDurable, Stored,
              Held, HasRecord, waits
<1>2. CASE Reopen \/ Crash
  BY <1>2, Openings, OpenKeepsAckInv
<1>3. QED
  BY <1>1, <1>2, CallKeepsAckInv, FlusherKeepsAckInv, TruncationKeepsAckInv DEF Next

\* So acknowledgements hold in every behaviour of such a file.
LEMMA AlwaysAckInv ==
    ASSUME "append" \notin Faults
    PROVE  Spec => []AckInv
<1>1. Init => AckInv
  BY DEF Init, AckInv, Placed, AckedIsDurable
<1>2. QED
  BY <1>1, StepAckInv, AlwaysLogInv, PTL DEF Spec

\* Where no append is refused, a commit that wait_until_durable or force_sync has answered
\* "ok" is in the synced file or stored by a checkpoint, through crashes and truncations.
THEOREM AcknowledgedSurvives ==
    ASSUME "append" \notin Faults
    PROVE  Spec => []AckedIsDurable
<1>1. AckInv => AckedIsDurable
  BY DEF AckInv
<1>2. QED
  BY <1>1, AlwaysAckInv, PTL

-----------------------------------------------------------------------------
(* The group commit implements the durable log. *)

\* The steps of a call submit it, answer it, harden the log or show nothing.
LEMMA CallRefines ==
    ASSUME LogInv, AckInv, NEW c \in Calls, (\E k \in Kinds : Begin(c, k)) \/ Call(c)
    PROVE  [Abstract!Next]_Abstract!vars
<1> USE DEF LogInv, AckInv, TypeOK, Status, Leased, HasRecord, waits
<1>1. ASSUME NEW k \in Kinds, Begin(c, k) PROVE Abstract!Submit(c)
  BY <1>1 DEF Begin, Abstract!Submit
<1>2. CASE Enqueue(c) \/ ReadEnd(c) \/ AppendStrict(c)
  BY <1>2 DEF Enqueue, ReadEnd, AppendStrict, Abstract!vars
<1>3. CASE Register(c)
  BY <1>3 DEF Register, Abstract!Accept, Abstract!Next, Abstract!vars
<1>4. CASE Return(c)
  <2>1. pc'[c] = "ok" /\ HasRecord(c) => c \in synced
    BY <1>4 DEF Return, Order, Zones, Placed, Held, Begun
  <2>2. Abstract!Accept(c) \/ Abstract!Refuse(c)
    BY <1>4, <2>1 DEF Return, Abstract!Accept, Abstract!Refuse
  <2>3. QED
    BY <2>2 DEF Abstract!Next
<1>5. CASE StrictFails(c)
  <2>1. Abstract!Refuse(c)
    BY <1>5 DEF StrictFails, Abstract!Refuse
  <2>2. QED
    BY <2>1 DEF Abstract!Next
<1>6. CASE SyncWal(c)
  <2>1. Abstract!Harden(written)
    BY <1>6 DEF SyncWal, Abstract!Harden, Begun, Held
  <2>2. QED
    BY <2>1 DEF Abstract!Next
<1>7. CASE PublishSync(c)
  <2>1. Abstract!Accept(c)
    BY <1>7 DEF PublishSync, Placed, Abstract!Accept
  <2>2. QED
    BY <2>1 DEF Abstract!Next
<1>8. QED
  BY <1>1, <1>2, <1>3, <1>4, <1>5, <1>6, <1>7 DEF Call, Abstract!Next

\* A round that syncs hardens the log.
LEMMA FlusherRefines ==
    ASSUME LogInv, Flusher
    PROVE  [Abstract!Next]_Abstract!vars
<1> USE DEF LogInv, TypeOK, Status, Leased, HasRecord, waits
<1>1. CASE Flush
  <2>1. Abstract!Harden(written \cup batch)
    BY <1>1 DEF Flush, Abstract!Harden, Begun, Held
  <2>2. QED
    BY <2>1 DEF Abstract!Next
<1>2. CASE Wake \/ Exit \/ Lease \/ Drain \/ FlushFails \/ Publish
  BY <1>2 DEF Wake, Exit, Lease, Drain, FlushFails, Publish, Abstract!vars
<1>3. QED
  BY <1>1, <1>2 DEF Flusher

\* A truncation is a checkpoint of what it does not retain.
LEMMA TruncationRefines ==
    ASSUME LogInv, Truncation
    PROVE  [Abstract!Next]_Abstract!vars
<1> USE DEF LogInv, TypeOK, Status, Leased, HasRecord, waits
<1>1. CASE TruncateDrain
  <2>1. Abstract!Harden(written \cup entries)
    BY <1>1 DEF TruncateDrain, Abstract!Harden, Begun, Held
  <2>2. QED
    BY <2>1 DEF Abstract!Next
<1>2. CASE TruncateReset
  <2>1. Abstract!Checkpoint(synced \ retained)
    BY <1>2, NothingDropped
       DEF TruncateReset, Abstract!Checkpoint, Abstract!Pending, Begun, Held, Locked, Truncating
  <2>2. QED
    BY <2>1 DEF Abstract!Next
<1>3. CASE LockEpoch \/ TruncateDrainFails \/ TruncateRefused
  BY <1>3 DEF LockEpoch, TruncateDrainFails, TruncateRefused, Abstract!vars
<1>4. QED
  BY <1>1, <1>2, <1>3 DEF Truncation

\* A restart forgets calls under way and asynchronous commits that had not been synced.
LEMMA OpenRefines ==
    ASSUME LogInv, AckInv, NEW file \in SUBSET written, synced \subseteq file, Open(file)
    PROVE  Abstract!Crash(file)
<1> USE DEF LogInv, AckInv, TypeOK, Status, Leased, HasRecord, waits
<1> DEFINE gone == {c \in Calls : pc[c] = "ok" /\ HasRecord(c) /\ c \notin file \cup covered}
<1>1. \A c \in gone : ~waits(c)
  BY DEF AckedIsDurable, Stored
<1>2. pc' = [c \in Calls |-> IF c \in Leased \cup gone THEN "lost" ELSE pc[c]]
  BY DEF Open
<1>3. [c \in Calls |-> Status(c)]' =
         [c \in Calls |-> IF c \in Leased \cup gone THEN "lost" ELSE Status(c)]
  BY <1>2
<1>4. \A c \in file : Status(c) # "idle"
  BY DEF Begun, Held
<1>5. UNCHANGED {c \in Calls : pc[c] # "new" /\ (~HasRecord(c) \/ ~waits(c))}
  BY <1>2 DEF Open
<1>6. synced' = synced \cup file /\ covered' = covered
  BY DEF Open
<1>7. Abstract!Pending = Leased
  BY DEF Abstract!Pending
<1>8. gone \in SUBSET {c \in {b \in Calls : pc[b] # "new" /\ (~HasRecord(b) \/ ~waits(b))} :
                         [b \in Calls |-> Status(b)][c] = "ok" /\ c \notin synced' \cup covered}
  BY <1>1, <1>6
<1>9. [c \in Calls |-> Status(c)]' =
         [c \in Calls |-> IF c \in Abstract!Pending \cup gone
                         THEN "lost" ELSE [b \in Calls |-> Status(b)][c]]
  BY <1>3, <1>7
<1>10. \A c \in file : [b \in Calls |-> Status(b)][c] # "idle"
  BY <1>4
<1> HIDE DEF gone, Status, Leased, HasRecord, waits
<1>11. QED
  BY <1>5, <1>6, <1>8, <1>9, <1>10 DEF Abstract!Crash

\* Every step is one of the abstract log's, or changes nothing its callers see.
LEMMA StepRefines == LogInv /\ AckInv /\ [Next]_vars => [Abstract!Next]_Abstract!vars
<1> SUFFICES ASSUME LogInv, AckInv, [Next]_vars PROVE [Abstract!Next]_Abstract!vars
  OBVIOUS
<1>1. CASE WantTruncate \/ ReleaseOwnership \/ Drop \/ UNCHANGED vars
  BY <1>1 DEF WantTruncate, ReleaseOwnership, Drop, vars, Abstract!vars, Status, Leased, HasRecord,
              waits
<1>2. CASE Reopen \/ Crash
  BY <1>2, Openings, OpenRefines DEF Abstract!Next, LogInv, TypeOK
<1>3. QED
  BY <1>1, <1>2, CallRefines, FlusherRefines, TruncationRefines DEF Next

\* Where no append is refused, the coordinator with its queue, flusher and truncation
\* implements DurableLog.
THEOREM Refinement ==
    ASSUME "append" \notin Faults
    PROVE  Spec => IsDurableLog
<1>1. Init => Abstract!Init
  BY DEF Init, Abstract!Init, Status, Leased
<1>2. QED
  BY <1>1, StepRefines, AlwaysLogInv, AlwaysAckInv, PTL DEF Spec, IsDurableLog, Abstract!Spec

-----------------------------------------------------------------------------
(* GapInv is inductive where no append is refused. *)

\* enqueue reserves the next position for the record it pushes.
LEMMA CallKeepsContiguous ==
    ASSUME LogInv, GapInv, "append" \notin Faults,
           NEW c \in Calls, (\E k \in Kinds : Begin(c, k)) \/ Call(c)
    PROVE  Contiguous'
<1> USE DEF LogInv, GapInv, TypeOK, Contiguous, Begun, Held
<1>1. ASSUME NEW k \in Kinds, Begin(c, k) PROVE Contiguous'
  BY <1>1 DEF Begin
<1>2. CASE Enqueue(c)
  <2>1. Cardinality(entries') = Cardinality(entries) + 1
    BY <1>2, FiniteCalls, FS_AddElement DEF Enqueue
  <2>2. \A b \in Held : target'[b] = target[b]
    BY <1>2 DEF Enqueue
  <2>3. \A p \in drained_to' + 1 .. next_lsn' : \E b \in entries' : target'[b] = p
    BY <1>2, <2>2 DEF Enqueue
  <2>4. QED
    BY <1>2, <2>1, <2>2, <2>3, Sizes DEF Enqueue, Order
<1>3. CASE ReadEnd(c) \/ Register(c) \/ Return(c) \/ StrictFails(c) \/ PublishSync(c)
  BY <1>3 DEF ReadEnd, Register, Return, StrictFails, PublishSync
<1>4. CASE AppendStrict(c)
  BY <1>4 DEF AppendStrict
<1>5. CASE SyncWal(c)
  <2>1. mode # "Strict" => c \notin entries \cup batch
    BY <1>5 DEF SyncWal, HasRecord
  <2>2. QED
    BY <1>5, <2>1 DEF SyncWal
<1>6. QED
  BY <1>1, <1>2, <1>3, <1>4, <1>5 DEF Call

\* A round drains all that is reserved.
LEMMA FlusherKeepsContiguous ==
    ASSUME LogInv, GapInv, "append" \notin Faults, Flusher
    PROVE  Contiguous'
<1> USE DEF LogInv, GapInv, TypeOK, Contiguous, Apart, Order
<1>1. CASE Wake \/ Exit \/ Lease \/ Publish
  BY <1>1 DEF Wake, Exit, Lease, Publish
<1>2. CASE Drain
  <2>1. Cardinality({}) = 0 /\ batch = {}
    BY <1>2, FS_EmptySet DEF Drain
  <2>2. QED
    BY <1>2, <2>1, Sizes DEF Drain
<1>3. CASE Flush \/ FlushFails
  <2>1. Cardinality({}) = 0
    BY FS_EmptySet
  <2>2. mode # "Strict" => current_lsn' = drained_to
    BY <1>3, Sizes DEF Flush, FlushFails
  <2>3. /\ UNCHANGED <<mode, entries, next_lsn, drained_to, target>> /\ batch' = {}
        /\ written' \ synced' \subseteq batch \cup (written \ synced)
    BY <1>3 DEF Flush, FlushFails
  <2>4. QED
    BY <2>1, <2>2, <2>3
<1>4. QED
  BY <1>1, <1>2, <1>3 DEF Flusher

\* So the queue always starts where the log ends.
LEMMA AlwaysInPlace ==
    ASSUME LogInv, GapInv, Truncating
    PROVE  inPlace
<1> USE DEF LogInv, GapInv, TypeOK
<1>1. CASE mode = "Strict"
  BY <1>1 DEF Apart, inPlace
<1>2. CASE mode # "Strict"
  <2>1. batch = {} /\ Cardinality(batch) = 0
    BY FS_EmptySet DEF Apart, Locked, FlusherLeased
  <2>2. drained_to = current_lsn
    BY <1>2, <2>1 DEF Contiguous
  <2>3. ASSUME NEW c \in entries, \A b \in entries : target[c] <= target[b]
        PROVE  target[c] = current_lsn + 1
    <3>1. drained_to + 1 <= target[c] /\ target[c] <= next_lsn
      BY <1>2, <2>3 DEF Zones, Contiguous
    <3>2. PICK b \in entries : target[b] = drained_to + 1
      BY <1>2, <3>1 DEF Contiguous
    <3>3. QED
      BY <2>2, <2>3, <3>1, <3>2
  <2>4. QED
    BY <2>3 DEF inPlace
<1>3. QED
  BY <1>1, <1>2

\* A truncation drains all that is reserved, and moves all positions together.
LEMMA TruncationKeepsContiguous ==
    ASSUME LogInv, GapInv, "append" \notin Faults, Truncation
    PROVE  Contiguous'
<1> USE DEF LogInv, GapInv, TypeOK, Contiguous, Apart, Order, Locked, Truncating, FlusherLeased
<1>1. CASE LockEpoch \/ TruncateRefused
  BY <1>1 DEF LockEpoch, TruncateRefused
<1>2. CASE TruncateDrain \/ TruncateDrainFails
  <2>1. Cardinality({}) = 0 /\ batch = {}
    BY <1>2, FS_EmptySet DEF TruncateDrain, TruncateDrainFails
  <2>2. written' = written \cup entries /\ current_lsn' = current_lsn + Cardinality(entries)
    BY <1>2, AlwaysInPlace DEF TruncateDrain, TruncateDrainFails
  <2>3. mode # "Strict" => current_lsn' = next_lsn
    BY <2>1, <2>2, Sizes
  <2>4. /\ UNCHANGED <<mode, batch, next_lsn, target>> /\ entries' = {} /\ drained_to' = next_lsn
        /\ written' \ synced' \subseteq entries \cup (written \ synced)
    BY <1>2, <2>2 DEF TruncateDrain, TruncateDrainFails
  <2>5. QED
    BY <2>1, <2>3, <2>4
<1>3. CASE TruncateReset
  <2>1. Cardinality({}) = 0 /\ batch = {} /\ Cardinality(retained) \in Nat
    BY <1>3, FS_EmptySet, FiniteCalls DEF TruncateReset, retained, Records
  <2>2. QED
    BY <1>3, <2>1 DEF TruncateReset
<1>4. QED
  BY <1>1, <1>2, <1>3 DEF Truncation

\* A new queue starts at the end of the file.
LEMMA OpenKeepsContiguous ==
    ASSUME LogInv, NEW file \in SUBSET written, Open(file)
    PROVE  Contiguous'
<1>1. Cardinality({}) = 0 /\ Cardinality(file) \in Nat
  BY FS_EmptySet, FiniteCalls DEF LogInv, TypeOK
<1>2. QED
  BY <1>1 DEF Open, Contiguous

\* A call takes a position behind all records on their way.
LEMMA CallKeepsBehind ==
    ASSUME LogInv, AckInv, GapInv, "append" \notin Faults,
           NEW c \in Calls, (\E k \in Kinds : Begin(c, k)) \/ Call(c)
    PROVE  Behind' /\ Kept'
<1> USE DEF LogInv, AckInv, GapInv, TypeOK, Behind, Kept, Begun, Held, HasRecord, Stored, forces, Leased
<1>1. ASSUME NEW k \in Kinds, Begin(c, k) PROVE Behind' /\ Kept'
  BY <1>1 DEF Begin
<1>2. CASE Enqueue(c)
  BY <1>2 DEF Enqueue, Contiguous, Order
<1>3. CASE ReadEnd(c)
  BY <1>3 DEF ReadEnd, Contiguous, Order
<1>4. CASE Register(c)
  BY <1>4 DEF Register, Placed, waits
<1>5. CASE Return(c)
  BY <1>5 DEF Return, Order, Zones, Placed
<1>6. CASE AppendStrict(c)
  BY <1>6 DEF AppendStrict, AckedIsDurable, waits
<1>7. CASE SyncWal(c)
  BY <1>7 DEF SyncWal, AckedIsDurable, waits, Zones, Contiguous, Order
<1>8. CASE StrictFails(c)
  BY <1>8 DEF StrictFails
<1>9. CASE PublishSync(c)
  BY <1>9 DEF PublishSync, AckedIsDurable, waits, Placed
<1>10. QED
  BY <1>1, <1>2, <1>3, <1>4, <1>5, <1>6, <1>7, <1>8, <1>9 DEF Call

\* A round syncs a record with all that lie before it.
LEMMA FlusherKeepsBehind ==
    ASSUME LogInv, AckInv, GapInv, "append" \notin Faults, Flusher
    PROVE  Behind' /\ Kept'
<1> USE DEF LogInv, AckInv, GapInv, TypeOK, Behind, Kept, Held, HasRecord, Stored, Leased
<1>1. CASE Wake \/ Exit \/ Lease \/ Publish
  BY <1>1 DEF Wake, Exit, Lease, Publish
<1>2. CASE Drain
  BY <1>2 DEF Drain, Apart
<1>3. CASE Flush
  BY <1>3 DEF Flush, Apart, Zones, Contiguous, Order
<1>4. CASE FlushFails
  BY <1>4 DEF FlushFails
<1>5. QED
  BY <1>1, <1>2, <1>3, <1>4 DEF Flusher

\* A truncation syncs everything.
LEMMA TruncationKeepsBehind ==
    ASSUME LogInv, AckInv, GapInv, "append" \notin Faults, Truncation
    PROVE  Behind' /\ Kept'
<1> USE DEF LogInv, AckInv, GapInv, TypeOK, Behind, Kept, Held, HasRecord, Stored, Leased, Locked, Truncating,
            FlusherLeased, Apart
<1>1. CASE LockEpoch \/ TruncateRefused
  BY <1>1 DEF LockEpoch, TruncateRefused
<1>2. CASE TruncateDrain
  BY <1>2 DEF TruncateDrain
<1>3. CASE TruncateDrainFails
  BY <1>3, AlwaysInPlace DEF TruncateDrainFails
<1>4. CASE TruncateReset
  BY <1>4, NothingDropped DEF TruncateReset
<1>5. QED
  BY <1>1, <1>2, <1>3, <1>4 DEF Truncation

\* The file keeps a prefix of what was not synced.
LEMMA OpenKeepsBehind ==
    ASSUME LogInv, AckInv, GapInv, NEW file \in SUBSET written, synced \subseteq file,
           \A a \in file \ synced, b \in written \ synced : target[b] < target[a] => b \in file,
           Open(file)
    PROVE  Behind' /\ Kept'
<1> USE DEF LogInv, AckInv, GapInv, TypeOK, Behind, Kept, Held, HasRecord, Stored, Leased
<1>1. ASSUME NEW b \in file, NEW a \in barrier[b], HasRecord(a) PROVE a \in file \cup covered
  BY <1>1 DEF AckedIsDurable, waits, Zones, Contiguous, Order
<1>2. QED
  BY <1>1 DEF Open

\* No step of a file that refuses no append leaves a gap.
LEMMA StepGapInv ==
    ASSUME "append" \notin Faults
    PROVE  LogInv /\ AckInv /\ GapInv /\ [Next]_vars => GapInv'
<1> SUFFICES ASSUME LogInv, AckInv, GapInv, [Next]_vars PROVE GapInv'
  OBVIOUS
<1>1. CASE WantTruncate \/ ReleaseOwnership \/ Drop \/ UNCHANGED vars
  BY <1>1 DEF WantTruncate, ReleaseOwnership, Drop, vars, GapInv, Contiguous, Behind, Kept, Stored,
              Held, HasRecord, Leased
<1>2. CASE Reopen \/ Crash
  <2>1. \E file \in SUBSET written :
           /\ synced \subseteq file /\ Open(file)
           /\ \A a \in file \ synced, b \in written \ synced : target[b] < target[a] => b \in file
    <3>1. CASE Reopen
      BY <3>1 DEF Reopen, LogInv, TypeOK
    <3>2. CASE Crash
      <4>1. PICK kept \in SUBSET (written \ synced) :
              /\ \A a \in kept, b \in written \ synced : target[b] < target[a] => b \in kept
              /\ Open(synced \cup kept)
        BY <3>2 DEF Crash
      <4>2. (synced \cup kept) \ synced = kept /\ synced \cup kept \in SUBSET written
        BY DEF LogInv, TypeOK
      <4>3. QED
        BY <4>1, <4>2
    <3>3. QED
      BY <1>2, <3>1, <3>2
  <2>2. QED
    BY <2>1, OpenKeepsContiguous, OpenKeepsBehind DEF GapInv
<1>3. QED
  BY <1>1, <1>2, CallKeepsContiguous, CallKeepsBehind, FlusherKeepsContiguous, FlusherKeepsBehind,
     TruncationKeepsContiguous, TruncationKeepsBehind DEF Next, GapInv

\* Where no append is refused, the log of WalWriter has no holes, and sync_pending covers
\* all commits answered before it.
THEOREM LogHasNoHoles ==
    ASSUME "append" \notin Faults
    PROVE  Spec => []NoHoles
<1>1. Init => GapInv
  <2>1. Cardinality({}) = 0
    BY FS_EmptySet
  <2>2. QED
    BY <2>1 DEF Init, GapInv, Contiguous, Behind, Kept
<1>2. GapInv => NoHoles
  BY DEF GapInv, Behind, NoHoles
<1>3. QED
  BY <1>1, <1>2, StepGapInv, AlwaysLogInv, AlwaysAckInv, PTL DEF Spec
==============================================================================
