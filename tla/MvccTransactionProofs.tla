------------------------ MODULE MvccTransactionProofs ------------------------
(***************************************************************************)
(* Every action of a transaction, from BEGIN to COMMIT or ROLLBACK,        *)
(* preserves the invariant of MvccInvariant.                               *)
(***************************************************************************)
EXTENDS MvccInvariant

-----------------------------------------------------------------------------
(* Facts that every action needs.                                          *)

\* The manager keeps its invariant and so its types.
LEMMA ManagerStep ==
    ASSUME Inv, [Next]_vars
    PROVE  P!Inv' /\ Manager!TypeOK'
<1>1. P!Inv'
  BY ManagerInv DEF Inv
<1>2. Manager!TypeOK'
  BY <1>1 DEF P!Inv, P!TypeOK, Manager!TypeOK, P!Xid, Manager!Xid, P!Snapshot, Manager!Snapshot,
              P!Frame, Manager!Frame
<1> QED BY <1>1, <1>2

\* A step of c is a step of Mvcc.
LEMMA ConnStep ==
    ASSUME Inv, NEW c \in Conns, Start(c) \/ Continue(c)
    PROVE  P!Inv' /\ Manager!TypeOK'
  BY ManagerStep DEF Next

\* What the invariant says of one connection.
LEMMA InvFacts ==
    ASSUME Inv, NEW c \in Conns
    PROVE  /\ P!Inv /\ TypeOK /\ PhaseOK(c) /\ OrderOK(c) /\ XidOK(c) /\ SnapshotOK(c)
           /\ JournalOK(c)
  BY DEF Inv, StateInv, LocalInv, LocalOK, JournalInv

-----------------------------------------------------------------------------
(* Transaction control.                                                    *)

\* BEGIN: the new xid is nobody else's.
LEMMA InvBegin ==
    ASSUME Inv, NEW c \in Conns, Begin(c)
    PROVE  Inv'
<1>1. /\ P!Inv /\ TypeOK /\ PhaseOK(c) /\ Ready(c) /\ ~ in_transaction(c) /\ Manager!begin
      /\ ctx' = [ctx EXCEPT ![c].xid = next_xid] /\ phase' = [phase EXCEPT ![c] = "begun"]
      /\ UNCHANGED <<store, next_id, updates, tombstones, lock, todo, buf, history>>
  BY InvFacts DEF Begin, Goto
<1>2. P!Inv' /\ Manager!TypeOK'
  BY ConnStep DEF Start
<1>3. /\ Effects({}) /\ next_xid \in 1..MaxXid /\ next_xid \notin begun
      /\ active' = active \cup {next_xid} /\ begun' = begun \cup {next_xid}
      /\ aborted' = aborted
  BY <1>1, BeginEffects
<1>4. /\ ctx \in [Conns -> Context] /\ phase \in [Conns -> Phase] /\ phase[c] = "idle"
      /\ ctx[c].xid = XID_NONE /\ ctx[c].savepoints = <<>> /\ ctx[c].released = <<>>
      /\ updates[c] = <<>> /\ tombstones[c] = <<>> /\ todo[c] = <<>>
  BY <1>1 DEF TypeOK, PhaseOK, Ready, in_transaction, EndPhase
<1>5. /\ ctx'[c].xid = next_xid /\ ctx'[c].savepoints = <<>> /\ ctx'[c].released = <<>>
      /\ ctx'[c] \in Context /\ phase'[c] = "begun" /\ Others(c)
  <2>1. ctx'[c] = [ctx[c] EXCEPT !.xid = next_xid] /\ ctx[c] \in Context
    BY <1>1, <1>4
  <2>2. next_xid \in 0..MaxXid
    BY <1>3
  <2>3. /\ ctx'[c].xid = next_xid /\ ctx'[c].savepoints = <<>> /\ ctx'[c].released = <<>>
        /\ ctx'[c] \in Context
    BY <1>4, <2>1, <2>2 DEF Context
  <2>4. phase'[c] = "begun" /\ Others(c)
    BY <1>1, <1>4 DEF Others, Same
  <2> QED BY <2>3, <2>4
<1>6. TypeOK'
  <2>1. ctx' \in [Conns -> Context]
    BY <1>1, <1>4, <1>5
  <2>2. phase' \in [Conns -> Phase]
    BY <1>1, <1>4 DEF Phase
  <2>3. \A d \in Conns : lock' = d <=> phase'[d] \in {"publishing", "deleting"}
    BY <1>1, <1>4 DEF TypeOK
  <2> QED BY <1>1, <1>2, <2>1, <2>2, <2>3 DEF TypeOK, history
<1>7. /\ group(ctx[c])' = {next_xid} /\ txn_xids(c)' = {next_xid} /\ auto_xids(c)' = {}
      /\ in_transaction(c)' /\ journal(c) = {}
  BY <1>1, <1>3, <1>4, <1>5, ToSetEmpty
     DEF group, txn_xids, auto_xids, in_transaction, journal, XID_NONE
<1>8. LocalOK(c)'
  <2>1. PhaseOK(c)'
    BY <1>1, <1>4, <1>5, <1>7 DEF PhaseOK, TxnPhase, EndPhase, Reads, Reserves
  <2>2. OrderOK(c)'
    BY <1>5, ToSetEmpty DEF OrderOK, Increasing
  <2>3. XidOK(c)'
    BY <1>3, <1>5, <1>7 DEF XidOK, Xids
  <2>4. SnapshotOK(c)'
    BY <1>5 DEF SnapshotOK
  <2> QED BY <2>1, <2>2, <2>3, <2>4 DEF LocalOK
<1>9. StateInv'
  <2>1. ~ Reads(c)' /\ ~ Reserves(c)' /\ phase'[c] \notin {"updating", "deleting"}
    BY <1>5 DEF Reads, Reserves
  <2>2. \A id, x : ~ Answers(c, id, x)
    BY <1>4, <1>7 DEF Answers
  <2>3. next_id' \in Nat /\ next_id <= next_id'
    BY <1>1, TypeFacts
  <2> QED BY <1>1, <1>3, <1>4, <1>5, <1>7, <1>8, <2>1, <2>2, <2>3, QuietStep DEF history
<1> QED BY <1>2, <1>6, <1>9 DEF Inv

\* The snapshot is taken: from here on the manager holds it for c.
LEMMA InvCapture ==
    ASSUME Inv, NEW c \in Conns, Capture(c)
    PROVE  Inv'
<1> DEFINE snap == Manager!captured_snapshot(ctx[c].xid)
<1>1. /\ P!Inv /\ TypeOK /\ PhaseOK(c) /\ OrderOK(c) /\ XidOK(c) /\ JournalOK(c)
      /\ phase[c] = "begun" /\ Manager!snapshot(ctx[c].xid)
      /\ ctx' = [ctx EXCEPT ![c].snapshot = snap] /\ phase' = [phase EXCEPT ![c] = "idle"]
      /\ UNCHANGED <<store, next_id, updates, tombstones, lock, todo, buf, latest, wrote>>
  BY InvFacts DEF Capture, Goto
<1>v. /\ view' = [view EXCEPT ![c] = scan(snap, {ctx[c].xid})]
      /\ base' = [base EXCEPT ![c] = view'[c] \cap {latest[r] : r \in Ids}]
  BY DEF Capture
<1>2. P!Inv' /\ Manager!TypeOK'
  BY ConnStep DEF Continue
<1>3. /\ Effects({}) /\ ctx[c].xid \in active /\ active' = active /\ aborted' = aborted
      /\ begun' = begun /\ snap \in held'[ctx[c].xid]
  BY <1>1, CaptureEffects
<1> HIDE DEF snap
<1>4. /\ ctx \in [Conns -> Context] /\ phase \in [Conns -> Phase]
      /\ updates[c] = <<>> /\ tombstones[c] = <<>> /\ todo[c] = <<>>
      /\ ctx[c].savepoints = <<>> /\ ctx[c].released = <<>>
  BY <1>1 DEF TypeOK, PhaseOK, EndPhase
<1>5. snap \in Manager!Snapshot
  <2>1. ctx[c].xid \in Manager!Xid
    BY <1>1, <1>3, ManagerFacts DEF Manager!Xid
  <2> QED BY <1>2, <1>3, <2>1 DEF Manager!TypeOK
<1>6. /\ ctx'[c].xid = ctx[c].xid /\ ctx'[c].savepoints = <<>> /\ ctx'[c].released = <<>>
      /\ ctx'[c].snapshot = snap /\ ctx'[c] \in Context /\ phase'[c] = "idle" /\ Others(c)
  <2>1. ctx'[c] = [ctx[c] EXCEPT !.snapshot = snap] /\ ctx[c] \in Context
    BY <1>1, <1>4
  <2>2. /\ ctx'[c].xid = ctx[c].xid /\ ctx'[c].savepoints = <<>> /\ ctx'[c].released = <<>>
        /\ ctx'[c].snapshot = snap /\ ctx'[c] \in Context
    BY <1>4, <1>5, <2>1 DEF Context
  <2>3. phase'[c] = "idle" /\ Others(c)
    BY <1>1, <1>4 DEF Others, Same
  <2> QED BY <2>2, <2>3
<1>7. TypeOK'
  <2>1. ctx' \in [Conns -> Context]
    BY <1>1, <1>4, <1>6
  <2>2. phase' \in [Conns -> Phase]
    BY <1>1, <1>4 DEF Phase
  <2>3. \A d \in Conns : lock' = d <=> phase'[d] \in {"publishing", "deleting"}
    BY <1>1, <1>4 DEF TypeOK
  <2>4. view' \in [Conns -> SUBSET Ids] /\ base' \in [Conns -> SUBSET Ids]
    <3>1. scan(snap, {ctx[c].xid}) \subseteq Ids
      BY <1>1, TypeFacts DEF scan
    <3>2. view' \in [Conns -> SUBSET Ids]
      BY <1>1, <1>v, <3>1 DEF TypeOK
    <3>3. view'[c] \cap {latest[r] : r \in Ids} \subseteq Ids
      BY <3>2
    <3> QED BY <1>1, <1>v, <3>2, <3>3 DEF TypeOK
  <2> QED BY <1>1, <1>2, <2>1, <2>2, <2>3, <2>4 DEF TypeOK
<1>8. /\ group(ctx[c])' = group(ctx[c]) /\ txn_xids(c)' = txn_xids(c) /\ auto_xids(c)' = {}
      /\ in_transaction(c)' <=> in_transaction(c)
      /\ journal(c) = {}
  BY <1>1, <1>4, <1>6, ToSetEmpty DEF group, txn_xids, auto_xids, in_transaction, journal
<1>9. LocalOK(c)'
  <2>1. PhaseOK(c)'
    BY <1>1, <1>4, <1>6 DEF PhaseOK, TxnPhase, AutoPhase, EndPhase, Reads, Reserves
  <2>2. OrderOK(c)'
    BY <1>6, ToSetEmpty DEF OrderOK, Increasing
  <2>3. XidOK(c)'
    BY <1>1, <1>3, <1>6, <1>8 DEF XidOK, Xids
  <2>4. SnapshotOK(c)'
    BY <1>3, <1>6 DEF SnapshotOK
  <2> QED BY <2>1, <2>2, <2>3, <2>4 DEF LocalOK
<1>10. StateInv'
  <2>1. ~ Reads(c)' /\ ~ Reserves(c)' /\ phase'[c] \notin {"updating", "deleting"}
    BY <1>6 DEF Reads, Reserves
  <2>2. \A id, x : ~ Answers(c, id, x)
    BY <1>1, <1>8 DEF Answers
  <2>3. next_id' \in Nat /\ next_id <= next_id'
    BY <1>1, TypeFacts
  <2> QED BY <1>1, <1>3, <1>4, <1>6, <1>8, <1>9, <2>1, <2>2, <2>3, QuietStep
<1> QED BY <1>2, <1>7, <1>10 DEF Inv

\* SAVEPOINT: its xid is above the transaction's others.
LEMMA InvSavepoint ==
    ASSUME Inv, NEW c \in Conns, Savepoint(c)
    PROVE  Inv'
<1> DEFINE stack == Append(ctx[c].savepoints, next_xid)
<1>1. /\ P!Inv /\ TypeOK /\ PhaseOK(c) /\ OrderOK(c) /\ XidOK(c) /\ SnapshotOK(c) /\ JournalOK(c)
      /\ phase[c] = "idle" /\ in_transaction(c) /\ Manager!begin
      /\ ctx' = [ctx EXCEPT ![c].savepoints = stack]
      /\ UNCHANGED <<store, next_id, updates, tombstones, stmtVars, history>>
  BY InvFacts DEF Savepoint, ReadyInTransaction, Ready
<1>2. P!Inv' /\ Manager!TypeOK'
  BY ConnStep DEF Start
<1>3. /\ Effects({}) /\ next_xid \in 1..MaxXid /\ next_xid \notin begun
      /\ active' = active \cup {next_xid} /\ begun' = begun \cup {next_xid}
      /\ aborted' = aborted /\ held' = held
  BY <1>1, BeginEffects
<1>4. /\ ctx \in [Conns -> Context] /\ ctx[c] \in Context
      /\ ctx[c].savepoints \in Seq(1..MaxXid) /\ todo[c] = <<>>
  BY <1>1 DEF TypeOK, Context, PhaseOK, EndPhase
<1>s. /\ stack \in Seq(1..MaxXid) /\ ToSet(stack) = ToSet(ctx[c].savepoints) \cup {next_xid}
      /\ Len(stack) = Len(ctx[c].savepoints) + 1 /\ Len(ctx[c].savepoints) \in Nat
      /\ \A i \in 1..Len(ctx[c].savepoints) : stack[i] = ctx[c].savepoints[i]
      /\ stack[Len(ctx[c].savepoints) + 1] = next_xid
  <2> DEFINE S == 1..MaxXid
  <2>1. ctx[c].savepoints \in Seq(S) /\ next_xid \in S
    BY <1>3, <1>4
  <2> HIDE DEF S
  <2>2. /\ stack \in Seq(S) /\ ToSet(stack) = ToSet(ctx[c].savepoints) \cup {next_xid}
        /\ Len(stack) = Len(ctx[c].savepoints) + 1 /\ Len(ctx[c].savepoints) \in Nat
        /\ \A i \in 1..Len(ctx[c].savepoints) : stack[i] = ctx[c].savepoints[i]
        /\ stack[Len(ctx[c].savepoints) + 1] = next_xid
    BY <2>1, ToSetAppend, AppendProperties, LenProperties
  <2> QED BY <2>2 DEF S
<1> HIDE DEF stack
<1>5. /\ ctx'[c].xid = ctx[c].xid /\ ctx'[c].savepoints = stack
      /\ ctx'[c].released = ctx[c].released
      /\ ctx'[c].snapshot = ctx[c].snapshot /\ ctx'[c] \in Context /\ Others(c)
  <2>1. ctx'[c] = [ctx[c] EXCEPT !.savepoints = stack]
    BY <1>1, <1>4
  <2>2. /\ ctx'[c].xid = ctx[c].xid /\ ctx'[c].savepoints = stack
        /\ ctx'[c].released = ctx[c].released
        /\ ctx'[c].snapshot = ctx[c].snapshot /\ ctx'[c] \in Context
    BY <1>4, <1>s, <2>1 DEF Context
  <2>3. Others(c)
    BY <1>1, <1>4 DEF Others, Same, stmtVars
  <2> QED BY <2>2, <2>3
<1>6. TypeOK'
  <2>1. ctx' \in [Conns -> Context]
    BY <1>1, <1>4, <1>5
  <2> QED BY <1>1, <1>2, <2>1 DEF TypeOK, history, stmtVars
<1>7. /\ group(ctx[c])' = group(ctx[c]) \cup {next_xid}
      /\ txn_xids(c)' = txn_xids(c) \cup {next_xid}
      /\ auto_xids(c)' = auto_xids(c) /\ in_transaction(c)'
  BY <1>1, <1>5, <1>s DEF group, txn_xids, auto_xids, in_transaction, stmtVars
<1>8. \A x \in group(ctx[c]) : x \in Nat /\ x < next_xid
  <2>1. group(ctx[c]) \subseteq begun
    BY <1>1 DEF XidOK, Xids, txn_xids
  <2> QED BY <1>1, <2>1, ManagerFacts
<1>9. LocalOK(c)'
  <2>1. PhaseOK(c)'
    BY <1>1, <1>4, <1>7 DEF PhaseOK, TxnPhase, EndPhase, Reads, Reserves, stmtVars
  <2>2. OrderOK(c)'
    <3>1. Increasing(stack)
      <4> SUFFICES ASSUME NEW i \in 1..Len(stack), NEW j \in 1..Len(stack), i < j
                   PROVE  stack[i] < stack[j]
        BY DEF Increasing
      <4>1. i \in 1..Len(ctx[c].savepoints) /\ stack[i] = ctx[c].savepoints[i]
        BY <1>s
      <4>2. CASE j \in 1..Len(ctx[c].savepoints)
        BY <1>1, <1>s, <4>1, <4>2 DEF OrderOK, Increasing
      <4>3. CASE j = Len(ctx[c].savepoints) + 1
        <5>1. stack[i] \in ToSet(ctx[c].savepoints)
          BY <1>4, <4>1, ToSetIn
        <5>2. stack[i] \in group(ctx[c])
          BY <1>1, <5>1 DEF group, in_transaction
        <5> QED BY <1>8, <1>s, <4>3, <5>2
      <4> QED BY <1>s, <4>2, <4>3
    <3>2. ctx[c].xid < next_xid
      BY <1>1, <1>8, ContextFacts
    <3>3. phase'[c] = "idle"
      BY <1>1 DEF stmtVars
    <3> QED BY <1>1, <1>5, <1>s, <3>1, <3>2, <3>3 DEF OrderOK
  <2>3. XidOK(c)'
    BY <1>1, <1>3, <1>7 DEF XidOK, Xids, stmtVars
  <2>4. SnapshotOK(c)'
    BY <1>1, <1>3, <1>5 DEF SnapshotOK, stmtVars
  <2> QED BY <2>1, <2>2, <2>3, <2>4 DEF LocalOK
<1>10. StateInv'
  <2>1. ~ Reads(c)' /\ ~ Reserves(c)' /\ phase'[c] \notin {"updating", "deleting"}
    BY <1>1 DEF Reads, Reserves, stmtVars
  <2>2. \A id, x : Answers(c, id, x) => Answers(c, id, x)'
    BY <1>1 DEF Answers, journal, stmtVars
  <2>3. next_id' \in Nat /\ next_id <= next_id'
    BY <1>1, TypeFacts
  <2>4. \A e \in journal(c) : e.xid \in txn_xids(c)' /\ e.xid \notin aborted'
    BY <1>1, <1>3, <1>7 DEF JournalOK
  <2>5. /\ txn_xids(c)' \subseteq txn_xids(c) \cup (begun' \ begun)
        /\ auto_xids(c)' \subseteq auto_xids(c) \cup (begun' \ begun)
    BY <1>3, <1>7
  <2>6. store' = store /\ latest' = latest /\ updates' = updates /\ tombstones' = tombstones
        /\ phase[c] # "publishing"
    BY <1>1 DEF history
  <2> QED BY <1>3, <1>5, <1>9, <2>1, <2>2, <2>3, <2>4, <2>5, <2>6, QuietStep
<1> QED BY <1>2, <1>6, <1>10 DEF Inv

\* RELEASE moves xids from one list of the context to the other.
LEMMA InvRelease ==
    ASSUME Inv, NEW c \in Conns, Release(c)
    PROVE  Inv'
<1>1. /\ P!Inv /\ TypeOK /\ PhaseOK(c) /\ OrderOK(c) /\ XidOK(c) /\ SnapshotOK(c) /\ JournalOK(c)
      /\ phase[c] = "idle" /\ in_transaction(c)
      /\ UNCHANGED <<managerVars, store, next_id, updates, tombstones, stmtVars, history>>
  BY InvFacts DEF Release, ReadyInTransaction, Ready
<1>i. PICK i \in 1..Len(ctx[c].savepoints) :
          ctx' = [ctx EXCEPT ![c].savepoints = SubSeq(@, 1, i - 1),
                             ![c].released = @ \o SubSeq(ctx[c].savepoints, i,
                                                         Len(ctx[c].savepoints))]
  BY DEF Release
<1> DEFINE p == SubSeq(ctx[c].savepoints, 1, i - 1)
           q == SubSeq(ctx[c].savepoints, i, Len(ctx[c].savepoints))
           r == ctx[c].released \o q
<1>2. P!Inv' /\ Manager!TypeOK'
  BY ConnStep DEF Start
<1>3. /\ Effects({}) /\ active' = active /\ begun' = begun /\ aborted' = aborted /\ held' = held
      /\ next_xid' = next_xid
  BY <1>1, FrameEffects
<1>4. /\ ctx \in [Conns -> Context] /\ ctx[c] \in Context /\ ctx[c].savepoints \in Seq(1..MaxXid)
      /\ ctx[c].released \in Seq(1..MaxXid) /\ todo[c] = <<>>
  BY <1>1 DEF TypeOK, Context, PhaseOK, EndPhase
<1>s. /\ p \in Seq(1..MaxXid) /\ q \in Seq(1..MaxXid) /\ r \in Seq(1..MaxXid)
      /\ ToSet(ctx[c].savepoints) = ToSet(p) \cup ToSet(q)
      /\ ToSet(r) = ToSet(ctx[c].released) \cup ToSet(q)
      /\ Increasing(ctx[c].savepoints) => Increasing(p)
  <2> DEFINE S == 1..MaxXid
  <2>1. ctx[c].savepoints \in Seq(S) /\ ctx[c].released \in Seq(S)
    BY <1>4
  <2> HIDE DEF S
  <2>2. /\ p \in Seq(S) /\ q \in Seq(S) /\ Len(p) = i - 1
        /\ \A k \in 1..i - 1 : p[k] = ctx[c].savepoints[k]
        /\ ToSet(ctx[c].savepoints) = ToSet(p) \cup ToSet(q)
    BY <2>1, ToSetCut
  <2>3. r \in Seq(S) /\ ToSet(r) = ToSet(ctx[c].released) \cup ToSet(q)
    <3> HIDE DEF q
    <3>1. ctx[c].released \o q \in Seq(S)
      BY <2>1, <2>2, ConcatProperties
    <3>2. ToSet(ctx[c].released \o q) = ToSet(ctx[c].released) \cup ToSet(q)
      BY <2>1, <2>2, ToSetConcat
    <3> QED BY <3>1, <3>2
  <2>4. Len(ctx[c].savepoints) \in Nat
    BY <2>1, LenProperties
  <2>5. Increasing(ctx[c].savepoints) => Increasing(p)
    BY <2>2, <2>4 DEF Increasing
  <2> QED BY <2>2, <2>3, <2>5 DEF S
<1> HIDE DEF p, q, r
<1>5. /\ ctx'[c].xid = ctx[c].xid /\ ctx'[c].savepoints = p /\ ctx'[c].released = r
      /\ ctx'[c].snapshot = ctx[c].snapshot /\ ctx'[c] \in Context /\ Others(c)
  <2>1. ctx'[c] = [ctx[c] EXCEPT !.savepoints = p, !.released = r]
    BY <1>i, <1>4 DEF p, q, r
  <2>2. /\ ctx'[c].xid = ctx[c].xid /\ ctx'[c].savepoints = p /\ ctx'[c].released = r
        /\ ctx'[c].snapshot = ctx[c].snapshot /\ ctx'[c] \in Context
    BY <1>4, <1>s, <2>1 DEF Context
  <2>3. Others(c)
    BY <1>1, <1>i, <1>4 DEF Others, Same, stmtVars
  <2> QED BY <2>2, <2>3
<1>6. TypeOK'
  <2>1. ctx' \in [Conns -> Context]
    BY <1>i, <1>4, <1>5
  <2> QED BY <1>1, <1>2, <2>1 DEF TypeOK, history, stmtVars
<1>7. /\ group(ctx[c])' = group(ctx[c]) /\ txn_xids(c)' = txn_xids(c)
      /\ auto_xids(c)' = auto_xids(c) /\ in_transaction(c)'
  BY <1>1, <1>5, <1>s DEF group, txn_xids, auto_xids, in_transaction, stmtVars
<1>9. LocalOK(c)'
  <2>1. PhaseOK(c)'
    BY <1>1, <1>4, <1>7 DEF PhaseOK, TxnPhase, EndPhase, Reads, Reserves, stmtVars
  <2>2. OrderOK(c)'
    BY <1>1, <1>5, <1>s DEF OrderOK, stmtVars
  <2>3. XidOK(c)'
    BY <1>1, <1>3, <1>7 DEF XidOK, Xids, stmtVars
  <2>4. SnapshotOK(c)'
    BY <1>1, <1>3, <1>5 DEF SnapshotOK, stmtVars
  <2> QED BY <2>1, <2>2, <2>3, <2>4 DEF LocalOK
<1>10. StateInv'
  <2>1. ~ Reads(c)' /\ ~ Reserves(c)' /\ phase'[c] \notin {"updating", "deleting"}
    BY <1>1 DEF Reads, Reserves, stmtVars
  <2>2. \A id, x : Answers(c, id, x) => Answers(c, id, x)'
    BY <1>1 DEF Answers, journal, stmtVars
  <2>3. next_id' \in Nat /\ next_id <= next_id'
    BY <1>1, TypeFacts
  <2>4. \A e \in journal(c) : e.xid \in txn_xids(c)' /\ e.xid \notin aborted'
    BY <1>1, <1>3, <1>7 DEF JournalOK
  <2>6. store' = store /\ latest' = latest /\ updates' = updates /\ tombstones' = tombstones
        /\ phase[c] # "publishing"
    BY <1>1 DEF history
  <2> QED BY <1>3, <1>5, <1>7, <1>9, <2>1, <2>2, <2>3, <2>4, <2>6, QuietStep
<1> QED BY <1>2, <1>6, <1>10 DEF Inv

\* ROLLBACK TO, when nothing above the savepoint has been released: every xid
\* that the transaction keeps is below those that it is going to abort.
LEMMA InvRollbackTo ==
    ASSUME Inv, ~ RollsBackReleased, NEW c \in Conns, RollbackTo(c)
    PROVE  Inv'
<1>1. /\ P!Inv /\ TypeOK /\ PhaseOK(c) /\ OrderOK(c) /\ XidOK(c) /\ SnapshotOK(c) /\ JournalOK(c)
      /\ phase[c] = "idle" /\ in_transaction(c) /\ phase' = [phase EXCEPT ![c] = "undoing"]
      /\ UNCHANGED <<managerVars, store, next_id, updates, tombstones, lock, buf, history>>
  BY InvFacts DEF RollbackTo, ReadyInTransaction, Ready, Goto
<1>i. PICK i \in 1..Len(ctx[c].savepoints) :
          /\ \A x \in ToSet(ctx[c].released) : x < ctx[c].savepoints[i]
          /\ ctx' = [ctx EXCEPT ![c].savepoints = SubSeq(@, 1, i - 1)]
          /\ todo' = [todo EXCEPT ![c] = SubSeq(ctx[c].savepoints, i, Len(ctx[c].savepoints))]
  BY DEF RollbackTo
<1> DEFINE p == SubSeq(ctx[c].savepoints, 1, i - 1)
           q == SubSeq(ctx[c].savepoints, i, Len(ctx[c].savepoints))
<1>2. P!Inv' /\ Manager!TypeOK'
  BY ConnStep DEF Start
<1>3. /\ Effects({}) /\ active' = active /\ begun' = begun /\ aborted' = aborted /\ held' = held
      /\ next_xid' = next_xid
  BY <1>1, FrameEffects
<1>4. /\ ctx \in [Conns -> Context] /\ ctx[c] \in Context /\ ctx[c].savepoints \in Seq(1..MaxXid)
      /\ phase \in [Conns -> Phase] /\ todo \in [Conns -> Seq(1..MaxXid)] /\ todo[c] = <<>>
  BY <1>1 DEF TypeOK, Context, PhaseOK, EndPhase
<1>s. /\ p \in Seq(1..MaxXid) /\ q \in Seq(1..MaxXid) /\ q # <<>>
      /\ ToSet(ctx[c].savepoints) = ToSet(p) \cup ToSet(q)
      /\ Increasing(ctx[c].savepoints) =>
            /\ Increasing(p)
            /\ \A x \in ToSet(p), y \in ToSet(q) : x < y
            /\ \A y \in ToSet(q) : ctx[c].savepoints[i] <= y
      /\ ToSet(p) \subseteq 1..MaxXid /\ ToSet(q) \subseteq 1..MaxXid
      /\ ctx[c].savepoints[i] \in 1..MaxXid
  <2> DEFINE S == 1..MaxXid
             s == ctx[c].savepoints
  <2>1. s \in Seq(S) /\ S \subseteq Nat /\ i \in 1..Len(s)
    BY <1>4, <1>1, ManagerFacts
  <2>2. /\ p \in Seq(S) /\ q \in Seq(S) /\ q # <<>> /\ Len(p) = i - 1
        /\ \A k \in 1..i - 1 : p[k] = s[k]
        /\ Len(q) = Len(s) - i + 1 /\ \A k \in 1..Len(q) : q[k] = s[i + k - 1]
        /\ ToSet(s) = ToSet(p) \cup ToSet(q)
    <3> HIDE DEF S
    <3> QED BY <2>1, ToSetCut
  <2> HIDE DEF S, s, p, q
  <2>3. Len(s) \in Nat /\ s[i] \in S /\ \A k \in 1..Len(s) : s[k] \in S
    BY <2>1, LenProperties
  <2>4. /\ ToSet(p) = {p[k] : k \in 1..Len(p)} /\ ToSet(q) = {q[k] : k \in 1..Len(q)}
        /\ ToSet(p) \subseteq S /\ ToSet(q) \subseteq S
    BY <2>2, ToSetIn
  <2>5. ASSUME Increasing(s) PROVE Increasing(p)
    BY <2>2, <2>3, <2>5 DEF Increasing
  <2>6. ASSUME Increasing(s), NEW x \in ToSet(p), NEW y \in ToSet(q) PROVE x < y
    <3>1. PICK j \in 1..i - 1, k \in 1..Len(q) : x = s[j] /\ y = s[i + k - 1]
      BY <2>2, <2>4
    <3>2. j \in 1..Len(s) /\ i + k - 1 \in 1..Len(s) /\ j < i + k - 1
      BY <2>2, <2>3
    <3> QED BY <2>6, <3>1, <3>2 DEF Increasing
  <2>7. ASSUME Increasing(s), NEW y \in ToSet(q) PROVE s[i] <= y
    <3>1. PICK k \in 1..Len(q) : y = s[i + k - 1]
      BY <2>2, <2>4
    <3>2. i \in 1..Len(s) /\ i + k - 1 \in 1..Len(s) /\ i <= i + k - 1
      BY <2>1, <2>2, <2>3
    <3>3. CASE i = i + k - 1
      <4>1. y = s[i] /\ s[i] \in Nat
        BY <3>1, <3>3, <2>1, <2>3
      <4> QED BY <4>1
    <3>4. CASE i < i + k - 1
      <4>1. s[i] < s[i + k - 1]
        BY <2>7, <3>2, <3>4 DEF Increasing
      <4>2. s[i] \in Nat /\ y \in Nat
        BY <2>1, <2>3, <2>4
      <4> QED BY <3>1, <4>1, <4>2
    <3>5. i = i + k - 1 \/ i < i + k - 1
      BY <3>2
    <3> QED BY <3>3, <3>4, <3>5
  <2> QED BY <2>2, <2>3, <2>4, <2>5, <2>6, <2>7 DEF S, s
<1> HIDE DEF p, q
<1>5. /\ ctx'[c].xid = ctx[c].xid /\ ctx'[c].savepoints = p /\ ctx'[c].released = ctx[c].released
      /\ ctx'[c].snapshot = ctx[c].snapshot /\ ctx'[c] \in Context /\ todo'[c] = q
      /\ phase'[c] = "undoing" /\ Others(c)
  <2>1. ctx'[c] = [ctx[c] EXCEPT !.savepoints = p]
    BY <1>i, <1>4 DEF p
  <2>2. /\ ctx'[c].xid = ctx[c].xid /\ ctx'[c].savepoints = p /\ ctx'[c].released = ctx[c].released
        /\ ctx'[c].snapshot = ctx[c].snapshot /\ ctx'[c] \in Context
    BY <1>4, <1>s, <2>1 DEF Context
  <2>3. phase'[c] = "undoing" /\ todo'[c] = q /\ Others(c)
    BY <1>1, <1>i, <1>4 DEF Others, Same, q
  <2> QED BY <2>2, <2>3
<1>6. TypeOK'
  <2>1. ctx' \in [Conns -> Context]
    BY <1>i, <1>4, <1>5
  <2>2. phase' \in [Conns -> Phase]
    BY <1>1, <1>4 DEF Phase
  <2>3. todo' \in [Conns -> Seq(1..MaxXid)]
    BY <1>i, <1>4, <1>5, <1>s
  <2>4. \A d \in Conns : lock' = d <=> phase'[d] \in {"publishing", "deleting"}
    BY <1>1, <1>4 DEF TypeOK
  <2> QED BY <1>1, <1>2, <2>1, <2>2, <2>3, <2>4 DEF TypeOK, history
<1>7. /\ group(ctx[c]) = group(ctx[c])' \cup ToSet(q) /\ txn_xids(c)' = txn_xids(c)
      /\ auto_xids(c)' = {} /\ in_transaction(c)' /\ txn_xids(c) = group(ctx[c])
  BY <1>1, <1>4, <1>5, <1>s, ToSetEmpty DEF group, txn_xids, auto_xids, in_transaction
<1>9. LocalOK(c)'
  <2>1. PhaseOK(c)'
    BY <1>1, <1>4, <1>5, <1>7, <1>s DEF PhaseOK, TxnPhase, EndPhase, Reads, Reserves
  <2>2. OrderOK(c)'
    <3>1. Part(c)'
      <4> SUFFICES ASSUME NEW x \in group(ctx[c])', NEW y \in ToSet(q) PROVE x < y
        BY <1>5 DEF Part
      <4>1. y \in Nat /\ ctx[c].savepoints[i] \in Nat
        BY <1>s
      <4>2. CASE x = ctx[c].xid
        BY <1>1, <1>s, <4>2 DEF OrderOK
      <4>3. CASE x \in ToSet(p)
        BY <1>1, <1>s, <4>3 DEF OrderOK
      <4>4. CASE x \in ToSet(ctx[c].released)
        <5>1. x < ctx[c].savepoints[i] /\ ctx[c].savepoints[i] <= y
          BY <1>1, <1>i, <1>s, <4>4 DEF OrderOK
        <5>2. x \in Nat
          <6>1. x \in group(ctx[c])
            BY <1>7
          <6>2. group(ctx[c]) \subseteq 1..MaxXid
            BY <1>1, ContextFacts
          <6> QED BY <6>1, <6>2
        <5> QED BY <4>1, <5>1, <5>2
      <4> QED BY <1>1, <1>5, <4>2, <4>3, <4>4 DEF group, in_transaction
    <3>2. group(ctx[c])' \subseteq active'
      BY <1>1, <1>3, <1>7 DEF XidOK
    <3> QED BY <1>1, <1>5, <1>s, <3>1, <3>2 DEF OrderOK
  <2>3. XidOK(c)'
    BY <1>1, <1>3, <1>5, <1>7 DEF XidOK, Xids
  <2>4. SnapshotOK(c)'
    BY <1>1, <1>3, <1>5 DEF SnapshotOK
  <2> QED BY <2>1, <2>2, <2>3, <2>4 DEF LocalOK
<1>10. StateInv'
  <2>1. ~ Reads(c)' /\ ~ Reserves(c)' /\ phase'[c] \notin {"updating", "deleting"}
    BY <1>5 DEF Reads, Reserves
  <2>2. \A id, x : Answers(c, id, x) => Answers(c, id, x)'
    BY <1>1, <1>4, <1>5 DEF Answers, journal
  <2>3. next_id' \in Nat /\ next_id <= next_id'
    BY <1>1, TypeFacts
  <2>4. \A e \in journal(c) : e.xid \in txn_xids(c)' /\ e.xid \notin aborted'
    BY <1>1, <1>3, <1>7 DEF JournalOK
  <2>6. store' = store /\ latest' = latest /\ updates' = updates /\ tombstones' = tombstones
        /\ phase[c] # "publishing"
    BY <1>1 DEF history
  <2> QED BY <1>3, <1>5, <1>7, <1>9, <2>1, <2>2, <2>3, <2>4, <2>6, QuietStep
<1> QED BY <1>2, <1>6, <1>10 DEF Inv

\* ROLLBACK and the first part of COMMIT set out to end all xids.
LEMMA InvEnding ==
    ASSUME Inv, NEW c \in Conns, Rollback(c) \/ Validate(c)
    PROVE  Inv'
<1>1. /\ P!Inv /\ TypeOK /\ PhaseOK(c) /\ OrderOK(c) /\ XidOK(c) /\ SnapshotOK(c) /\ JournalOK(c)
      /\ phase[c] = "idle" /\ in_transaction(c)
      /\ todo' = [todo EXCEPT ![c] = ending_xids(c)]
      /\ UNCHANGED <<managerVars, store, next_id, txnVars, lock, buf, history>>
  BY InvFacts DEF Rollback, Validate, ReadyInTransaction, Ready
<1>p. PICK to \in {"undoing", "validated"} : phase' = [phase EXCEPT ![c] = to]
  <2>1. CASE Rollback(c)
    BY <2>1 DEF Rollback, Goto
  <2>2. CASE Validate(c)
    BY <2>2 DEF Validate, Goto
  <2> QED BY <2>1, <2>2
<1>2. P!Inv' /\ Manager!TypeOK'
  BY ConnStep DEF Start
<1>3. /\ Effects({}) /\ active' = active /\ begun' = begun /\ aborted' = aborted /\ held' = held
      /\ next_xid' = next_xid
  BY <1>1, FrameEffects
<1>4. /\ phase \in [Conns -> Phase] /\ todo \in [Conns -> Seq(1..MaxXid)] /\ todo[c] = <<>>
  BY <1>1 DEF TypeOK, PhaseOK, EndPhase
<1>5. /\ ending_xids(c) \in Seq(1..MaxXid) /\ ending_xids(c) # <<>>
      /\ ToSet(ending_xids(c)) = group(ctx[c]) /\ EndsIn(ending_xids(c), ctx[c].xid)
  BY <1>1, EndingFacts
<1>6. ctx' = ctx /\ phase'[c] = to /\ todo'[c] = ending_xids(c) /\ Others(c)
  BY <1>1, <1>p, <1>4 DEF Others, Same, txnVars
<1>7. TypeOK'
  <2>1. phase' \in [Conns -> Phase]
    BY <1>p, <1>4 DEF Phase
  <2>2. todo' \in [Conns -> Seq(1..MaxXid)]
    BY <1>1, <1>4, <1>5
  <2>3. \A d \in Conns : lock' = d <=> phase'[d] \in {"publishing", "deleting"}
    BY <1>1, <1>p, <1>4 DEF TypeOK
  <2> QED BY <1>1, <1>2, <2>1, <2>2, <2>3 DEF TypeOK, history, txnVars
<1>8. /\ group(ctx[c])' = group(ctx[c]) /\ txn_xids(c)' = group(ctx[c])
      /\ txn_xids(c) = group(ctx[c]) /\ auto_xids(c)' = {} /\ in_transaction(c)'
  BY <1>1, <1>4, <1>5, <1>6, ToSetEmpty DEF group, txn_xids, auto_xids, in_transaction
<1>9. LocalOK(c)'
  <2>1. PhaseOK(c)'
    BY <1>1, <1>4, <1>5, <1>6, <1>8 DEF PhaseOK, TxnPhase, EndPhase, Reads, Reserves, txnVars
  <2>2. OrderOK(c)'
    <3>1. Whole(c)' /\ group(ctx[c])' \subseteq ToSet(todo[c])'
      BY <1>5, <1>6, <1>8 DEF Whole
    <3>2. /\ Increasing(ctx[c].savepoints)
          /\ \A x \in ToSet(ctx[c].savepoints) \cup ToSet(ctx[c].released) : ctx[c].xid < x
      BY <1>1 DEF OrderOK
    <3> QED BY <1>6, <3>1, <3>2 DEF OrderOK
  <2>3. XidOK(c)'
    BY <1>1, <1>3, <1>6, <1>8 DEF XidOK, Xids
  <2>4. SnapshotOK(c)'
    BY <1>1, <1>3, <1>6 DEF SnapshotOK
  <2> QED BY <2>1, <2>2, <2>3, <2>4 DEF LocalOK
<1>10. StateInv'
  <2>1. ~ Reads(c)' /\ ~ Reserves(c)' /\ phase'[c] \notin {"updating", "deleting"}
    BY <1>6 DEF Reads, Reserves
  <2>2. \A id, x : Answers(c, id, x) => Answers(c, id, x)'
    BY <1>1, <1>4, <1>6 DEF Answers, journal, txnVars
  <2>3. next_id' \in Nat /\ next_id <= next_id'
    BY <1>1, TypeFacts
  <2>4. \A e \in journal(c) : e.xid \in txn_xids(c)' /\ e.xid \notin aborted'
    BY <1>1, <1>3, <1>8 DEF JournalOK
  <2>6. store' = store /\ latest' = latest /\ updates' = updates /\ tombstones' = tombstones
        /\ phase[c] # "publishing"
    BY <1>1 DEF history, txnVars
  <2> QED BY <1>3, <1>6, <1>8, <1>9, <2>1, <2>2, <2>3, <2>4, <2>6, QuietStep
<1> QED BY <1>2, <1>7, <1>10 DEF Inv

-----------------------------------------------------------------------------
(* Undo.                                                                   *)

\* While c undoes, the entries at or above the least xid that it will abort
\* are those of the xids that it will abort.
LEMMA UndoFacts ==
    ASSUME Inv, NEW c \in Conns, phase[c] = "undoing"
    PROVE  /\ todo[c] \in Seq(1..MaxXid) /\ todo[c] # <<>> /\ in_transaction(c)
           /\ ToSet(todo[c]) \subseteq 1..MaxXid
           /\ \A e \in journal(c) : e.xid >= Min(ToSet(todo[c])) <=> e.xid \in ToSet(todo[c])
           /\ Whole(c) => \A e \in journal(c) : e.xid \in ToSet(todo[c])
<1>1. TypeOK /\ PhaseOK(c) /\ OrderOK(c) /\ JournalOK(c) /\ P!Inv
  BY InvFacts
<1>2. todo[c] # <<>> /\ in_transaction(c) /\ todo[c] \in Seq(1..MaxXid)
  BY <1>1, TypeFacts DEF PhaseOK, EndPhase, AutoPhase
<1>3. ToSet(todo[c]) \subseteq 1..MaxXid /\ ToSet(todo[c]) # {}
  BY <1>2, ToSetIn
<1>4. MaxXid \in Nat
  BY <1>1, TypeFacts
<1> DEFINE m == Min(ToSet(todo[c]))
<1>5. m \in ToSet(todo[c]) /\ \A y \in ToSet(todo[c]) : m <= y
  BY <1>3, <1>4, Extrema
<1> HIDE DEF m
<1>6. ASSUME NEW e \in journal(c) PROVE e.xid >= m <=> e.xid \in ToSet(todo[c])
  <2>1. e.xid \in group(ctx[c]) \cup ToSet(todo[c]) /\ e.xid \notin aborted
    BY <1>1 DEF JournalOK, txn_xids
  <2>2. e.xid \in Nat /\ m \in Nat
    <3>1. e.xid \in 1..MaxXid
      BY <1>1, TypeFacts
    <3> QED BY <3>1, <1>3, <1>5
  <2>3. CASE e.xid \in ToSet(todo[c])
    BY <1>5, <2>2, <2>3
  <2>4. CASE e.xid \notin ToSet(todo[c])
    <3>1. Part(c)
      BY <1>1, <1>2, <2>1, <2>4 DEF OrderOK
    <3>2. e.xid < m
      BY <1>5, <2>1, <2>4, <3>1 DEF Part
    <3> QED BY <2>2, <2>4, <3>2
  <2> QED BY <2>3, <2>4
<1>7. ASSUME Whole(c), NEW e \in journal(c) PROVE e.xid \in ToSet(todo[c])
  <2>1. e.xid \in group(ctx[c]) \cup ToSet(todo[c]) /\ e.xid \notin aborted
    BY <1>1 DEF JournalOK, txn_xids
  <2>2. ~ Part(c)
    <3>1. ctx[c].xid \in group(ctx[c]) /\ ctx[c].xid \in 1..MaxXid
      BY <1>1, <1>2, ContextFacts
    <3>2. ctx[c].xid \in ToSet(todo[c])
      <4>1. Len(todo[c]) \in 1..Len(todo[c]) /\ ToSet(todo[c]) = {todo[c][i] : i \in 1..Len(todo[c])}
        BY <1>2, ToSetIn, EmptySeq, LenProperties
      <4> QED BY <4>1, <1>7 DEF Whole, EndsIn
    <3> QED BY <3>1, <3>2 DEF Part
  <2> QED BY <1>1, <1>2, <2>1, <2>2 DEF OrderOK
<1> QED BY <1>2, <1>3, <1>6, <1>7 DEF m

\* The xids to abort get fewer; the parent's is the last of a transaction.
LEMMA TodoFacts ==
    ASSUME TypeOK, NEW c \in Conns, todo[c] # <<>>
    PROVE  /\ Head(todo[c]) \in ToSet(todo[c]) /\ Tail(todo[c]) \in Seq(1..MaxXid)
           /\ ToSet(todo[c]) = {Head(todo[c])} \cup ToSet(Tail(todo[c]))
           /\ Whole(c) /\ Head(todo[c]) = ctx[c].xid => Tail(todo[c]) = <<>>
           /\ Whole(c) /\ Head(todo[c]) # ctx[c].xid =>
                 Tail(todo[c]) # <<>> /\ EndsIn(Tail(todo[c]), ctx[c].xid)
<1> DEFINE q == todo[c]
           t == Tail(q)
           S == 1..MaxXid
<1>1. q \in Seq(S) /\ q # <<>>
  BY TypeFacts
<1> HIDE DEF S
<1>2. /\ Head(q) \in ToSet(q) /\ t \in Seq(S) /\ ToSet(q) = {Head(q)} \cup ToSet(t)
  BY <1>1, ToSetTail
<1>3. /\ Len(t) = Len(q) - 1 /\ (\A i \in 1..Len(t) : t[i] = q[i + 1])
  BY <1>1, HeadTailProperties
<1>4. Len(q) \in Nat /\ Len(q) > 0 /\ Head(q) = q[1]
  BY <1>1, EmptySeq, LenProperties
<1> HIDE DEF q, t
<1>5. ASSUME EndsIn(q, ctx[c].xid), Head(q) = ctx[c].xid PROVE t = <<>>
  <2>1. 1 \in 1..Len(q) /\ q[1] = ctx[c].xid
    BY <1>4, <1>5
  <2>a. Len(q) = 1
    BY <1>5, <2>1 DEF EndsIn
  <2>2. Len(t) = 0
    BY <1>3, <2>a
  <2> QED BY <1>2, <2>2, EmptySeq
<1>6. ASSUME EndsIn(q, ctx[c].xid), Head(q) # ctx[c].xid
      PROVE  t # <<>> /\ EndsIn(t, ctx[c].xid)
  <2>1. Len(q) # 1
    BY <1>4, <1>6 DEF EndsIn
  <2>2. Len(t) # 0
    BY <1>3, <1>4, <2>1
  <2>3. t # <<>>
    BY <2>2
  <2>4. ASSUME NEW i \in 1..Len(t) PROVE t[i] = ctx[c].xid <=> i = Len(t)
    <3>1. i + 1 \in 1..Len(q) /\ (i + 1 = Len(q) <=> i = Len(t)) /\ t[i] = q[i + 1]
      BY <1>3, <1>4
    <3> QED BY <1>6, <3>1 DEF EndsIn
  <2> QED BY <2>3, <2>4 DEF EndsIn
<1> QED BY <1>2, <1>5, <1>6 DEF Whole, S, q, t

\* An xid is aborted when nothing of its writes is left to undo.
LEMMA InvAbortXid ==
    ASSUME Inv, NEW c \in Conns, AbortXid(c)
    PROVE  Inv'
<1> DEFINE x == Head(todo[c])
           t == Tail(todo[c])
           to == IF t = <<>> THEN "idle" ELSE "undoing"
           k == IF x = ctx[c].xid THEN NoContext ELSE ctx[c]
<1>1. /\ P!Inv /\ TypeOK /\ PhaseOK(c) /\ OrderOK(c) /\ XidOK(c) /\ SnapshotOK(c) /\ JournalOK(c)
      /\ phase[c] = "undoing" /\ Manager!rollback(x)
      /\ todo' = [todo EXCEPT ![c] = t] /\ phase' = [phase EXCEPT ![c] = to]
      /\ UNCHANGED <<store, next_id, updates, tombstones, lock, buf, latest, wrote>>
  BY InvFacts DEF AbortXid, Goto
<1>c. /\ ctx' = [ctx EXCEPT ![c] = k]
      /\ view' \in [Conns -> SUBSET Ids] /\ base' \in [Conns -> SUBSET Ids]
  <2>1. ctx \in [Conns -> Context] /\ view \in [Conns -> SUBSET Ids] /\ base \in [Conns -> SUBSET Ids]
    BY <1>1 DEF TypeOK
  <2>2. CASE x = ctx[c].xid
    BY <2>1, <2>2 DEF AbortXid, ForgetView
  <2>3. CASE x # ctx[c].xid
    BY <2>1, <2>3 DEF AbortXid
  <2> QED BY <2>2, <2>3
<1>2. P!Inv' /\ Manager!TypeOK'
  BY ConnStep DEF Continue
<1>3. /\ Effects({x}) /\ x \in active /\ active' = active \ {x} /\ begun' = begun
      /\ aborted' = aborted \cup {x}
  BY <1>1, EndEffects
<1>4. /\ ctx \in [Conns -> Context] /\ ctx[c] \in Context /\ NoContext \in Context
      /\ phase \in [Conns -> Phase] /\ todo \in [Conns -> Seq(1..MaxXid)]
  <2>1. NoSnapshot \in Manager!Snapshot
    BY <1>1, ManagerFacts DEF NoSnapshot, Manager!Snapshot, Manager!Xid, XID_NONE
  <2>2. NoContext \in Context
    <3>1. 0 \in 0..MaxXid /\ <<>> \in Seq(1..MaxXid)
      BY <1>1, TypeFacts
    <3> QED BY <2>1, <3>1 DEF NoContext, Context, XID_NONE
  <2> QED BY <1>1, <2>2 DEF TypeOK
<1>u. /\ todo[c] # <<>> /\ in_transaction(c) /\ ToSet(todo[c]) \subseteq 1..MaxXid
      /\ \A e \in journal(c) : e.xid >= Min(ToSet(todo[c])) <=> e.xid \in ToSet(todo[c])
      /\ Whole(c) => \A e \in journal(c) : e.xid \in ToSet(todo[c])
  BY <1>1, UndoFacts
<1>t. /\ x \in ToSet(todo[c]) /\ t \in Seq(1..MaxXid) /\ ToSet(todo[c]) = {x} \cup ToSet(t)
      /\ Whole(c) /\ x = ctx[c].xid => t = <<>>
      /\ Whole(c) /\ x # ctx[c].xid => t # <<>> /\ EndsIn(t, ctx[c].xid)
  BY <1>1, <1>u, TodoFacts
<1> HIDE DEF x, t
<1>e. \A e \in journal(c) : e.xid \notin ToSet(todo[c])
  <2> SUFFICES ASSUME NEW e \in journal(c), e.xid >= Min(ToSet(todo[c])) PROVE FALSE
    BY <1>u
  <2>1. /\ ToSet(updates[c]) = {updates[c][i] : i \in 1..Len(updates[c])}
        /\ ToSet(tombstones[c]) = {tombstones[c][i] : i \in 1..Len(tombstones[c])}
        /\ DOMAIN updates[c] = 1..Len(updates[c]) /\ DOMAIN tombstones[c] = 1..Len(tombstones[c])
    <3>1. updates[c] \in Seq(Update) /\ tombstones[c] \in Seq(Tombstone)
      BY <1>1, TypeFacts
    <3> QED BY <3>1, ToSetIn, LenProperties
  <2>2. pending_since(c, updates[c]) = {} /\ pending_since(c, tombstones[c]) = {}
    BY DEF AbortXid
  <2> QED BY <2>1, <2>2 DEF pending_since, journal
<1>w. Whole(c) => updates[c] = <<>> /\ tombstones[c] = <<>>
  <2>1. Whole(c) => journal(c) = {}
    BY <1>e, <1>u
  <2>2. updates[c] \in Seq(Update) /\ tombstones[c] \in Seq(Tombstone)
    BY <1>1, TypeFacts
  <2> QED BY <2>1, <2>2, ToSetIn DEF journal
<1>m. /\ ctx[c].xid \in group(ctx[c]) /\ ctx[c].xid \in Nat
      /\ Part(c) => x \notin group(ctx[c])
      /\ x = ctx[c].xid => Whole(c)
      /\ Whole(c) \/ Part(c)
  <2>1. ctx[c].xid \in group(ctx[c]) /\ group(ctx[c]) \subseteq 1..MaxXid
    BY <1>1, <1>u, ContextFacts
  <2>2. Part(c) => x \notin group(ctx[c])
    <3>1. x \in 1..MaxXid
      BY <1>t, <1>u
    <3>2. ~ (x < x)
      BY <3>1
    <3> QED BY <1>t, <3>2 DEF Part
  <2>3. Whole(c) \/ Part(c)
    BY <1>1, <1>u DEF OrderOK
  <2> QED BY <2>1, <2>2, <2>3
<1>5. ctx'[c] = k /\ todo'[c] = t /\ phase'[c] = to /\ Others(c) /\ k \in Context
  BY <1>1, <1>c, <1>4 DEF Others, Same
<1>6. TypeOK'
  <2>1. ctx' \in [Conns -> Context]
    BY <1>c, <1>4, <1>5
  <2>2. phase' \in [Conns -> Phase]
    BY <1>1, <1>4 DEF Phase
  <2>3. todo' \in [Conns -> Seq(1..MaxXid)]
    BY <1>1, <1>4, <1>t
  <2>4. \A d \in Conns : lock' = d <=> phase'[d] \in {"publishing", "deleting"}
    BY <1>1, <1>4 DEF TypeOK
  <2> QED BY <1>1, <1>2, <1>c, <2>1, <2>2, <2>3, <2>4 DEF TypeOK
<1>7. /\ x = ctx[c].xid => /\ group(ctx[c])' = {} /\ ~ in_transaction(c)' /\ t = <<>>
                           /\ txn_xids(c)' = {} /\ updates[c] = <<>> /\ tombstones[c] = <<>>
                           /\ to = "idle"
      /\ x # ctx[c].xid => /\ group(ctx[c])' = group(ctx[c]) /\ in_transaction(c)'
                           /\ txn_xids(c)' = group(ctx[c]) \cup ToSet(t)
      /\ auto_xids(c)' = {}
  BY <1>5, <1>m, <1>t, <1>u, <1>w, ToSetEmpty
     DEF group, in_transaction, txn_xids, auto_xids, NoContext, XID_NONE
<1>8. \A e \in journal(c) : e.xid \in txn_xids(c)' /\ e.xid \notin aborted'
  <2> SUFFICES ASSUME NEW e \in journal(c) PROVE e.xid \in txn_xids(c)' /\ e.xid \notin aborted'
    OBVIOUS
  <2>1. e.xid \notin ToSet(todo[c]) /\ e.xid \in group(ctx[c]) /\ e.xid \notin aborted
    BY <1>1, <1>e DEF JournalOK, txn_xids
  <2>2. ~ Whole(c)
    BY <1>u, <2>1
  <2> QED BY <1>3, <1>7, <1>m, <1>t, <2>1, <2>2
<1>9. LocalOK(c)'
  <2>a. phase'[c] \in {"idle", "undoing"} /\ (phase'[c] = "undoing" <=> t # <<>>)
    BY <1>5
  <2>1. PhaseOK(c)'
    <3>1. ~ in_transaction(c)' => /\ ctx'[c].savepoints = <<>> /\ ctx'[c].released = <<>>
                                  /\ updates'[c] = <<>> /\ tombstones'[c] = <<>> /\ phase'[c] = "idle"
      BY <1>1, <1>5, <1>7, <1>u DEF in_transaction, NoContext
    <3> QED BY <1>5, <2>a, <3>1 DEF PhaseOK, TxnPhase, AutoPhase, EndPhase, Reads, Reserves
  <2>2. OrderOK(c)'
    <3> SUFFICES ASSUME in_transaction(c)' PROVE OrderOK(c)'
      BY DEF OrderOK
    <3>1. x # ctx[c].xid /\ ctx'[c] = ctx[c]
      BY <1>5, <1>7
    <3>2. ASSUME t # <<>>, Whole(c), group(ctx[c]) \subseteq ToSet(todo[c]) \cup aborted
          PROVE  Whole(c)' /\ group(ctx[c])' \subseteq ToSet(todo[c])' \cup aborted'
      BY <1>3, <1>5, <1>7, <1>t, <3>1, <3>2 DEF Whole
    <3>3. ASSUME Part(c), group(ctx[c]) \subseteq active
          PROVE  Part(c)' /\ group(ctx[c])' \subseteq active'
      BY <1>3, <1>5, <1>7, <1>m, <1>t, <3>1, <3>3 DEF Part
    <3>4. /\ Increasing(ctx[c].savepoints)
          /\ \A y \in ToSet(ctx[c].savepoints) \cup ToSet(ctx[c].released) : ctx[c].xid < y
      BY <1>1, <1>u DEF OrderOK
    <3>5. phase'[c] = "undoing" =>
              \/ Whole(c)' /\ group(ctx[c])' \subseteq ToSet(todo[c])' \cup aborted'
              \/ Part(c)' /\ group(ctx[c])' \subseteq active'
      BY <1>1, <1>u, <2>a, <3>2, <3>3 DEF OrderOK
    <3> QED BY <2>a, <3>1, <3>4, <3>5 DEF OrderOK
  <2>3. XidOK(c)'
    <3>1. txn_xids(c)' \subseteq txn_xids(c)
      BY <1>7, <1>t DEF txn_xids
    <3>2. txn_xids(c) \subseteq active \cup aborted /\ txn_xids(c) \subseteq begun
      BY <1>1 DEF XidOK, Xids
    <3>3. txn_xids(c)' \subseteq active' \cup aborted'
      BY <1>3, <3>1, <3>2
    <3>4. t = <<>> => txn_xids(c)' \subseteq active'
      <4>1. CASE x = ctx[c].xid
        BY <1>7, <4>1
      <4>2. CASE x # ctx[c].xid
        <5>1. t = <<>> => ~ Whole(c)
          BY <1>t, <4>2
        <5>2. ~ Whole(c) => group(ctx[c]) \subseteq active'
          BY <1>1, <1>3, <1>m, <1>u DEF OrderOK
        <5> QED BY <1>7, <4>2, <5>1, <5>2, ToSetEmpty
      <4> QED BY <4>1, <4>2
    <3> QED BY <1>3, <1>7, <2>a, <3>1, <3>2, <3>3, <3>4 DEF XidOK, Xids
  <2>4. SnapshotOK(c)'
    <3> SUFFICES ASSUME in_transaction(c)' PROVE ctx'[c].snapshot \in held'[ctx'[c].xid]
      BY DEF SnapshotOK
    <3>1. x # ctx[c].xid /\ ctx'[c] = ctx[c] /\ ctx[c].xid \in 1..MaxXid
      BY <1>1, <1>5, <1>7, <1>m, ContextFacts
    <3>2. held[ctx[c].xid] \subseteq held'[ctx[c].xid]
      BY <1>3, <3>1 DEF Effects
    <3> QED BY <1>1, <1>u, <3>1, <3>2 DEF SnapshotOK
  <2> QED BY <2>1, <2>2, <2>3, <2>4 DEF LocalOK
<1>10. StateInv'
  <2>1. ~ Reads(c)' /\ ~ Reserves(c)' /\ phase'[c] \notin {"updating", "deleting"}
    BY <1>5 DEF Reads, Reserves
  <2>2. \A id, y : Answers(c, id, y) => Answers(c, id, y)' \/ y \in aborted'
    <3> SUFFICES ASSUME NEW id, NEW y, Answers(c, id, y), y # x PROVE Answers(c, id, y)'
      BY <1>3
    <3>1. journal(c)' = journal(c)
      BY <1>1 DEF journal
    <3>2. y \in ToSet(todo[c]) => y \in ToSet(t)
      BY <1>t
    <3>3. y \in ToSet(t) => phase'[c] = "undoing"
      BY <1>5, ToSetEmpty
    <3> QED BY <1>1, <1>5, <3>1, <3>2, <3>3 DEF Answers
  <2>3. next_id' \in Nat /\ next_id <= next_id'
    BY <1>1, TypeFacts
  <2>4. {x} \subseteq Xids(c)
    BY <1>t DEF Xids, txn_xids
  <2>5. txn_xids(c)' \subseteq txn_xids(c)
    BY <1>7, <1>t DEF txn_xids
  <2>6. store' = store /\ latest' = latest /\ updates' = updates /\ tombstones' = tombstones
        /\ phase[c] # "publishing"
    BY <1>1
  <2> QED BY <1>3, <1>5, <1>7, <1>8, <1>9, <2>1, <2>2, <2>3, <2>4, <2>5, <2>6, QuietStep
<1> QED BY <1>2, <1>6, <1>10 DEF Inv

\* A step of an undo: the entry e leaves the journal, the versions gone that it
\* wrote leave the store, and the version that it stamped gets its old stamp.
Undoes(c, e, gone) ==
    /\ phase[c] = "undoing" /\ e \in journal(c) /\ e.xid \in ToSet(todo[c])
    /\ UNCHANGED <<managerVars, next_id, ctx, stmtVars, history>>
    /\ \A id \in gone \cap DOMAIN store : store[id].xmin = e.xid
    /\ store' = revive_tombstone([id \in DOMAIN store \ gone |-> store[id]], e)
    /\ updates' \in [Conns -> Seq(Update)] /\ tombstones' \in [Conns -> Seq(Tombstone)]
    /\ \A d \in Conns \ {c} : updates'[d] = updates[d] /\ tombstones'[d] = tombstones[d]
    /\ journal(c)' \subseteq journal(c) /\ journal(c) \subseteq journal(c)' \cup {e}
    /\ ToSet(updates'[c]) \subseteq ToSet(updates[c])
    /\ \A f \in ToSet(updates'[c]) : f.new \notin gone
    /\ \A i, j \in 1..Len(updates'[c]) : updates'[c][i].new = updates'[c][j].new => i = j

\* What it does to the store.
LEMMA ReviveFacts ==
    ASSUME TypeOK, NEW c \in Conns, NEW e, NEW gone, Undoes(c, e, gone)
    PROVE  /\ DOMAIN store' = DOMAIN store \ gone
           /\ \A id \in DOMAIN store' :
                 /\ store'[id] \in Version
                 /\ store'[id].logical = store[id].logical /\ store'[id].xmin = store[id].xmin
                 /\ \/ store'[id].xmax = store[id].xmax
                    \/ id = e.id /\ store'[id].xmax = e.previous_xmax
<1>0. e \in journal(c) /\ store' = revive_tombstone([id \in DOMAIN store \ gone |-> store[id]], e)
  BY DEF Undoes
<1>t. /\ e.id \in Ids /\ e.previous_xmax \in 0..MaxXid
      /\ \A id \in DOMAIN store : store[id] \in Version
  BY <1>0, TypeFacts
<1> DEFINE st == [id \in DOMAIN store \ gone |-> store[id]]
<1>1. CASE e.id \in DOMAIN st /\ st[e.id].xmax = e.xid
  <2>1. store' = [st EXCEPT ![e.id].xmax = e.previous_xmax]
    BY <1>0, <1>1 DEF revive_tombstone
  <2>2. store'[e.id] = [store[e.id] EXCEPT !.xmax = e.previous_xmax] /\ store[e.id] \in Version
    BY <1>t, <1>1, <2>1
  <2>3. /\ store'[e.id] \in Version /\ store'[e.id].logical = store[e.id].logical
        /\ store'[e.id].xmin = store[e.id].xmin /\ store'[e.id].xmax = e.previous_xmax
    BY <1>t, <2>2 DEF Version
  <2>4. \A id \in DOMAIN store' : id # e.id => store'[id] = store[id]
    BY <2>1
  <2>5. DOMAIN store' = DOMAIN store \ gone
    BY <2>1
  <2> QED BY <1>t, <2>3, <2>4, <2>5
<1>2. CASE ~ (e.id \in DOMAIN st /\ st[e.id].xmax = e.xid)
  <2>1. store' = st
    BY <1>0, <1>2 DEF revive_tombstone
  <2> QED BY <1>t, <2>1
<1> QED BY <1>1, <1>2

\* Putting back the stamp of one entry, and dropping the version it made, of
\* an xid that c is about to abort.
LEMMA UndoStep ==
    ASSUME Inv, NEW c \in Conns, NEW e, NEW gone, Undoes(c, e, gone), Start(c) \/ Continue(c)
    PROVE  Inv'
<1> USE DEF Undoes
<1>1. /\ P!Inv /\ TypeOK /\ PhaseOK(c) /\ OrderOK(c) /\ XidOK(c) /\ SnapshotOK(c) /\ JournalOK(c)
      /\ in_transaction(c)
  BY InvFacts, UndoFacts
<1>2. P!Inv' /\ Manager!TypeOK'
  BY ConnStep
<1>3. /\ Effects({}) /\ active' = active /\ begun' = begun /\ aborted' = aborted /\ held' = held
      /\ next_xid' = next_xid
  BY <1>1, FrameEffects
<1>4. Others(c) /\ ctx' = ctx /\ phase' = phase /\ todo' = todo /\ buf' = buf /\ latest' = latest
      /\ next_id' = next_id
  BY DEF Others, Same, stmtVars, history
<1>t. /\ e.id \in Ids /\ e.xid \in 1..MaxXid /\ e.previous_xmax \in 0..MaxXid
      /\ \A id \in DOMAIN store : store[id] \in Version
      /\ DOMAIN store \subseteq Ids /\ next_id \in Nat
  BY <1>1, TypeFacts
<1>5. /\ DOMAIN store' = DOMAIN store \ gone
      /\ \A id \in DOMAIN store' :
            /\ store'[id] \in Version
            /\ store'[id].logical = store[id].logical /\ store'[id].xmin = store[id].xmin
            /\ store'[id].xmax = store[id].xmax \/ (id = e.id /\ store'[id].xmax = e.previous_xmax)
  BY <1>1, ReviveFacts
<1>6. TypeOK'
  <2>1. DOMAIN store' \subseteq Ids /\ store' \in [DOMAIN store' -> Version]
    <3>1. store' = [id \in DOMAIN store' |-> store'[id]]
      BY DEF revive_tombstone
    <3> QED BY <1>t, <1>5, <3>1
  <2> QED BY <1>1, <1>2, <2>1 DEF TypeOK, stmtVars, history
<1>7. /\ group(ctx[c])' = group(ctx[c]) /\ txn_xids(c)' = txn_xids(c) /\ auto_xids(c)' = auto_xids(c)
      /\ in_transaction(c)' /\ Xids(c)' = Xids(c) /\ ~ Reads(c)' /\ ~ Reserves(c)'
  BY <1>1, <1>4 DEF group, txn_xids, auto_xids, in_transaction, Xids, Reads, Reserves
<1>8. LocalOK(c)'
  <2>1. PhaseOK(c)'
    BY <1>1, <1>4, <1>7 DEF PhaseOK, TxnPhase, EndPhase, Reads, Reserves
  <2>2. OrderOK(c)'
    BY <1>1, <1>3, <1>4, <1>7 DEF OrderOK, Whole, Part
  <2>3. XidOK(c)'
    BY <1>1, <1>3, <1>4, <1>7 DEF XidOK
  <2>4. SnapshotOK(c)'
    BY <1>1, <1>3, <1>4 DEF SnapshotOK
  <2> QED BY <2>1, <2>2, <2>3, <2>4 DEF LocalOK
<1>9. /\ LocalInv /\ OwnerInv /\ IdInv /\ JournalInv /\ IsolationInv /\ StampInv /\ LatestInv
  BY DEF Inv, StateInv
<1>10. SameRows({})
  BY <1>5 DEF SameRows
<1>11. \A d \in Conns \ {c} : e.xid \notin txn_xids(d)
  BY <1>9 DEF OwnerInv, Xids, txn_xids
<1>12. LocalInv' /\ OwnerInv'
  BY <1>1, <1>3, <1>4, <1>7, <1>8, <1>9, LocalStep
<1>13. IdInv'
  <2>1. \A f \in journal(c)' : Known(c, f.id)
    BY DEF Known
  <2>2. next_id' \in Nat /\ next_id <= next_id'
    BY <1>4, <1>t
  <2>3. P!Inv /\ TypeOK /\ IdInv
    BY <1>1, <1>9
  <2> QED BY <1>3, <1>4, <1>7, <1>10, <2>1, <2>2, <2>3, IdStep
<1>14. JournalInv'
  <2>1. JournalOK(c)'
    <3>1. ASSUME NEW f \in ToSet(updates'[c])
          PROVE  /\ f.new \in DOMAIN store' /\ store'[f.new].xmin = f.xid
                 /\ f.id \in DOMAIN store' => store'[f.id].logical = store'[f.new].logical
      <4>1. f \in ToSet(updates[c]) /\ f.new \notin gone
        OBVIOUS
      <4>2. /\ f.new \in DOMAIN store /\ store[f.new].xmin = f.xid
            /\ f.id \in DOMAIN store => store[f.id].logical = store[f.new].logical
        BY <1>1, <4>1 DEF JournalOK
      <4>3. f.new \in DOMAIN store'
        BY <1>5, <4>1, <4>2
      <4> QED BY <1>5, <4>2, <4>3
    <3> QED BY <1>1, <1>3, <1>7, <3>1 DEF JournalOK
  <2>2. \A id \in DOMAIN store \ DOMAIN store' : \A d \in Conns \ {c} : store[id].xmin \notin txn_xids(d)
    BY <1>5, <1>11
  <2> QED BY <1>1, <1>3, <1>4, <1>9, <1>10, <2>1, <2>2, JournalStep
<1>15. IsolationInv'
  <2>1. \A d \in Conns \ {c} : \A id \in DOMAIN store \cap DOMAIN store' :
            store[id].xmin \in txn_xids(d) => store'[id].xmax = store[id].xmax
    <3>1. \A d \in Conns \ {c} : e.id \in DOMAIN store => store[e.id].xmin \notin txn_xids(d)
      BY <1>9 DEF IsolationInv, Isolated
    <3> QED BY <1>5, <3>1
  <2>2. \A f \in journal(c)' : f \in journal(c) /\ Known(c, f.id)
    BY DEF Known
  <2> QED BY <1>1, <1>3, <1>4, <1>7, <1>9, <1>10, <2>1, <2>2, IsolationStep
<1>16. StampInv'
  <2>1. \A id \in DOMAIN store \cap DOMAIN store' :
            \A x \in 0..MaxXid : store'[id].xmax = x => Stamp(id, x)
    BY <1>5 DEF Stamp, Keeps
  <2>2. ASSUME NEW id, NEW x PROVE /\ Keeps(c, id, x)' => Stamp(id, x)
                                   /\ Answers(c, id, x) => Accounted(id, x)'
    <3>1. Keeps(c, id, x)' => Stamp(id, x)
      BY <1>4 DEF Keeps, Stamp
    <3>2. Answers(c, id, x) => Answers(c, id, x)'
      BY <1>4 DEF Answers
    <3> QED BY <3>1, <3>2 DEF Accounted
  <2>3. \A r \in Ids : latest'[r] \in DOMAIN store => Current(latest'[r])
    BY <1>4 DEF Current
  <2> QED BY <1>1, <1>3, <1>4, <1>7, <1>9, <1>10, <2>1, <2>2, <2>3, StampStep
<1>17. LatestInv'
  <2>1. ASSUME NEW r \in Ids, latest[r] \in DOMAIN store PROVE latest[r] \in DOMAIN store'
    <3>1. latest[r] \in Ids
      BY <1>t, <2>1
    <3>2. Settled(store[latest[r]].xmin)
      <4>1. latest[r] # 0
        BY <3>1, <1>1, TypeFacts DEF Ids
      <4> QED BY <1>9, <4>1 DEF LatestInv, LatestOK
    <3>3. ~ Settled(e.xid)
      <4>1. e.xid \in active \cup aborted
        BY <1>1 DEF XidOK, txn_xids
      <4>2. e.xid # XID_NONE
        BY <1>t DEF XID_NONE
      <4> QED BY <4>1, <4>2 DEF Settled
    <3>4. latest[r] \notin gone
      BY <2>1, <3>2, <3>3
    <3> QED BY <1>5, <2>1, <3>4
  <2> QED BY <1>1, <1>3, <1>4, <1>9, <1>10, <2>1, LatestStep
<1> QED BY <1>2, <1>6, <1>12, <1>13, <1>14, <1>15, <1>16, <1>17 DEF Inv, StateInv

\* One update is undone.
LEMMA UndoUpdateUndoes ==
    ASSUME Inv, NEW c \in Conns, UndoUpdate(c)
    PROVE  \E e, gone : Undoes(c, e, gone)
<1> DEFINE i == Max(pending_since(c, updates[c]))
           e == updates[c][i]
           q == RemoveAt(updates[c], i)
<1>1. /\ TypeOK /\ JournalOK(c) /\ phase[c] = "undoing" /\ pending_since(c, updates[c]) # {}
      /\ store' = revive_versioned_update(store, e)
      /\ updates' = [updates EXCEPT ![c] = q]
      /\ UNCHANGED <<managerVars, next_id, ctx, tombstones, stmtVars, history>>
  BY InvFacts DEF UndoUpdate
<1>2. /\ updates \in [Conns -> Seq(Update)] /\ tombstones \in [Conns -> Seq(Tombstone)]
      /\ updates[c] \in Seq(Update)
  BY <1>1 DEF TypeOK
<1>3. /\ DOMAIN updates[c] = 1..Len(updates[c]) /\ Len(updates[c]) \in Nat
      /\ ToSet(updates[c]) = {updates[c][j] : j \in 1..Len(updates[c])}
  BY <1>2, LenProperties, ToSetIn
<1>4. i \in 1..Len(updates[c]) /\ e.xid >= Min(ToSet(todo[c]))
  <2>1. pending_since(c, updates[c]) \subseteq 1..Len(updates[c])
    BY <1>3 DEF pending_since
  <2>2. i \in pending_since(c, updates[c])
    BY <1>1, <1>3, <2>1, Extrema
  <2> QED BY <2>1, <2>2 DEF pending_since
<1> HIDE DEF i
<1>5. e \in ToSet(updates[c]) /\ e \in journal(c)
  BY <1>3, <1>4 DEF journal
<1>6. e.xid \in ToSet(todo[c])
  BY <1>1, <1>4, <1>5, UndoFacts
<1>7. /\ q \in Seq(Update) /\ Len(q) = Len(updates[c]) - 1
      /\ \A k \in 1..Len(updates[c]) - 1 : q[k] = IF k < i THEN updates[c][k] ELSE updates[c][k + 1]
      /\ ToSet(q) \subseteq ToSet(updates[c]) /\ ToSet(updates[c]) \subseteq ToSet(q) \cup {e}
  BY <1>2, <1>4, RemoveAtFacts
<1> HIDE DEF q
<1> DEFINE at(k) == IF k < i THEN k ELSE k + 1
<1>8. ASSUME NEW k \in 1..Len(q)
      PROVE  at(k) \in 1..Len(updates[c]) /\ at(k) # i /\ q[k] = updates[c][at(k)]
  BY <1>3, <1>4, <1>7
<1>9. \A j, k \in 1..Len(q) : at(j) = at(k) => j = k
  BY <1>3, <1>4, <1>7
<1> HIDE DEF at
<1>10. \A f \in ToSet(q) : f.new # e.new
  <2>1. ToSet(q) = {q[k] : k \in 1..Len(q)}
    BY <1>7, ToSetIn
  <2>2. \A k \in 1..Len(q) : q[k].new # e.new
    BY <1>1, <1>4, <1>8 DEF JournalOK
  <2> QED BY <2>1, <2>2
<1>11. \A j, k \in 1..Len(q) : q[j].new = q[k].new => j = k
  BY <1>1, <1>8, <1>9 DEF JournalOK
<1>12. updates'[c] = q /\ tombstones' = tombstones /\ updates' \in [Conns -> Seq(Update)]
       /\ \A d \in Conns \ {c} : updates'[d] = updates[d]
  BY <1>1, <1>2, <1>7
<1>13. store' = revive_tombstone([id \in DOMAIN store \ {e.new} |-> store[id]], e)
  BY <1>1 DEF revive_versioned_update
<1>14. journal(c)' \subseteq journal(c) /\ journal(c) \subseteq journal(c)' \cup {e}
  BY <1>7, <1>12 DEF journal
<1>15. store[e.new].xmin = e.xid
  BY <1>1, <1>5 DEF JournalOK
<1>16. Start(c) \/ Continue(c)
  BY DEF Continue
<1> DEFINE gone == {e.new}
<1>17. /\ \A id \in gone \cap DOMAIN store : store[id].xmin = e.xid
       /\ store' = revive_tombstone([id \in DOMAIN store \ gone |-> store[id]], e)
       /\ \A f \in ToSet(updates'[c]) : f.new \notin gone
       /\ ToSet(updates'[c]) \subseteq ToSet(updates[c])
       /\ \A j, k \in 1..Len(updates'[c]) : updates'[c][j].new = updates'[c][k].new => j = k
       /\ UNCHANGED <<managerVars, next_id, ctx, stmtVars, history>>
       /\ tombstones' \in [Conns -> Seq(Tombstone)]
       /\ \A d \in Conns \ {c} : updates'[d] = updates[d] /\ tombstones'[d] = tombstones[d]
  BY <1>1, <1>2, <1>7, <1>10, <1>11, <1>12, <1>13, <1>15
<1> HIDE DEF gone, e
<1>18. Undoes(c, e, gone)
  BY <1>1, <1>5, <1>6, <1>12, <1>14, <1>16, <1>17 DEF Undoes
<1> QED BY <1>18

\* That keeps the invariant.
LEMMA InvUndoUpdate ==
    ASSUME Inv, NEW c \in Conns, UndoUpdate(c)
    PROVE  Inv'
<1>1. PICK e, gone : Undoes(c, e, gone)
  BY UndoUpdateUndoes
<1> QED BY <1>1, UndoStep DEF Continue

\* One tombstone is undone.
LEMMA UndoTombstoneUndoes ==
    ASSUME Inv, NEW c \in Conns, UndoTombstone(c)
    PROVE  \E e, gone : Undoes(c, e, gone)
<1> DEFINE i == Min(pending_since(c, tombstones[c]))
           e == tombstones[c][i]
           q == RemoveAt(tombstones[c], i)
<1>1. /\ TypeOK /\ JournalOK(c) /\ phase[c] = "undoing" /\ pending_since(c, tombstones[c]) # {}
      /\ store' = revive_tombstone(store, e)
      /\ tombstones' = [tombstones EXCEPT ![c] = q]
      /\ UNCHANGED <<managerVars, next_id, ctx, updates, stmtVars, history>>
  BY InvFacts DEF UndoTombstone
<1>2. /\ updates \in [Conns -> Seq(Update)] /\ tombstones \in [Conns -> Seq(Tombstone)]
      /\ tombstones[c] \in Seq(Tombstone)
  BY <1>1 DEF TypeOK
<1>3. /\ DOMAIN tombstones[c] = 1..Len(tombstones[c]) /\ Len(tombstones[c]) \in Nat
      /\ ToSet(tombstones[c]) = {tombstones[c][j] : j \in 1..Len(tombstones[c])}
  BY <1>2, LenProperties, ToSetIn
<1>4. i \in 1..Len(tombstones[c]) /\ e.xid >= Min(ToSet(todo[c]))
  <2>1. pending_since(c, tombstones[c]) \subseteq 1..Len(tombstones[c])
    BY <1>3 DEF pending_since
  <2>2. i \in pending_since(c, tombstones[c])
    BY <1>1, <1>3, <2>1, Extrema
  <2> QED BY <2>1, <2>2 DEF pending_since
<1> HIDE DEF i
<1>5. e \in ToSet(tombstones[c]) /\ e \in journal(c)
  BY <1>3, <1>4 DEF journal
<1>6. e.xid \in ToSet(todo[c])
  BY <1>1, <1>4, <1>5, UndoFacts
<1>7. /\ q \in Seq(Tombstone)
      /\ ToSet(q) \subseteq ToSet(tombstones[c]) /\ ToSet(tombstones[c]) \subseteq ToSet(q) \cup {e}
  BY <1>2, <1>4, RemoveAtFacts
<1> HIDE DEF q
<1>8. tombstones'[c] = q /\ updates' = updates /\ tombstones' \in [Conns -> Seq(Tombstone)]
      /\ \A d \in Conns \ {c} : tombstones'[d] = tombstones[d]
  BY <1>1, <1>2, <1>7
<1>9. journal(c)' \subseteq journal(c) /\ journal(c) \subseteq journal(c)' \cup {e}
  BY <1>7, <1>8 DEF journal
<1>10. Start(c) \/ Continue(c)
  BY DEF Continue
<1> DEFINE gone == {}
<1>11. store = [id \in DOMAIN store \ gone |-> store[id]]
  BY <1>1 DEF TypeOK
<1>12. /\ \A id \in gone \cap DOMAIN store : store[id].xmin = e.xid
       /\ store' = revive_tombstone([id \in DOMAIN store \ gone |-> store[id]], e)
       /\ \A f \in ToSet(updates'[c]) : f.new \notin gone
       /\ ToSet(updates'[c]) \subseteq ToSet(updates[c])
       /\ \A j, k \in 1..Len(updates'[c]) : updates'[c][j].new = updates'[c][k].new => j = k
       /\ UNCHANGED <<managerVars, next_id, ctx, stmtVars, history>>
       /\ updates' \in [Conns -> Seq(Update)]
       /\ \A d \in Conns \ {c} : updates'[d] = updates[d] /\ tombstones'[d] = tombstones[d]
  BY <1>1, <1>2, <1>8, <1>11 DEF JournalOK
<1> HIDE DEF gone, e
<1>13. Undoes(c, e, gone)
  BY <1>1, <1>5, <1>6, <1>8, <1>9, <1>10, <1>12 DEF Undoes
<1> QED BY <1>13

\* That keeps the invariant.
LEMMA InvUndoTombstone ==
    ASSUME Inv, NEW c \in Conns, UndoTombstone(c)
    PROVE  Inv'
<1>1. PICK e, gone : Undoes(c, e, gone)
  BY UndoTombstoneUndoes
<1> QED BY <1>1, UndoStep DEF Continue

-----------------------------------------------------------------------------
(* Publication.                                                            *)

\* The stamp that a journal leaves on a version is that of one of its entries.
LEMMA LastStamp ==
    ASSUME NEW S, NEW s \in Seq(S), NEW id, NEW o
    PROVE  \/ last_stamp(s, id, o) = o
           \/ \E e \in ToSet(s) : e.id = id /\ last_stamp(s, id, o) = e.xid
<1> DEFINE at == {i \in DOMAIN s : s[i].id = id}
<1>1. CASE at = {}
  BY <1>1 DEF last_stamp
<1>2. CASE at # {}
  <2>1. DOMAIN s = 1..Len(s) /\ Len(s) \in Nat /\ ToSet(s) = {s[i] : i \in 1..Len(s)}
    BY LenProperties, ToSetIn
  <2>2. at \subseteq 1..Len(s)
    BY <2>1
  <2>3. Max(at) \in at
    <3> HIDE DEF at
    <3> QED BY <1>2, <2>1, <2>2, Extrema
  <2>4. last_stamp(s, id, o) = s[Max(at)].xid
    BY <1>2 DEF last_stamp
  <2> QED BY <2>1, <2>3, <2>4
<1> QED BY <1>1, <1>2

\* With the publication lock free nobody publishes or deletes.
LEMMA LockFree ==
    ASSUME TypeOK, lock = NoConn
    PROVE  \A d \in Conns : phase[d] \notin {"publishing", "deleting"}
  BY ConnsAssumption DEF TypeOK, NoConn

\* The stamps that a commit puts back are those of its own entries.
LEMMA RestoredFacts ==
    ASSUME TypeOK, NEW c \in Conns, store' = restored_stamps(c)
    PROVE  /\ DOMAIN store' = DOMAIN store
           /\ \A id \in DOMAIN store :
                 /\ store'[id] \in Version
                 /\ store'[id].logical = store[id].logical /\ store'[id].xmin = store[id].xmin
                 /\ \/ store'[id].xmax = store[id].xmax
                    \/ \E e \in journal(c) : e.id = id /\ store'[id].xmax = e.xid
<1>t. /\ \A id \in DOMAIN store : store[id] \in Version
      /\ \A e \in journal(c) : e.xid \in 1..MaxXid
      /\ updates[c] \in Seq(Update) /\ tombstones[c] \in Seq(Tombstone) /\ MaxXid \in Nat
  BY TypeFacts
<1>1. DOMAIN store' = DOMAIN store
  BY DEF restored_stamps
<1>2. ASSUME NEW id \in DOMAIN store
      PROVE  /\ store'[id] \in Version
             /\ store'[id].logical = store[id].logical /\ store'[id].xmin = store[id].xmin
             /\ \/ store'[id].xmax = store[id].xmax
                \/ \E e \in journal(c) : e.id = id /\ store'[id].xmax = e.xid
  <2> DEFINE x == last_stamp(tombstones[c], id, last_stamp(updates[c], id, store[id].xmax))
  <2>1. store'[id] = [store[id] EXCEPT !.xmax = x] /\ store[id] \in Version
    BY <1>t DEF restored_stamps
  <2>2. x = store[id].xmax \/ \E e \in journal(c) : e.id = id /\ x = e.xid
    BY <1>t, LastStamp DEF journal
  <2> HIDE DEF x
  <2>3. x \in 0..MaxXid
    <3>1. CASE x = store[id].xmax
      BY <2>1, <3>1 DEF Version
    <3>2. CASE \E e \in journal(c) : e.id = id /\ x = e.xid
      BY <1>t, <3>2
    <3> QED BY <2>2, <3>1, <3>2
  <2>4. /\ store'[id] \in Version /\ store'[id].logical = store[id].logical
        /\ store'[id].xmin = store[id].xmin /\ store'[id].xmax = x
    BY <2>1, <2>3 DEF Version
  <2> QED BY <2>2, <2>4
<1> QED BY <1>1, <1>2

\* COMMIT stamps again what others have overwritten: with xids of its own, for
\* which it has entries.
LEMMA InvPublish ==
    ASSUME Inv, NEW c \in Conns, Publish(c)
    PROVE  Inv'
<1>1. /\ P!Inv /\ TypeOK /\ PhaseOK(c) /\ OrderOK(c) /\ XidOK(c) /\ SnapshotOK(c) /\ JournalOK(c)
      /\ phase[c] = "validated" /\ lock = NoConn /\ store' = restored_stamps(c)
      /\ UNCHANGED <<managerVars, next_id, txnVars, todo, buf, history>>
  BY InvFacts DEF Publish
<1>p. PICK to \in {"publishing", "undoing"} :
          /\ phase' = [phase EXCEPT ![c] = to]
          /\ lock' = IF to = "publishing" THEN c ELSE NoConn
  <2>1. CASE lock' = c /\ Goto(c, "publishing")
    BY <2>1 DEF Goto
  <2>2. CASE Goto(c, "undoing") /\ UNCHANGED lock
    BY <1>1, <2>2 DEF Goto
  <2> QED BY <2>1, <2>2 DEF Publish
<1>2. P!Inv' /\ Manager!TypeOK'
  BY ConnStep DEF Continue
<1>3. /\ Effects({}) /\ active' = active /\ begun' = begun /\ aborted' = aborted /\ held' = held
      /\ next_xid' = next_xid
  BY <1>1, FrameEffects
<1>4. /\ phase \in [Conns -> Phase] /\ in_transaction(c) /\ todo[c] # <<>>
      /\ \A d \in Conns : phase[d] \notin {"publishing", "deleting"}
      /\ \A d \in Conns : lock # d
  BY <1>1, LockFree, ConnsAssumption DEF TypeOK, PhaseOK, AutoPhase, EndPhase, NoConn
<1>5. /\ ctx' = ctx /\ updates' = updates /\ tombstones' = tombstones /\ todo' = todo /\ buf' = buf
      /\ latest' = latest /\ next_id' = next_id /\ phase'[c] = to /\ Others(c)
  BY <1>1, <1>p, <1>4 DEF Others, Same, txnVars, history
<1>t. /\ DOMAIN store \subseteq Ids /\ next_id \in Nat
      /\ \A id \in DOMAIN store : store[id] \in Version
      /\ \A e \in journal(c) : e.xid \in 1..MaxXid
      /\ updates[c] \in Seq(Update) /\ tombstones[c] \in Seq(Tombstone) /\ MaxXid \in Nat
  BY <1>1, TypeFacts
<1>6. /\ DOMAIN store' = DOMAIN store
      /\ \A id \in DOMAIN store :
            /\ store'[id] \in Version
            /\ store'[id].logical = store[id].logical /\ store'[id].xmin = store[id].xmin
            /\ \/ store'[id].xmax = store[id].xmax
               \/ \E e \in journal(c) : e.id = id /\ store'[id].xmax = e.xid
  BY <1>1, RestoredFacts
<1>7. TypeOK'
  <2>1. DOMAIN store' \subseteq Ids /\ store' \in [DOMAIN store' -> Version]
    <3>1. store' = [id \in DOMAIN store' |-> store'[id]]
      BY <1>1 DEF restored_stamps
    <3> QED BY <1>t, <1>6, <3>1
  <2>2. phase' \in [Conns -> Phase]
    BY <1>p, <1>4 DEF Phase
  <2>3. lock' \in Conns \cup {NoConn}
    BY <1>p
  <2>4. \A d \in Conns : lock' = d <=> phase'[d] \in {"publishing", "deleting"}
    BY <1>1, <1>p, <1>4
  <2> QED BY <1>1, <1>2, <2>1, <2>2, <2>3, <2>4 DEF TypeOK, txnVars, history
<1>8. /\ group(ctx[c])' = group(ctx[c]) /\ txn_xids(c)' = txn_xids(c) /\ auto_xids(c)' = {}
      /\ in_transaction(c)' /\ journal(c)' = journal(c) /\ ~ Reads(c)' /\ ~ Reserves(c)'
  BY <1>4, <1>5 DEF group, txn_xids, auto_xids, in_transaction, Xids, Reads, Reserves, journal
<1>9. LocalOK(c)'
  <2>1. PhaseOK(c)'
    BY <1>4, <1>5, <1>8 DEF PhaseOK, TxnPhase, EndPhase, Reads, Reserves
  <2>2. OrderOK(c)'
    BY <1>1, <1>4, <1>5, <1>8 DEF OrderOK, Whole
  <2>3. XidOK(c)'
    <3>1. group(ctx[c]) \subseteq ToSet(todo[c]) /\ txn_xids(c) \subseteq active
      BY <1>1, <1>4 DEF OrderOK, XidOK
    <3>2. active \cap aborted = {}
      BY <1>1, ManagerFacts
    <3> QED BY <1>1, <1>3, <1>5, <1>8, <3>1, <3>2 DEF XidOK, Xids, txn_xids
  <2>4. SnapshotOK(c)'
    BY <1>1, <1>3, <1>4, <1>5 DEF SnapshotOK
  <2> QED BY <2>1, <2>2, <2>3, <2>4 DEF LocalOK
<1>10. /\ LocalInv /\ OwnerInv /\ IdInv /\ JournalInv /\ IsolationInv /\ StampInv /\ LatestInv
  BY DEF Inv, StateInv
<1>11. SameRows({})
  BY <1>6 DEF SameRows
<1>12. LocalInv' /\ OwnerInv'
  <2>1. Xids(c)' \subseteq Xids(c)
    BY <1>8 DEF Xids
  <2> QED BY <1>1, <1>3, <1>5, <1>9, <1>10, <2>1, LocalStep
<1>13. IdInv'
  <2>1. \A f \in journal(c)' : Known(c, f.id)
    BY <1>8 DEF Known
  <2>2. next_id' \in Nat /\ next_id <= next_id'
    BY <1>5, <1>t
  <2>3. P!Inv /\ TypeOK /\ IdInv
    BY <1>1, <1>10
  <2> QED BY <1>3, <1>5, <1>8, <1>11, <2>1, <2>2, <2>3, IdStep
<1>14. JournalInv'
  <2>1. JournalOK(c)'
    BY <1>1, <1>3, <1>5, <1>6, <1>8 DEF JournalOK
  <2> QED BY <1>1, <1>3, <1>5, <1>6, <1>10, <1>11, <2>1, JournalStep
<1>15. IsolationInv'
  <2>1. \A f \in journal(c)' : f \in journal(c) /\ Known(c, f.id)
    BY <1>8 DEF Known
  <2> QED BY <1>1, <1>3, <1>4, <1>5, <1>8, <1>10, <1>11, <2>1, IsolationStep
<1>16. StampInv'
  <2>1. ASSUME NEW id, NEW x PROVE Answers(c, id, x) => Answers(c, id, x)' /\ Accounted(id, x)'
    BY <1>1, <1>5, <1>8 DEF Answers, Accounted
  <2>2. \A id \in DOMAIN store : \A x \in 0..MaxXid :
            store'[id].xmax = x => Stamp(id, x) \/ Accounted(id, x)'
    <3> SUFFICES ASSUME NEW id \in DOMAIN store, NEW x \in 0..MaxXid, store'[id].xmax = x
                 PROVE  Stamp(id, x) \/ Accounted(id, x)'
      OBVIOUS
    <3>1. CASE store[id].xmax = x
      BY <3>1 DEF Stamp
    <3>2. CASE store[id].xmax # x
      <4>1. Answers(c, id, x)
        BY <1>6, <3>2 DEF Answers
      <4> QED BY <2>1, <4>1
    <3> QED BY <3>1, <3>2
  <2>3. ASSUME NEW id, NEW x PROVE Keeps(c, id, x)' => Stamp(id, x)
    BY <1>5, <1>8 DEF Keeps, Stamp
  <2>4. \A r \in Ids : latest'[r] \in DOMAIN store => Current(latest'[r])
    BY <1>5 DEF Current
  <2> QED BY <1>1, <1>3, <1>5, <1>8, <1>10, <1>11, <2>1, <2>2, <2>3, <2>4, StampStep
<1>17. LatestInv'
  BY <1>1, <1>3, <1>5, <1>6, <1>10, <1>11, LatestStep
<1> QED BY <1>2, <1>7, <1>12, <1>13, <1>14, <1>15, <1>16, <1>17 DEF Inv, StateInv

\* The xids of a publishing transaction that remain, and what has become of
\* the others.
LEMMA PublishingFacts ==
    ASSUME Inv, NEW c \in Conns, phase[c] = "publishing"
    PROVE  LET x == Head(todo[c])
               t == Tail(todo[c])
           IN  /\ todo[c] # <<>> /\ in_transaction(c) /\ Whole(c)
               /\ x \in ToSet(todo[c]) /\ t \in Seq(1..MaxXid) /\ x \in 1..MaxXid
               /\ ToSet(todo[c]) = {x} \cup ToSet(t)
               /\ x = ctx[c].xid => t = <<>>
               /\ x # ctx[c].xid => t # <<>> /\ EndsIn(t, ctx[c].xid)
               /\ txn_xids(c) = group(ctx[c]) /\ own_xids(c) = group(ctx[c])
<1>1. TypeOK /\ PhaseOK(c) /\ OrderOK(c)
  BY InvFacts
<1>2. todo[c] # <<>> /\ in_transaction(c) /\ todo[c] \in Seq(1..MaxXid)
  BY <1>1, TypeFacts DEF PhaseOK, EndPhase, AutoPhase
<1>3. Whole(c)
  BY <1>1, <1>2 DEF OrderOK
<1>4. txn_xids(c) = group(ctx[c]) /\ own_xids(c) = group(ctx[c])
  BY <1>1, <1>3, ContextFacts DEF Whole, txn_xids
<1>5. ToSet(todo[c]) \subseteq 1..MaxXid
  BY <1>2, ToSetIn
<1> QED BY <1>1, <1>2, <1>3, <1>4, <1>5, TodoFacts

\* The xid of a savepoint is committed.
LEMMA InvCommitSavepoint ==
    ASSUME Inv, NEW c \in Conns, CommitXid(c), Head(todo[c]) # ctx[c].xid
    PROVE  Inv'
<1> DEFINE x == Head(todo[c])
           t == Tail(todo[c])
<1>1. /\ P!Inv /\ TypeOK /\ PhaseOK(c) /\ OrderOK(c) /\ XidOK(c) /\ SnapshotOK(c) /\ JournalOK(c)
      /\ phase[c] = "publishing" /\ Manager!commit(x)
      /\ todo' = [todo EXCEPT ![c] = t]
      /\ UNCHANGED <<phase, lock, txnVars, history, store, next_id, buf>>
  BY InvFacts DEF CommitXid
<1>2. P!Inv' /\ Manager!TypeOK'
  BY ConnStep DEF Continue
<1>3. /\ Effects({x}) /\ x \in active /\ active' = active \ {x} /\ begun' = begun
      /\ aborted' = aborted
  BY <1>1, EndEffects
<1>4. /\ todo[c] # <<>> /\ in_transaction(c) /\ Whole(c)
      /\ x \in ToSet(todo[c]) /\ t \in Seq(1..MaxXid) /\ x \in 1..MaxXid
      /\ ToSet(todo[c]) = {x} \cup ToSet(t) /\ x # ctx[c].xid
      /\ t # <<>> /\ EndsIn(t, ctx[c].xid)
      /\ txn_xids(c) = group(ctx[c])
  BY <1>1, PublishingFacts
<1> HIDE DEF x, t
<1>5. /\ todo \in [Conns -> Seq(1..MaxXid)] /\ ctx' = ctx /\ updates' = updates
      /\ tombstones' = tombstones /\ phase' = phase /\ todo'[c] = t /\ latest' = latest /\ Others(c)
  BY <1>1 DEF TypeOK, txnVars, history, Others, Same
<1>6. TypeOK'
  <2>1. todo' \in [Conns -> Seq(1..MaxXid)]
    BY <1>1, <1>4, <1>5
  <2> QED BY <1>1, <1>2, <2>1 DEF TypeOK, txnVars, history
<1>7. /\ group(ctx[c])' = group(ctx[c]) /\ txn_xids(c)' = txn_xids(c)
      /\ auto_xids(c)' = auto_xids(c) /\ in_transaction(c)'
  BY <1>1, <1>4, <1>5 DEF group, txn_xids, auto_xids, in_transaction, Whole
<1>8. LocalOK(c)'
  <2>1. PhaseOK(c)'
    BY <1>1, <1>4, <1>5, <1>7 DEF PhaseOK, TxnPhase, EndPhase, Reads, Reserves
  <2>2. OrderOK(c)'
    <3>1. Whole(c)'
      BY <1>4, <1>5, <1>7 DEF Whole
    <3> QED BY <1>1, <1>4, <1>5, <3>1 DEF OrderOK
  <2>3. XidOK(c)'
    BY <1>1, <1>3, <1>4, <1>5, <1>7 DEF XidOK, Xids
  <2>4. SnapshotOK(c)'
    <3>1. ctx[c].xid \in 1..MaxXid
      BY <1>1, <1>4, ContextFacts
    <3>2. held[ctx[c].xid] \subseteq held'[ctx[c].xid]
      BY <1>3, <1>4, <3>1 DEF Effects
    <3> QED BY <1>1, <1>4, <1>5, <3>2 DEF SnapshotOK
  <2> QED BY <2>1, <2>2, <2>3, <2>4 DEF LocalOK
<1>9. StateInv'
  <2>1. ~ Reads(c)' /\ ~ Reserves(c)' /\ phase'[c] \notin {"updating", "deleting"}
    BY <1>1, <1>5 DEF Reads, Reserves
  <2>2. \A id, y : Answers(c, id, y) => Answers(c, id, y)'
    BY <1>1, <1>5 DEF Answers, journal
  <2>3. next_id' \in Nat /\ next_id <= next_id'
    BY <1>1, TypeFacts
  <2>4. \A e \in journal(c) : e.xid \in txn_xids(c)' /\ e.xid \notin aborted'
    BY <1>1, <1>3, <1>7 DEF JournalOK
  <2>5. {x} \subseteq Xids(c)
    BY <1>4 DEF Xids, txn_xids
  <2>6. store' = store /\ phase'[c] = "publishing"
    BY <1>1
  <2> QED BY <1>3, <1>5, <1>7, <1>8, <2>1, <2>2, <2>3, <2>4, <2>5, <2>6, QuietStep
<1> QED BY <1>2, <1>6, <1>9 DEF Inv

\* What a transaction leaves of a row is a version it has written and not
\* stamped.
LEMMA OutcomeFacts ==
    ASSUME TypeOK, NEW c \in Conns, NEW r, outcome(c, r) # 0
    PROVE  LET id == outcome(c, r)
           IN  /\ id \in DOMAIN store /\ store[id].logical = r
               /\ store[id].xmin \in own_xids(c) /\ store[id].xmax \notin own_xids(c)
<1> DEFINE left == {id \in DOMAIN store : /\ store[id].logical = r
                                          /\ store[id].xmin \in own_xids(c)
                                          /\ store[id].xmax \notin own_xids(c)}
<1>1. left # {} /\ outcome(c, r) = CHOOSE id \in left : \A j \in left : j <= id
  BY DEF outcome
<1>2. left \subseteq 1..MaxId /\ MaxId \in Nat
  BY TypeFacts DEF Ids
<1> HIDE DEF left
<1>3. \E id \in left : \A j \in left : j <= id
  BY <1>1, <1>2, Extrema
<1>4. outcome(c, r) \in left
  BY <1>1, <1>3
<1> QED BY <1>4 DEF left

\* The parent's xid is committed: what the transaction has left becomes the
\* last committed version of its rows.  Nobody else keeps a stamp for it, and
\* a row that keeps its last committed version has no entry of c's.
LEMMA InvCommitParent ==
    ASSUME Inv, NEW c \in Conns, CommitXid(c), Head(todo[c]) = ctx[c].xid
    PROVE  Inv'
<1> DEFINE x == ctx[c].xid
           rows == updated_rows(c) \cup deleted_rows(c) \cup inserted_rows(c)
<1>1. /\ P!Inv /\ TypeOK /\ PhaseOK(c) /\ OrderOK(c) /\ XidOK(c) /\ SnapshotOK(c) /\ JournalOK(c)
      /\ phase[c] = "publishing" /\ Manager!commit(x)
      /\ todo' = [todo EXCEPT ![c] = Tail(todo[c])] /\ phase' = [phase EXCEPT ![c] = "idle"]
      /\ lock' = NoConn /\ ctx' = [ctx EXCEPT ![c] = NoContext]
      /\ updates' = [updates EXCEPT ![c] = <<>>] /\ tombstones' = [tombstones EXCEPT ![c] = <<>>]
      /\ view' = [view EXCEPT ![c] = {}] /\ base' = [base EXCEPT ![c] = {}]
      /\ latest' = [r \in Ids |-> IF r \in rows THEN outcome(c, r) ELSE latest[r]]
      /\ wrote' = wrote \cup [row : updated_rows(c), xid : {x}, kind : {"update"}]
                        \cup [row : deleted_rows(c), xid : {x}, kind : {"delete"}]
      /\ UNCHANGED <<store, next_id, buf>>
  BY InvFacts DEF CommitXid, Goto, ForgetView
<1>2. P!Inv' /\ Manager!TypeOK'
  BY ConnStep DEF Continue
<1>3. /\ Effects({x}) /\ x \in active /\ active' = active \ {x} /\ begun' = begun
      /\ aborted' = aborted /\ Manager!pool_slots' = Manager!pool_slots
  BY <1>1, EndEffects
<1>4. /\ todo[c] # <<>> /\ in_transaction(c) /\ Whole(c) /\ x \in ToSet(todo[c])
      /\ x \in 1..MaxXid /\ Tail(todo[c]) = <<>> /\ ToSet(todo[c]) = {x}
      /\ txn_xids(c) = group(ctx[c]) /\ own_xids(c) = group(ctx[c])
  BY <1>1, PublishingFacts, ToSetEmpty
<1>5. /\ ctx \in [Conns -> Context] /\ phase \in [Conns -> Phase] /\ todo \in [Conns -> Seq(1..MaxXid)]
      /\ updates \in [Conns -> Seq(Update)] /\ tombstones \in [Conns -> Seq(Tombstone)]
      /\ view \in [Conns -> SUBSET Ids] /\ base \in [Conns -> SUBSET Ids]
      /\ \A d \in Conns : phase[d] \in {"publishing", "deleting"} => d = c
  BY <1>1 DEF TypeOK
<1>6. /\ ctx'[c] = NoContext /\ updates'[c] = <<>> /\ tombstones'[c] = <<>> /\ todo'[c] = <<>>
      /\ phase'[c] = "idle" /\ Others(c)
  BY <1>1, <1>4, <1>5 DEF Others, Same
<1>n. NoContext \in Context
  <2>1. NoSnapshot \in Manager!Snapshot
    BY <1>1, ManagerFacts DEF NoSnapshot, Manager!Snapshot, Manager!Xid, XID_NONE
  <2>2. 0 \in 0..MaxXid /\ <<>> \in Seq(1..MaxXid)
    BY <1>1, TypeFacts
  <2> QED BY <2>1, <2>2 DEF NoContext, Context, XID_NONE
<1>t. /\ DOMAIN store \subseteq Ids /\ \A id \in DOMAIN store : store[id].logical \in Ids
      /\ next_id \in Nat /\ MaxId \in Nat
  BY <1>1, TypeFacts
<1>7. TypeOK'
  <2>1. ctx' \in [Conns -> Context] /\ phase' \in [Conns -> Phase] /\ todo' \in [Conns -> Seq(1..MaxXid)]
        /\ updates' \in [Conns -> Seq(Update)] /\ tombstones' \in [Conns -> Seq(Tombstone)]
        /\ view' \in [Conns -> SUBSET Ids] /\ base' \in [Conns -> SUBSET Ids]
    BY <1>1, <1>4, <1>5, <1>n DEF Phase
  <2>2. latest' \in [Ids -> 0..MaxId]
    <3>1. \A r \in Ids : outcome(c, r) \in 0..MaxId
      BY <1>1, <1>t, OutcomeFacts DEF Ids
    <3> QED BY <1>1, <3>1 DEF TypeOK
  <2>3. wrote' \subseteq Write
    <3>1. updated_rows(c) \subseteq Ids
      BY <1>1, <1>t DEF updated_rows, JournalOK
    <3>2. deleted_rows(c) \subseteq Ids
      BY <1>t DEF deleted_rows
    <3> QED BY <1>1, <1>4, <3>1, <3>2 DEF TypeOK, Write
  <2>4. \A d \in Conns : lock' = d <=> phase'[d] \in {"publishing", "deleting"}
    BY <1>1, <1>5, ConnsAssumption DEF NoConn
  <2>5. lock' \in Conns \cup {NoConn}
    BY <1>1
  <2> QED BY <1>1, <1>2, <2>1, <2>2, <2>3, <2>4, <2>5 DEF TypeOK
<1>8. /\ group(ctx[c])' = {} /\ txn_xids(c)' = {} /\ auto_xids(c)' = {} /\ Xids(c)' = {}
      /\ ~ in_transaction(c)' /\ journal(c)' = {} /\ ~ Reads(c)' /\ ~ Reserves(c)'
  BY <1>6, ToSetEmpty DEF group, txn_xids, auto_xids, Xids, in_transaction, journal, Reads, Reserves,
                          NoContext, XID_NONE
<1>9. LocalOK(c)'
  <2>1. PhaseOK(c)'
    BY <1>6, <1>8 DEF PhaseOK, AutoPhase, EndPhase, Reads, Reserves, NoContext
  <2>2. OrderOK(c)' /\ SnapshotOK(c)'
    BY <1>8 DEF OrderOK, SnapshotOK
  <2>3. XidOK(c)'
    BY <1>6, <1>8 DEF XidOK
  <2> QED BY <2>1, <2>2, <2>3 DEF LocalOK
<1>10. /\ LocalInv /\ OwnerInv /\ IdInv /\ JournalInv /\ IsolationInv /\ StampInv /\ LatestInv
  BY DEF Inv, StateInv
<1>11. SameRows({}) /\ {x} \subseteq Xids(c)
  BY <1>1, <1>4 DEF SameRows, Xids, txn_xids
<1>12. LocalInv' /\ OwnerInv'
  BY <1>1, <1>3, <1>6, <1>8, <1>9, <1>10, <1>11, LocalStep
<1>13. IdInv'
  <2>1. next_id' \in Nat /\ next_id <= next_id'
    BY <1>1, <1>t
  <2>2. P!Inv /\ TypeOK /\ IdInv
    BY <1>1, <1>10
  <2> QED BY <1>3, <1>6, <1>8, <1>11, <2>1, <2>2, IdStep
<1>14. JournalInv'
  <2>1. JournalOK(c)'
    <3>1. ToSet(updates'[c]) = {} /\ Len(updates'[c]) = 0
      BY <1>6, ToSetEmpty
    <3> QED BY <1>8, <3>1 DEF JournalOK
  <2>2. DOMAIN store \ DOMAIN store' = {}
    BY <1>1
  <2> QED BY <1>1, <1>3, <1>6, <1>10, <1>11, <2>1, <2>2, JournalStep
<1>15. IsolationInv'
  BY <1>1, <1>3, <1>6, <1>8, <1>10, <1>11, IsolationStep
<1>r. ASSUME NEW r \in Ids
      PROVE  \/ r \in rows /\ latest'[r] = outcome(c, r)
             \/ r \notin rows /\ latest'[r] = latest[r]
  BY <1>1
<1>16. StampInv'
  <2>1. \A r \in Ids : latest'[r] \in DOMAIN store => Current(latest'[r])
    <3> SUFFICES ASSUME NEW r \in Ids, latest'[r] \in DOMAIN store PROVE Current(latest'[r])
      OBVIOUS
    <3>1. CASE latest'[r] = latest[r]
      BY <3>1 DEF Current
    <3>2. CASE latest'[r] = outcome(c, r)
      <4>1. outcome(c, r) # 0
        BY <1>t, <3>2 DEF Ids
      <4>2. store[outcome(c, r)].xmin \in txn_xids(c)
        BY <1>1, <1>4, <4>1, OutcomeFacts
      <4> QED BY <3>2, <4>2 DEF Current
    <3> QED BY <1>r, <3>1, <3>2
  <2>2. ASSUME NEW id \in DOMAIN store, NEW y \in 0..MaxXid, Current(id)', Answers(c, id, y),
               Stamp(id, y)'
        PROVE  FALSE
    <3>1. PICK e \in journal(c) : e.id = id /\ e.xid = y
      BY <1>1, <2>2 DEF Answers
    <3>2. y \in own_xids(c)
      BY <1>1, <1>4, <3>1 DEF JournalOK
    <3>3. store[id].logical \in rows
      <4>1. CASE e \in ToSet(updates[c])
        BY <1>1, <3>1, <4>1 DEF JournalOK, updated_rows
      <4>2. CASE e \in ToSet(tombstones[c])
        BY <3>1, <4>2 DEF deleted_rows
      <4> QED BY <4>1, <4>2 DEF journal
    <3>4. CASE \E d \in Conns : store'[id].xmin \in txn_xids(d)'
      <4>1. PICK d \in Conns : store'[id].xmin \in txn_xids(d)'
        BY <3>4
      <4>2. d # c
        BY <1>8, <4>1
      <4>3. store[id].xmin \in txn_xids(d)
        BY <1>1, <1>6, <4>1, <4>2, SameFacts DEF Others
      <4> QED BY <1>10, <3>1, <4>2, <4>3 DEF IsolationInv, Isolated
    <3>5. CASE \E r \in Ids : latest'[r] = id
      <4>1. PICK r \in Ids : latest'[r] = id
        BY <3>5
      <4>2. CASE r \notin rows /\ latest'[r] = latest[r]
        <5>1. id # 0
          BY <1>t DEF Ids
        <5>2. store[id].logical = r
          BY <1>10, <4>1, <4>2, <5>1 DEF LatestInv, LatestOK
        <5> QED BY <3>3, <4>2, <5>2
      <4>3. CASE latest'[r] = outcome(c, r)
        <5>1. id # 0 /\ id = outcome(c, r)
          BY <1>t, <4>1, <4>3 DEF Ids
        <5>2. store[id].xmin \in txn_xids(c) /\ store[id].xmax \notin own_xids(c)
          BY <1>1, <1>4, <5>1, OutcomeFacts
        <5>3. PICK d \in Conns : Keeps(d, id, y)'
          BY <1>1, <2>2, <3>2, <5>2 DEF Stamp
        <5>4. d # c
          BY <1>6, <1>8, <5>3 DEF Keeps
        <5>5. Keeps(d, id, y)
          BY <1>6, <5>3, <5>4, SameFacts DEF Keeps, Others, Same
        <5>6. Isolated(c, d)
          BY <1>10, <5>4 DEF IsolationInv
        <5>7. buf[d].id = id /\ buf[d].old.xmax = y /\ Reads(d)
          BY <5>2, <5>5, <5>6 DEF Keeps, Isolated, Reads
        <5>8. y = store[id].xmax
          BY <5>2, <5>6, <5>7 DEF Isolated
        <5> QED BY <3>2, <5>2, <5>8
      <4> QED BY <1>r, <4>2, <4>3
    <3> QED BY <2>2, <3>4, <3>5 DEF Current
  <2>3. \A id, y : ~ Keeps(c, id, y)'
    BY <1>6, <1>8 DEF Keeps
  <2>4. \A id \in DOMAIN store \cap DOMAIN store' : \A y \in 0..MaxXid : store'[id].xmax = y => Stamp(id, y)
    BY <1>1 DEF Stamp
  <2> QED BY <1>1, <1>3, <1>6, <1>8, <1>10, <1>11, <2>1, <2>2, <2>3, <2>4, StampStep
<1>17. LatestInv'
  <2>1. ASSUME NEW r \in Ids, latest'[r] = outcome(c, r) PROVE LatestOK(r)'
    <3> SUFFICES ASSUME latest'[r] # 0 PROVE LatestOK(r)'
      BY DEF LatestOK
    <3> DEFINE id == outcome(c, r)
    <3>1. id \in DOMAIN store /\ store[id].logical = r /\ store[id].xmin \in group(ctx[c])
      BY <1>1, <1>4, <2>1, OutcomeFacts
    <3> HIDE DEF id
    <3>2. store[id].xmin \notin active' /\ store[id].xmin \notin aborted'
      BY <1>1, <1>3, <1>4, <3>1 DEF XidOK
    <3>3. store[id].xmin \notin Manager!pool_slots'
      BY <1>1, <1>3, <1>4, <3>1, ManagerFacts DEF XidOK, Xids
    <3>4. latest'[r] = id /\ store' = store
      BY <1>1, <2>1 DEF id
    <3> QED BY <3>1, <3>2, <3>3, <3>4 DEF LatestOK, Settled
  <2>2. \A r \in Ids : LatestOK(r)' \/ (latest'[r] = latest[r] /\ (latest[r] \in DOMAIN store => latest[r] \in DOMAIN store'))
    BY <1>1, <1>r, <2>1
  <2> QED BY <1>1, <1>3, <1>10, <1>11, <2>2, LatestStep
<1> QED BY <1>2, <1>7, <1>12, <1>13, <1>14, <1>15, <1>16, <1>17 DEF Inv, StateInv

-----------------------------------------------------------------------------
(* What a statement can see.                                               *)

\* Of the open transactions of others, one that publishes may show a version;
\* the rest have xids that are active or aborted.
LEMMA UnseenOthers ==
    ASSUME Inv, NEW c \in Conns, NEW x, x \notin aborted, x \notin active
    PROVE  x \in txn_xids(c) => phase[c] = "publishing"
  BY InvFacts DEF XidOK

\* A transaction's scan returns the versions of finished writers and its own.
LEMMA ScanFacts ==
    ASSUME Inv, NEW c \in Conns, in_transaction(c), phase[c] # "begun", NEW id \in transaction_scan(c)
    PROVE  /\ id \in DOMAIN store /\ store[id].xmin \notin aborted
           /\ \A d \in Conns \ {c} : store[id].xmin \in txn_xids(d) => phase[d] = "publishing"
<1> DEFINE s == ctx[c].snapshot
           x == store[id].xmin
<1>1. P!Inv /\ TypeOK /\ SnapshotOK(c)
  BY InvFacts
<1>2. id \in DOMAIN store /\ visible(s, own_xids(c), store[id])
  BY DEF transaction_scan, scan
<1>3. x \notin aborted /\ x \in 0..MaxXid
  BY <1>1, <1>2, TypeFacts DEF visible, Manager!visibility_check
<1>4. x \in own_xids(c) \/ (x # 0 => x <= s.xid /\ x \notin s.in_progress)
  BY <1>2 DEF visible, Manager!visibility_check, Manager!is_visible, Manager!XID_NONE
<1>5. ctx[c].xid \in 1..MaxXid /\ ctx[c].xid \in group(ctx[c]) /\ own_xids(c) = group(ctx[c])
  BY <1>1, ContextFacts
<1>6. s \in held[ctx[c].xid]
  BY <1>1 DEF SnapshotOK
<1>7. s.owner = ctx[c].xid /\ P!Covers(s)
  BY <1>1, <1>5, <1>6 DEF P!Inv, P!HeldInv, P!Xid
<1> HIDE DEF s, x
<1>8. ASSUME NEW d \in Conns \ {c}, x \in txn_xids(d) PROVE phase[d] = "publishing"
  <2>1. x \notin group(ctx[c])
    BY <1>8 DEF Inv, StateInv, OwnerInv, Xids, txn_xids
  <2>2. x \in 1..MaxXid
    BY <1>1, <1>8, InvFacts, ManagerFacts DEF XidOK, Xids
  <2>3. P!Finished(x)
    <3>1. x <= s.xid /\ x \notin s.in_progress /\ x # s.owner
      BY <1>4, <1>5, <1>7, <2>1, <2>2
    <3> QED BY <1>7, <2>2, <3>1 DEF P!Covers, P!Xid
  <2>4. x \notin active
    BY <2>3 DEF P!Finished
  <2> QED BY <1>3, <1>8, <2>4, UnseenOthers
<1> QED BY <1>2, <1>3, <1>8 DEF x

\* So does a statement's fresh snapshot.
LEMMA FreshScanFacts ==
    ASSUME Inv, NEW id \in fresh_scan
    PROVE  /\ id \in DOMAIN store /\ Settled(store[id].xmin)
           /\ \A d \in Conns : store[id].xmin \in txn_xids(d) => phase[d] = "publishing"
<1> DEFINE x == store[id].xmin
<1>1. P!Inv /\ TypeOK
  BY DEF Inv
<1>2. id \in DOMAIN store /\ visible(Manager!fresh_read_snapshot, {}, store[id])
  BY DEF fresh_scan, scan
<1>3. x \notin aborted /\ (x # 0 => x \notin active \cup Manager!pool_slots)
  BY <1>2 DEF visible, Manager!visibility_check, Manager!is_visible, Manager!XID_NONE,
              Manager!fresh_read_snapshot
<1>4. 0 \notin active
  BY <1>1, ManagerFacts
<1>5. \A d \in Conns : x \in txn_xids(d) => phase[d] = "publishing"
  BY <1>3, <1>4, UnseenOthers
<1> QED BY <1>2, <1>3, <1>5 DEF Settled, XID_NONE

-----------------------------------------------------------------------------
(* Statements of a transaction.                                            *)

\* UPDATE clones a version that it sees.
LEMMA InvUpdateRead ==
    ASSUME Inv, NEW c \in Conns, UpdateRead(c)
    PROVE  Inv'
<1>1. /\ P!Inv /\ TypeOK /\ PhaseOK(c) /\ OrderOK(c) /\ XidOK(c) /\ SnapshotOK(c) /\ JournalOK(c)
      /\ phase[c] = "idle" /\ in_transaction(c) /\ phase' = [phase EXCEPT ![c] = "updating"]
      /\ next_id <= MaxId /\ next_id' = next_id + 1
      /\ UNCHANGED <<managerVars, store, txnVars, lock, todo, history>>
  BY InvFacts DEF UpdateRead, ReadyInTransaction, Ready, TakeId, Goto
<1>i. PICK id \in transaction_scan(c) :
          buf' = [buf EXCEPT ![c] = [id |-> id, new |-> next_id, xid |-> writer_xid(c),
                                     old |-> store[id]]]
  BY DEF UpdateRead
<1>2. P!Inv' /\ Manager!TypeOK'
  BY ConnStep DEF Start
<1>3. /\ Effects({}) /\ active' = active /\ begun' = begun /\ aborted' = aborted /\ held' = held
      /\ next_xid' = next_xid
  BY <1>1, FrameEffects
<1>4. /\ buf \in [Conns -> Buffer] /\ phase \in [Conns -> Phase] /\ todo[c] = <<>>
  BY <1>1 DEF TypeOK, PhaseOK, EndPhase
<1>s. /\ id \in DOMAIN store /\ id \in Ids /\ store[id] \in Version
      /\ \A d \in Conns \ {c} : store[id].xmin \in txn_xids(d) => phase[d] = "publishing"
  BY <1>1, ScanFacts, TypeFacts
<1>w. writer_xid(c) \in group(ctx[c]) /\ writer_xid(c) \in 1..MaxXid
  BY <1>1, ContextFacts
<1>n. next_id \in Ids
  BY <1>1, TypeFacts DEF Ids
<1>5. /\ buf'[c].id = id /\ buf'[c].new = next_id /\ buf'[c].xid = writer_xid(c)
      /\ buf'[c].old = store[id] /\ buf'[c] \in Buffer
      /\ ctx' = ctx /\ updates' = updates /\ tombstones' = tombstones /\ todo' = todo
      /\ latest' = latest /\ phase'[c] = "updating" /\ Others(c)
  <2>1. buf'[c] = [id |-> id, new |-> next_id, xid |-> writer_xid(c), old |-> store[id]]
    BY <1>i, <1>4
  <2>2. buf'[c] \in Buffer
    <3>1. /\ id \in 0..MaxId /\ next_id \in 0..MaxId /\ writer_xid(c) \in 0..MaxXid
          /\ store[id] \in [logical : 0..MaxId, xmin : 0..MaxXid, xmax : 0..MaxXid]
      BY <1>s, <1>w, <1>n DEF Ids, Version
    <3> QED BY <2>1, <3>1 DEF Buffer
  <2> QED BY <1>1, <1>i, <1>4, <2>1, <2>2 DEF Others, Same, txnVars, history
<1>6. TypeOK'
  <2>1. buf' \in [Conns -> Buffer]
    BY <1>i, <1>4, <1>5
  <2>2. phase' \in [Conns -> Phase]
    BY <1>1, <1>4 DEF Phase
  <2>3. \A d \in Conns : lock' = d <=> phase'[d] \in {"publishing", "deleting"}
    BY <1>1, <1>4 DEF TypeOK
  <2>4. next_id' \in 1..MaxId + 1
    BY <1>1, TypeFacts
  <2> QED BY <1>1, <1>2, <2>1, <2>2, <2>3, <2>4 DEF TypeOK, txnVars, history
<1>7. /\ group(ctx[c])' = group(ctx[c]) /\ txn_xids(c)' = txn_xids(c)
      /\ auto_xids(c)' = {} /\ in_transaction(c)'
  BY <1>1, <1>4, <1>5 DEF group, txn_xids, auto_xids, in_transaction
<1>8. LocalOK(c)'
  <2>1. PhaseOK(c)'
    BY <1>1, <1>4, <1>5, <1>7, <1>s, <1>w, <1>n DEF PhaseOK, TxnPhase, EndPhase, Reads, Reserves
  <2>2. OrderOK(c)'
    BY <1>1, <1>5, <1>7 DEF OrderOK
  <2>3. XidOK(c)'
    BY <1>1, <1>3, <1>5, <1>7 DEF XidOK, Xids
  <2>4. SnapshotOK(c)'
    BY <1>1, <1>3, <1>5 DEF SnapshotOK
  <2> QED BY <2>1, <2>2, <2>3, <2>4 DEF LocalOK
<1>9. StateInv'
  <2>2. \A j, x : Answers(c, j, x) => Answers(c, j, x)'
    BY <1>1, <1>5 DEF Answers, journal
  <2>3. next_id' \in Nat /\ next_id <= next_id'
    BY <1>1, TypeFacts
  <2>4. \A e \in journal(c) : e.xid \in txn_xids(c)' /\ e.xid \notin aborted'
    BY <1>1, <1>3, <1>7 DEF JournalOK
  <2>5. store' = store
    BY <1>1
  <2>6. /\ buf'[c].id \in DOMAIN store /\ buf'[c].old = store[buf'[c].id]
        /\ \A d \in Conns \ {c} : store[buf'[c].id].xmin \in txn_xids(d) => phase[d] = "publishing"
    BY <1>5, <1>s
  <2>7. phase[c] # "publishing" /\ buf'[c].new = next_id /\ next_id' = next_id + 1
    BY <1>1, <1>5
  <2>8. /\ {} \subseteq Xids(c)
        /\ txn_xids(c)' \subseteq txn_xids(c) \cup (begun' \ begun)
        /\ auto_xids(c)' \subseteq auto_xids(c) \cup (begun' \ begun)
    BY <1>7
  <2>9. /\ Reads(c)' =>
              \/ SameClone(c)
              \/ /\ buf'[c].id \in DOMAIN store /\ buf'[c].old = store[buf'[c].id]
                 /\ \A d \in Conns \ {c} : store[buf'[c].id].xmin \in txn_xids(d)
                                               => phase[d] = "publishing"
        /\ Reserves(c)' => \/ Reserves(c) /\ buf'[c].new = buf[c].new
                           \/ buf'[c].new = next_id /\ next_id' = next_id + 1
        /\ phase'[c] \in {"updating", "deleting"} =>
              buf'[c].old = store[buf'[c].id] \/ (phase' = phase /\ buf' = buf)
    BY <2>6, <2>7
  <2> QED BY <1>3, <1>5, <1>8, <2>2, <2>3, <2>4, <2>5, <2>7, <2>8, <2>9, QuietStep
<1> QED BY <1>2, <1>6, <1>9 DEF Inv

\* A statement of a transaction that has written, when nobody has the
\* publication lock: the versions N are new and its own, and what it has
\* stamped it has entered in its journal.
Writes(c, N) ==
    /\ in_transaction(c) /\ phase[c] \in {"idle", "updating"} /\ lock = NoConn
    /\ UNCHANGED <<managerVars, ctx, lock, todo, history>>
    /\ phase' = [phase EXCEPT ![c] = "idle"]
    /\ buf' \in [Conns -> Buffer] /\ updates' \in [Conns -> Seq(Update)]
    /\ tombstones' \in [Conns -> Seq(Tombstone)] /\ Others(c)
    /\ next_id' \in 1..MaxId + 1 /\ next_id <= next_id'
    /\ DOMAIN store' \subseteq Ids /\ store' \in [DOMAIN store' -> Version]
    /\ SameRows(N) /\ DOMAIN store \subseteq DOMAIN store' /\ N \subseteq DOMAIN store'
    /\ \A n \in N : /\ New(c, n) /\ store'[n].xmin \in group(ctx[c])
                     /\ store'[n].xmax = XID_NONE
    /\ journal(c) \subseteq journal(c)'
    /\ \A e \in journal(c)' :
          \/ e \in journal(c)
          \/ /\ e.xid \in group(ctx[c]) /\ e.id \in DOMAIN store
             /\ Stamp(e.id, e.previous_xmax)
             /\ \A d \in Conns \ {c} : store[e.id].xmin \notin txn_xids(d)
             /\ e.id \in transaction_scan(c) \/ (phase[c] = "updating" /\ e.id = buf[c].id)
    /\ \A id \in DOMAIN store :
          \/ store'[id].xmax = store[id].xmax
          \/ \E e \in journal(c)' : e.id = id /\ e.xid = store'[id].xmax
    /\ \A e \in ToSet(updates'[c]) :
          /\ e.new \in DOMAIN store' /\ store'[e.new].xmin = e.xid
          /\ e.id \in DOMAIN store' => store'[e.id].logical = store'[e.new].logical
    /\ \A i, j \in 1..Len(updates'[c]) : updates'[c][i].new = updates'[c][j].new => i = j

\* A write of c's transaction: new versions are its own, new entries are for
\* versions that no open transaction of others has written, and only versions
\* with an entry get a stamp.
LEMMA WriteStep ==
    ASSUME Inv, NEW c \in Conns, NEW N, Writes(c, N), Start(c) \/ Continue(c)
    PROVE  Inv'
<1> USE DEF Writes
<1>1. /\ P!Inv /\ TypeOK /\ PhaseOK(c) /\ OrderOK(c) /\ XidOK(c) /\ SnapshotOK(c) /\ JournalOK(c)
  BY InvFacts
<1>2. P!Inv' /\ Manager!TypeOK'
  BY ConnStep
<1>3. /\ Effects({}) /\ active' = active /\ begun' = begun /\ aborted' = aborted /\ held' = held
      /\ next_xid' = next_xid
  BY <1>1, FrameEffects
<1>4. /\ phase \in [Conns -> Phase] /\ phase'[c] = "idle" /\ todo[c] = <<>> /\ ctx' = ctx
      /\ todo' = todo /\ latest' = latest
      /\ \A d \in Conns : phase[d] \notin {"publishing", "deleting"}
  BY <1>1, LockFree DEF TypeOK, PhaseOK, EndPhase, history
<1>5. TypeOK'
  <2>1. phase' \in [Conns -> Phase]
    BY <1>4 DEF Phase
  <2>2. \A d \in Conns : lock' = d <=> phase'[d] \in {"publishing", "deleting"}
    BY <1>1, <1>4 DEF TypeOK
  <2> QED BY <1>1, <1>2, <2>1, <2>2 DEF TypeOK, history
<1>6. /\ group(ctx[c])' = group(ctx[c]) /\ txn_xids(c)' = txn_xids(c) /\ auto_xids(c)' = {}
      /\ txn_xids(c) = group(ctx[c]) /\ group(ctx[c]) \subseteq active
      /\ in_transaction(c)' /\ ~ Reads(c)' /\ ~ Reserves(c)' /\ Xids(c)' \subseteq Xids(c)
  <2>1. /\ group(ctx[c])' = group(ctx[c]) /\ txn_xids(c)' = txn_xids(c) /\ auto_xids(c)' = {}
        /\ txn_xids(c) = group(ctx[c])
        /\ in_transaction(c)' /\ ~ Reads(c)' /\ ~ Reserves(c)'
    BY <1>4, ToSetEmpty DEF group, txn_xids, auto_xids, in_transaction, Reads, Reserves
  <2>2. group(ctx[c]) \subseteq active
    BY <1>1, <2>1 DEF XidOK
  <2> QED BY <2>1, <2>2 DEF Xids
<1>7. LocalOK(c)'
  <2>1. PhaseOK(c)'
    BY <1>1, <1>4, <1>6 DEF PhaseOK, TxnPhase, EndPhase, Reads, Reserves
  <2>2. OrderOK(c)'
    BY <1>1, <1>4, <1>6 DEF OrderOK
  <2>3. XidOK(c)'
    BY <1>1, <1>3, <1>4, <1>6 DEF XidOK, Xids
  <2>4. SnapshotOK(c)'
    BY <1>1, <1>3, <1>4 DEF SnapshotOK
  <2> QED BY <2>1, <2>2, <2>3, <2>4 DEF LocalOK
<1>8. /\ LocalInv /\ OwnerInv /\ IdInv /\ JournalInv /\ IsolationInv /\ StampInv /\ LatestInv
  BY DEF Inv, StateInv
<1>9. LocalInv' /\ OwnerInv'
  BY <1>1, <1>3, <1>6, <1>7, <1>8, LocalStep
<1>10. \A e \in journal(c)' : Known(c, e.id)
  BY DEF Known
<1>11. \A n \in N : New(c, n) /\ store'[n].xmin < next_xid'
  <2>1. group(ctx[c]) \subseteq begun
    BY <1>1, <1>6 DEF XidOK, Xids
  <2> QED BY <1>1, <1>3, <2>1, ManagerFacts
<1>12. IdInv'
  <2>1. next_id' \in Nat
    BY <1>1, TypeFacts
  <2>2. P!Inv /\ TypeOK /\ IdInv
    BY <1>1, <1>8
  <2> QED BY <1>3, <1>6, <1>10, <1>11, <2>1, <2>2, IdStep
<1>13. JournalInv'
  <2>1. JournalOK(c)'
    <3>1. \A e \in journal(c)' : e.xid \in txn_xids(c)' /\ e.xid \notin aborted'
      <4>1. active \cap aborted = {}
        BY <1>1, ManagerFacts
      <4> QED BY <1>1, <1>3, <1>6, <4>1 DEF JournalOK
    <3> QED BY <3>1 DEF JournalOK
  <2>2. \A id \in DOMAIN store \ DOMAIN store' : \A d \in Conns \ {c} : store[id].xmin \notin txn_xids(d)
    OBVIOUS
  <2> QED BY <1>1, <1>3, <1>8, <2>1, <2>2, JournalStep
<1>14. IsolationInv'
  BY <1>1, <1>3, <1>4, <1>6, <1>8, <1>10, IsolationStep
<1>15. StampInv'
  <2>1. \A n \in N : \A x : ~ Keeps(c, n, x)'
    <3> SUFFICES ASSUME NEW n \in N, NEW e \in journal(c)', e.id = n PROVE FALSE
      BY <1>4 DEF Keeps
    <3>1. n \notin DOMAIN store /\ \A f \in journal(c) : f.id # n
      BY DEF New
    <3> QED BY <3>1
  <2>2. ASSUME NEW id, NEW x, Answers(c, id, x) PROVE Accounted(id, x)'
    <3>1. Answers(c, id, x)'
      BY <1>4, <2>2 DEF Answers
    <3> QED BY <3>1 DEF Accounted
  <2>3. ASSUME NEW id, NEW x, Keeps(c, id, x)' PROVE Stamp(id, x)
    <3>1. PICK e \in journal(c)' : e.id = id /\ e.previous_xmax = x
      BY <1>4, <2>3 DEF Keeps
    <3>2. e \in journal(c) => Keeps(c, id, x)
      BY <3>1 DEF Keeps
    <3> QED BY <3>1, <3>2 DEF Stamp
  <2>4. \A id \in DOMAIN store : \A x \in 0..MaxXid :
            store'[id].xmax = x => Stamp(id, x) \/ Accounted(id, x)'
    <3> SUFFICES ASSUME NEW id \in DOMAIN store, NEW x \in 0..MaxXid, store'[id].xmax = x
                 PROVE  Stamp(id, x) \/ Accounted(id, x)'
      OBVIOUS
    <3>1. CASE store[id].xmax = x
      BY <3>1 DEF Stamp
    <3>2. CASE \E e \in journal(c)' : e.id = id /\ e.xid = x
      BY <3>2 DEF Accounted, Answers
    <3> QED BY <3>1, <3>2
  <2>5. \A r \in Ids : latest'[r] \in DOMAIN store => Current(latest'[r])
    BY <1>4 DEF Current
  <2> QED BY <1>1, <1>3, <1>6, <1>8, <2>1, <2>2, <2>3, <2>4, <2>5, StampStep
<1>16. LatestInv'
  BY <1>1, <1>3, <1>4, <1>8, LatestStep
<1> QED BY <1>2, <1>5, <1>9, <1>12, <1>13, <1>14, <1>15, <1>16 DEF Inv, StateInv

\* Install stamps the cloned version and adds the new one.
LEMMA InstallFacts ==
    ASSUME Inv, NEW c \in Conns, Reserves(c), Install(buf[c]), buf[c].xid # XID_NONE,
           next_id' = next_id
    PROVE  LET b == buf[c]
           IN  /\ b.id \in DOMAIN store /\ New(c, b.new) /\ b.id # b.new
               /\ DOMAIN store' = DOMAIN store \cup {b.new}
               /\ DOMAIN store' \subseteq Ids /\ store' \in [DOMAIN store' -> Version]
               /\ SameRows({b.new})
               /\ \A id \in DOMAIN store :
                     store'[id].xmax = IF id = b.id THEN b.xid ELSE store[id].xmax
               /\ store'[b.new].logical = b.old.logical /\ store'[b.new].xmin = b.xid
               /\ store'[b.new].xmax = XID_NONE
               /\ b.old.logical = store[b.id].logical /\ b.old.logical \in Ids
               /\ store'[b.id].logical = store'[b.new].logical
<1> DEFINE b == buf[c]
           v == [b.old EXCEPT !.xmax = b.xid]
           st == [store EXCEPT ![b.id] = v]
<1>1. TypeOK /\ PhaseOK(c) /\ IdInv /\ Reads(c)
  BY InvFacts DEF Inv, StateInv, Reserves, Reads
<1>2. b.id \in DOMAIN store /\ store' = with_version(st, b.new, b.old.logical, b.xid)
  BY DEF Install
<1>3. New(c, b.new) /\ b.new \notin DOMAIN store /\ b.id # b.new
  BY <1>1, FreshIds DEF New
<1>4. /\ b.old \in Version /\ b.new \in Ids /\ b.xid \in 0..MaxXid
      /\ store[b.id].logical = b.old.logical /\ store[b.id].xmin = b.old.xmin
  BY <1>1, <1>2, TypeFacts DEF PhaseOK, IdInv, CloneOK
<1>5. v \in Version /\ v.logical = b.old.logical /\ v.xmin = b.old.xmin /\ v.xmax = b.xid
  BY <1>4 DEF Version
<1>6. DOMAIN store \subseteq Ids /\ \A id \in DOMAIN store : store[id] \in Version
  BY <1>1, TypeFacts
<1> HIDE DEF b, v
<1>7. DOMAIN st = DOMAIN store /\ \A id \in DOMAIN store : st[id] = IF id = b.id THEN v ELSE store[id]
  BY <1>2, <1>1 DEF TypeOK
<1> HIDE DEF st
<1>8. /\ DOMAIN store' = DOMAIN store \cup {b.new} /\ store' = [id \in DOMAIN store' |-> store'[id]]
      /\ store'[b.new].logical = b.old.logical /\ store'[b.new].xmin = b.xid
      /\ store'[b.new].xmax = XID_NONE
      /\ store'[b.new] = [logical |-> b.old.logical, xmin |-> b.xid, xmax |-> XID_NONE]
      /\ \A id \in DOMAIN store : store'[id] = IF id = b.id THEN v ELSE store[id]
  <2> DEFINE u == with_version(st, b.new, b.old.logical, b.xid)
  <2>1. b.new \notin DOMAIN st
    BY <1>3, <1>7 DEF b
  <2>2. /\ DOMAIN u = DOMAIN st \cup {b.new} /\ u = [id \in DOMAIN u |-> u[id]]
        /\ u[b.new].logical = b.old.logical /\ u[b.new].xmin = b.xid
        /\ u[b.new].xmax = XID_NONE
        /\ u[b.new] = [logical |-> b.old.logical, xmin |-> b.xid, xmax |-> XID_NONE]
        /\ \A id \in DOMAIN st : u[id] = st[id]
    BY <2>1 DEF with_version
  <2>3. store' = u
    BY <1>2
  <2> HIDE DEF u
  <2> QED BY <1>7, <2>2, <2>3
<1>9. store'[b.new] \in Version /\ b.old.logical \in Ids
  <2>1. b.old.logical \in Ids /\ XID_NONE \in 0..MaxXid
    BY <1>1, <1>4, TypeFacts DEF Version, XID_NONE
  <2> QED BY <1>4, <1>8, <2>1 DEF Version
<1>10. DOMAIN store' \subseteq Ids /\ store' \in [DOMAIN store' -> Version]
  BY <1>4, <1>5, <1>6, <1>8, <1>9
<1>11. SameRows({b.new})
  BY <1>4, <1>5, <1>8 DEF SameRows
<1>12. \A id \in DOMAIN store : store'[id].xmax = IF id = b.id THEN b.xid ELSE store[id].xmax
  BY <1>5, <1>8
<1>13. store'[b.id].logical = store'[b.new].logical
  BY <1>2, <1>5, <1>8
<1> QED BY <1>2, <1>3, <1>4, <1>8, <1>9, <1>10, <1>11, <1>12, <1>13 DEF b

\* UPDATE stores the new version and its entry: the publication lock is free,
\* so the version it has cloned is not one of another transaction.
LEMMA UpdatePersistWrites ==
    ASSUME Inv, NEW c \in Conns, UpdatePersist(c)
    PROVE  \E N : Writes(c, N)
<1> DEFINE b == buf[c]
           f == [id |-> b.id, new |-> b.new, xid |-> b.xid, previous_xmax |-> b.old.xmax]
<1>1. /\ TypeOK /\ PhaseOK(c) /\ JournalOK(c) /\ IsolationInv
      /\ phase[c] = "updating" /\ lock = NoConn /\ Install(b)
      /\ updates' = [updates EXCEPT ![c] = Append(updates[c], f)]
      /\ buf' = [buf EXCEPT ![c] = NoBuf] /\ phase' = [phase EXCEPT ![c] = "idle"]
      /\ UNCHANGED <<managerVars, next_id, ctx, tombstones, lock, todo, history>>
  BY InvFacts DEF UpdatePersist, Goto, Inv, StateInv
<1>2. /\ in_transaction(c) /\ Reserves(c) /\ Reads(c) /\ b.xid \in group(ctx[c])
      /\ b.id \in Ids /\ b.new \in Ids /\ b.old \in Version
  BY <1>1 DEF PhaseOK, AutoPhase, Reserves, Reads
<1>3. b.xid \in 1..MaxXid /\ b.xid # XID_NONE
  BY <1>1, <1>2, ContextFacts DEF XID_NONE
<1>4. /\ b.id \in DOMAIN store /\ New(c, b.new) /\ b.id # b.new
      /\ DOMAIN store' = DOMAIN store \cup {b.new}
      /\ DOMAIN store' \subseteq Ids /\ store' \in [DOMAIN store' -> Version]
      /\ SameRows({b.new})
      /\ \A id \in DOMAIN store : store'[id].xmax = IF id = b.id THEN b.xid ELSE store[id].xmax
      /\ store'[b.new].xmin = b.xid /\ store'[b.new].xmax = XID_NONE
      /\ store'[b.id].logical = store'[b.new].logical
  BY <1>1, <1>2, <1>3, InstallFacts
<1>5. /\ f \in Update /\ f.id = b.id /\ f.new = b.new /\ f.xid = b.xid /\ f.previous_xmax = b.old.xmax
  BY <1>2, <1>3 DEF Update, Version
<1>6. /\ updates \in [Conns -> Seq(Update)] /\ tombstones \in [Conns -> Seq(Tombstone)]
      /\ buf \in [Conns -> Buffer] /\ phase \in [Conns -> Phase] /\ next_id \in 1..MaxId + 1
      /\ MaxId \in Nat
  BY <1>1, TypeFacts DEF TypeOK
<1> HIDE DEF f
<1> DEFINE q == Append(updates[c], f)
<1>7. /\ q \in Seq(Update) /\ ToSet(q) = ToSet(updates[c]) \cup {f} /\ Len(updates[c]) \in Nat
      /\ Len(q) = Len(updates[c]) + 1 /\ q[Len(updates[c]) + 1] = f
      /\ \A i \in 1..Len(updates[c]) : q[i] = updates[c][i]
      /\ \A i \in 1..Len(updates[c]) : updates[c][i] \in ToSet(updates[c])
  BY <1>5, <1>6, ToSetAppend, AppendProperties, LenProperties, ToSetIn
<1>8. updates'[c] = q /\ Others(c) /\ updates' \in [Conns -> Seq(Update)]
  BY <1>1, <1>6, <1>7 DEF Others, Same
<1> HIDE DEF q, b
<1>9. journal(c)' = journal(c) \cup {f}
  BY <1>1, <1>7, <1>8 DEF journal
<1>10. \A d \in Conns \ {c} : store[b.id].xmin \notin txn_xids(d)
  BY <1>1, <1>2, <1>4, LockFree DEF IsolationInv, Isolated, b
<1>11. Stamp(b.id, b.old.xmax)
  BY <1>1 DEF Stamp, Keeps, b
<1>12. buf' \in [Conns -> Buffer]
  <2>1. NoBuf \in Buffer
    BY <1>1, TypeFacts DEF NoBuf, Buffer, XID_NONE
  <2> QED BY <1>1, <1>6, <2>1
<1>13. ASSUME NEW e \in ToSet(updates'[c])
       PROVE  /\ e.new \in DOMAIN store' /\ store'[e.new].xmin = e.xid
              /\ e.id \in DOMAIN store' => store'[e.id].logical = store'[e.new].logical
  <2>1. CASE e = f
    BY <1>4, <1>5, <2>1
  <2>2. CASE e \in ToSet(updates[c])
    <3>1. /\ e.new \in DOMAIN store /\ store[e.new].xmin = e.xid
          /\ e.id \in DOMAIN store => store[e.id].logical = store[e.new].logical
      BY <1>1, <2>2 DEF JournalOK
    <3>2. e.id # b.new
      BY <1>4, <2>2 DEF New, journal
    <3> QED BY <1>4, <3>1, <3>2 DEF SameRows
  <2> QED BY <1>7, <1>8, <1>13, <2>1, <2>2
<1>14. \A i, j \in 1..Len(updates'[c]) : updates'[c][i].new = updates'[c][j].new => i = j
  <2>1. \A i \in 1..Len(updates[c]) : q[i].new # b.new
    <3>1. \A e \in ToSet(updates[c]) : e.new \in DOMAIN store
      BY <1>1 DEF JournalOK
    <3>2. b.new \notin DOMAIN store
      BY <1>4 DEF New
    <3> QED BY <1>7, <3>1, <3>2
  <2>2. \A i, j \in 1..Len(updates[c]) : q[i].new = q[j].new => i = j
    BY <1>1, <1>7 DEF JournalOK
  <2>3. \A i, j \in 1..Len(q) : q[i].new = q[j].new => i = j
    BY <1>5, <1>7, <2>1, <2>2
  <2> QED BY <1>8, <2>3
<1>15. /\ next_id' \in 1..MaxId + 1 /\ next_id <= next_id' /\ (Start(c) \/ Continue(c))
       /\ phase[c] \in {"idle", "updating"}
       /\ UNCHANGED <<managerVars, ctx, lock, todo, history>>
       /\ tombstones' \in [Conns -> Seq(Tombstone)]
  BY <1>1, <1>6 DEF Continue
<1>16. \A e \in journal(c)' :
           \/ e \in journal(c)
           \/ /\ e.xid \in group(ctx[c]) /\ e.id \in DOMAIN store /\ Stamp(e.id, e.previous_xmax)
              /\ \A d \in Conns \ {c} : store[e.id].xmin \notin txn_xids(d)
              /\ e.id \in transaction_scan(c) \/ (phase[c] = "updating" /\ e.id = buf[c].id)
  BY <1>1, <1>2, <1>4, <1>5, <1>9, <1>10, <1>11 DEF b
<1>17. \A id \in DOMAIN store : \/ store'[id].xmax = store[id].xmax
                                \/ \E e \in journal(c)' : e.id = id /\ e.xid = store'[id].xmax
  BY <1>4, <1>5, <1>9
<1> DEFINE N == {b.new}
<1>18. /\ SameRows(N) /\ DOMAIN store \subseteq DOMAIN store' /\ N \subseteq DOMAIN store'
       /\ \A n \in N : /\ New(c, n) /\ store'[n].xmin \in group(ctx[c])
                       /\ store'[n].xmax = XID_NONE
  BY <1>2, <1>4
<1> HIDE DEF N
<1>w. Writes(c, N)
  BY <1>1, <1>2, <1>4, <1>8, <1>9, <1>12, <1>13, <1>14, <1>15, <1>16, <1>17, <1>18 DEF Writes
<1> QED BY <1>w

\* That keeps the invariant.
LEMMA InvUpdatePersist ==
    ASSUME Inv, NEW c \in Conns, UpdatePersist(c)
    PROVE  Inv'
<1>1. PICK N : Writes(c, N)
  BY UpdatePersistWrites
<1> QED BY <1>1, WriteStep DEF Continue

\* DELETE stamps a version that it sees.
LEMMA DeleteWrites ==
    ASSUME Inv, NEW c \in Conns, Delete(c)
    PROVE  \E N : Writes(c, N)
<1> DEFINE w == writer_xid(c)
<1>1. /\ TypeOK /\ JournalOK(c) /\ phase[c] = "idle" /\ in_transaction(c) /\ lock = NoConn
      /\ UNCHANGED <<managerVars, next_id, ctx, updates, stmtVars, history>>
  BY InvFacts DEF Delete, ReadyInTransaction, Ready
<1>i. PICK id \in transaction_scan(c) :
          /\ store' = [store EXCEPT ![id].xmax = w]
          /\ tombstones' = [tombstones EXCEPT ![c] =
                               Append(@, [id |-> id, xid |-> w, previous_xmax |-> store[id].xmax])]
  BY DEF Delete
<1> DEFINE f == [id |-> id, xid |-> w, previous_xmax |-> store[id].xmax]
           q == Append(tombstones[c], f)
<1>2. w \in group(ctx[c]) /\ w \in 1..MaxXid
  BY <1>1, ContextFacts
<1>3. /\ id \in DOMAIN store /\ \A d \in Conns \ {c} : store[id].xmin \notin txn_xids(d)
  BY <1>1, ScanFacts, LockFree
<1>4. /\ DOMAIN store \subseteq Ids /\ \A j \in DOMAIN store : store[j] \in Version
      /\ store[id].xmax \in 0..MaxXid
  BY <1>1, <1>3, TypeFacts
<1> HIDE DEF w
<1>5. /\ DOMAIN store' = DOMAIN store /\ store' \in [DOMAIN store' -> Version] /\ SameRows({})
      /\ store'[id].xmax = w /\ \A j \in DOMAIN store : j # id => store'[j] = store[j]
  <2>1. store'[id] = [store[id] EXCEPT !.xmax = w] /\ store[id] \in Version
    BY <1>i, <1>3, <1>4
  <2>2. /\ store'[id] \in Version /\ store'[id].xmax = w /\ store'[id].xmin = store[id].xmin
        /\ store'[id].logical = store[id].logical
    BY <1>2, <2>1 DEF Version
  <2>3. DOMAIN store' = DOMAIN store /\ store' = [j \in DOMAIN store' |-> store'[j]]
        /\ \A j \in DOMAIN store : j # id => store'[j] = store[j]
    BY <1>i, <1>1 DEF TypeOK
  <2>4. store' \in [DOMAIN store' -> Version]
    BY <1>4, <2>2, <2>3
  <2> QED BY <2>2, <2>3, <2>4 DEF SameRows
<1>6. f \in Tombstone /\ f.id = id /\ f.xid = w /\ f.previous_xmax = store[id].xmax
  BY <1>2, <1>3, <1>4 DEF Tombstone
<1>7. /\ updates \in [Conns -> Seq(Update)] /\ tombstones \in [Conns -> Seq(Tombstone)]
      /\ buf \in [Conns -> Buffer] /\ phase \in [Conns -> Phase] /\ next_id \in 1..MaxId + 1
      /\ MaxId \in Nat
  BY <1>1, TypeFacts DEF TypeOK
<1> HIDE DEF f
<1>8. q \in Seq(Tombstone) /\ ToSet(q) = ToSet(tombstones[c]) \cup {f}
  BY <1>6, <1>7, ToSetAppend
<1>9. tombstones'[c] = q /\ Others(c) /\ tombstones' \in [Conns -> Seq(Tombstone)]
  BY <1>1, <1>i, <1>7, <1>8 DEF Others, Same, stmtVars, f
<1> HIDE DEF q
<1>10. journal(c)' = journal(c) \cup {f}
  BY <1>1, <1>8, <1>9 DEF journal
<1>11. ASSUME NEW e \in ToSet(updates'[c])
       PROVE  /\ e.new \in DOMAIN store' /\ store'[e.new].xmin = e.xid
              /\ e.id \in DOMAIN store' => store'[e.id].logical = store'[e.new].logical
  <2>1. /\ e.new \in DOMAIN store /\ store[e.new].xmin = e.xid
        /\ e.id \in DOMAIN store => store[e.id].logical = store[e.new].logical
    BY <1>1 DEF JournalOK
  <2> QED BY <1>5, <2>1 DEF SameRows
<1>12. \A i, j \in 1..Len(updates'[c]) : updates'[c][i].new = updates'[c][j].new => i = j
  BY <1>1 DEF JournalOK
<1>13. /\ next_id' \in 1..MaxId + 1 /\ next_id <= next_id' /\ (Start(c) \/ Continue(c))
       /\ phase[c] \in {"idle", "updating"} /\ phase' = [phase EXCEPT ![c] = "idle"]
       /\ UNCHANGED <<managerVars, ctx, lock, todo, history>>
       /\ updates' \in [Conns -> Seq(Update)] /\ buf' \in [Conns -> Buffer]
       /\ DOMAIN store' \subseteq Ids
  BY <1>1, <1>4, <1>5, <1>7 DEF Start, stmtVars
<1>14. \A e \in journal(c)' :
           \/ e \in journal(c)
           \/ /\ e.xid \in group(ctx[c]) /\ e.id \in DOMAIN store /\ Stamp(e.id, e.previous_xmax)
              /\ \A d \in Conns \ {c} : store[e.id].xmin \notin txn_xids(d)
              /\ e.id \in transaction_scan(c) \/ (phase[c] = "updating" /\ e.id = buf[c].id)
  BY <1>2, <1>3, <1>6, <1>10 DEF Stamp
<1>15. \A j \in DOMAIN store : \/ store'[j].xmax = store[j].xmax
                               \/ \E e \in journal(c)' : e.id = j /\ e.xid = store'[j].xmax
  BY <1>5, <1>6, <1>10
<1> DEFINE N == {}
<1>16. /\ SameRows(N) /\ DOMAIN store \subseteq DOMAIN store' /\ N \subseteq DOMAIN store'
       /\ \A n \in N : /\ New(c, n) /\ store'[n].xmin \in group(ctx[c])
                       /\ store'[n].xmax = XID_NONE
  BY <1>5
<1> HIDE DEF N
<1>w. Writes(c, N)
  BY <1>1, <1>5, <1>9, <1>10, <1>11, <1>12, <1>13, <1>14, <1>15, <1>16 DEF Writes
<1> QED BY <1>w

\* That keeps the invariant.
LEMMA InvDelete ==
    ASSUME Inv, NEW c \in Conns, Delete(c)
    PROVE  Inv'
<1>1. PICK N : Writes(c, N)
  BY DeleteWrites
<1> QED BY <1>1, WriteStep DEF Start

\* INSERT adds a version of its own.
LEMMA InsertWrites ==
    ASSUME Inv, NEW c \in Conns, Insert(c)
    PROVE  \E N : Writes(c, N)
<1> DEFINE w == writer_xid(c)
           n == next_id
<1>1. /\ TypeOK /\ JournalOK(c) /\ phase[c] = "idle" /\ in_transaction(c) /\ lock = NoConn
      /\ next_id <= MaxId /\ next_id' = next_id + 1
      /\ store' = with_version(store, n, n, w)
      /\ UNCHANGED <<managerVars, txnVars, stmtVars, history>>
  BY InvFacts DEF Insert, ReadyInTransaction, Ready, TakeId
<1>2. w \in group(ctx[c]) /\ w \in 1..MaxXid
  BY <1>1, ContextFacts
<1>3. New(c, n) /\ n \notin DOMAIN store
  BY <1>1, FreshIds DEF New, Inv, StateInv
<1>4. /\ updates \in [Conns -> Seq(Update)] /\ tombstones \in [Conns -> Seq(Tombstone)]
      /\ buf \in [Conns -> Buffer] /\ phase \in [Conns -> Phase] /\ n \in 1..MaxId + 1
      /\ MaxId \in Nat /\ MaxXid \in Nat
      /\ DOMAIN store \subseteq Ids /\ \A j \in DOMAIN store : store[j] \in Version
  BY <1>1, TypeFacts DEF TypeOK
<1> HIDE DEF w
<1>5. /\ DOMAIN store' = DOMAIN store \cup {n} /\ store' = [id \in DOMAIN store' |-> store'[id]]
      /\ store'[n].xmin = w /\ store'[n].xmax = XID_NONE
      /\ store'[n] = [logical |-> n, xmin |-> w, xmax |-> XID_NONE]
      /\ \A id \in DOMAIN store : store'[id] = store[id]
  BY <1>1, <1>3 DEF with_version
<1>6. /\ DOMAIN store' \subseteq Ids /\ store' \in [DOMAIN store' -> Version]
  <2>1. n \in Ids
    BY <1>1, <1>4 DEF Ids
  <2>2. store'[n] \in Version
    BY <1>2, <1>4, <1>5, <2>1 DEF Version, XID_NONE
  <2> QED BY <1>4, <1>5, <2>1, <2>2
<1>7. updates' = updates /\ tombstones' = tombstones /\ Others(c) /\ journal(c)' = journal(c)
  BY <1>1 DEF Others, Same, stmtVars, txnVars, journal
<1>8. ASSUME NEW e \in ToSet(updates'[c])
      PROVE  /\ e.new \in DOMAIN store' /\ store'[e.new].xmin = e.xid
             /\ e.id \in DOMAIN store' => store'[e.id].logical = store'[e.new].logical
  <2>1. /\ e.new \in DOMAIN store /\ store[e.new].xmin = e.xid
        /\ e.id \in DOMAIN store => store[e.id].logical = store[e.new].logical
    BY <1>1, <1>7 DEF JournalOK
  <2>2. e.id # n
    BY <1>3, <1>7 DEF New, journal
  <2> QED BY <1>5, <2>1, <2>2
<1>9. \A i, j \in 1..Len(updates'[c]) : updates'[c][i].new = updates'[c][j].new => i = j
  BY <1>1, <1>7 DEF JournalOK
<1>10. /\ next_id' \in 1..MaxId + 1 /\ next_id <= next_id' /\ (Start(c) \/ Continue(c))
       /\ phase[c] \in {"idle", "updating"} /\ phase' = [phase EXCEPT ![c] = "idle"]
       /\ UNCHANGED <<managerVars, ctx, lock, todo, history>>
       /\ updates' \in [Conns -> Seq(Update)] /\ buf' \in [Conns -> Buffer]
       /\ tombstones' \in [Conns -> Seq(Tombstone)]
  BY <1>1, <1>4, <1>7 DEF Start, stmtVars, txnVars
<1> DEFINE N == {n}
<1>11. /\ SameRows(N) /\ DOMAIN store \subseteq DOMAIN store' /\ N \subseteq DOMAIN store'
       /\ \A i \in N : /\ New(c, i) /\ store'[i].xmin \in group(ctx[c])
                       /\ store'[i].xmax = XID_NONE
  BY <1>2, <1>3, <1>5 DEF SameRows
<1>12. \A id \in DOMAIN store : store'[id].xmax = store[id].xmax
  BY <1>5
<1> HIDE DEF N, n
<1>w. Writes(c, N)
  BY <1>1, <1>6, <1>7, <1>8, <1>9, <1>10, <1>11, <1>12 DEF Writes
<1> QED BY <1>w

\* That keeps the invariant.
LEMMA InvInsert ==
    ASSUME Inv, NEW c \in Conns, Insert(c)
    PROVE  Inv'
<1>1. PICK N : Writes(c, N)
  BY InsertWrites
<1> QED BY <1>1, WriteStep DEF Start
=============================================================================
