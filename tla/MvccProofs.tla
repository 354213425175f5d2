----------------------------- MODULE MvccProofs -----------------------------
(***************************************************************************)
(* The steps of autocommit statements and of the reclaimer preserve the    *)
(* invariant of MvccInvariant, and what follows from that.                 *)
(***************************************************************************)
EXTENDS MvccTransactionProofs

-----------------------------------------------------------------------------
(* Statements outside a transaction.                                       *)

\* Outside a transaction there is no context, no journal and nothing to end.
LEMMA AutoFacts ==
    ASSUME Inv, NEW c \in Conns, ~ in_transaction(c) \/ phase[c] \notin TxnPhase
    PROVE  /\ ~ in_transaction(c) /\ phase[c] \in AutoPhase
           /\ updates[c] = <<>> /\ tombstones[c] = <<>> /\ todo[c] = <<>>
           /\ group(ctx[c]) = {} /\ txn_xids(c) = {} /\ journal(c) = {}
<1>1. TypeOK /\ PhaseOK(c)
  BY InvFacts
<1>2. /\ ~ in_transaction(c) /\ phase[c] \in AutoPhase
      /\ updates[c] = <<>> /\ tombstones[c] = <<>> /\ todo[c] = <<>>
  BY <1>1 DEF PhaseOK, AutoPhase, EndPhase
<1>3. group(ctx[c]) = {}
  BY <1>1, <1>2, ContextFacts
<1> QED BY <1>2, <1>3, ToSetEmpty DEF txn_xids, journal

\* The steps of a statement that do not touch the store.
LEMMA AutoStep ==
    ASSUME Inv, NEW c \in Conns, Start(c) \/ Continue(c), ~ in_transaction(c),
           UNCHANGED <<store, txnVars, lock, todo, history>>,
           next_id' \in 1..MaxId + 1, next_id <= next_id',
           NEW X, X \subseteq auto_xids(c), Effects(X),
           NEW to \in AutoPhase \ {"deleting"}, phase' = [phase EXCEPT ![c] = to],
           phase[c] # "deleting", buf' \in [Conns -> Buffer],
           \A d \in Conns \ {c} : buf'[d] = buf[d],
           to \in {"read", "stamped"} =>
               buf'[c].id \in Ids /\ buf'[c].old \in Version /\ buf'[c].new \in Ids,
           to \in {"stamped", "inserting"} => buf'[c].xid # XID_NONE,
           XidOK(c)', auto_xids(c)' \subseteq auto_xids(c) \cup (begun' \ begun),
           to \in {"read", "stamped"} =>
               \/ SameClone(c)
               \/ /\ buf'[c].id \in DOMAIN store /\ buf'[c].old = store[buf'[c].id]
                  /\ \A d \in Conns \ {c} : store[buf'[c].id].xmin \in txn_xids(d)
                                              => phase[d] = "publishing",
           to \in {"read", "stamped"} =>
               \/ Reserves(c) /\ buf'[c].new = buf[c].new
               \/ buf'[c].new = next_id /\ next_id' = next_id + 1
    PROVE  Inv'
<1>1. TypeOK /\ PhaseOK(c) /\ P!Inv' /\ Manager!TypeOK'
  BY InvFacts, ConnStep
<1>2. /\ updates[c] = <<>> /\ tombstones[c] = <<>> /\ todo[c] = <<>> /\ group(ctx[c]) = {}
      /\ txn_xids(c) = {} /\ journal(c) = {} /\ phase[c] \in AutoPhase
      /\ ctx[c].savepoints = <<>> /\ ctx[c].released = <<>>
  BY <1>1, AutoFacts DEF PhaseOK
<1>3. /\ ctx' = ctx /\ updates' = updates /\ tombstones' = tombstones /\ todo' = todo
      /\ latest' = latest /\ store' = store
  BY DEF txnVars, history
<1>4. phase \in [Conns -> Phase] /\ phase'[c] = to /\ Others(c)
  BY <1>1, <1>3 DEF TypeOK, Others, Same
<1>5. TypeOK'
  <2>1. phase' \in [Conns -> Phase]
    BY <1>4 DEF Phase, AutoPhase
  <2>2. \A d \in Conns : lock' = d <=> phase'[d] \in {"publishing", "deleting"}
    <3>1. phase[c] \notin {"publishing", "deleting"} /\ to \notin {"publishing", "deleting"}
      BY <1>2 DEF AutoPhase
    <3> QED BY <1>1, <1>4, <3>1 DEF TypeOK
  <2> QED BY <1>1, <2>1, <2>2 DEF TypeOK, txnVars, history
<1>6. /\ group(ctx[c])' = {} /\ txn_xids(c)' = {} /\ ~ in_transaction(c)'
      /\ Reads(c)' <=> to \in {"read", "stamped"}
      /\ Reserves(c)' <=> to \in {"read", "stamped"}
  <2>1. to # "updating" /\ to # "deleting"
    BY DEF AutoPhase
  <2>2. group(ctx[c])' = {} /\ txn_xids(c)' = {} /\ ~ in_transaction(c)'
    BY <1>2, <1>3, ToSetEmpty DEF group, txn_xids, in_transaction
  <2> QED BY <1>4, <2>1, <2>2 DEF Reads, Reserves
<1>7. LocalOK(c)'
  <2>1. PhaseOK(c)'
    <3>1. to \notin {"undoing", "validated", "publishing", "begun", "updating", "deleting"}
      BY DEF AutoPhase
    <3> QED BY <1>2, <1>3, <1>4, <1>6, <3>1 DEF PhaseOK, EndPhase
  <2>2. OrderOK(c)' /\ SnapshotOK(c)'
    BY <1>6 DEF OrderOK, SnapshotOK
  <2> QED BY <2>1, <2>2 DEF LocalOK
<1>8. StateInv'
  <2>1. X \subseteq Xids(c)
    BY DEF Xids
  <2>2. next_id' \in Nat
    BY <1>1, TypeFacts
  <2>3. /\ phase[c] # "publishing" /\ phase'[c] \notin {"updating", "deleting"}
        /\ \A id, x : ~ Answers(c, id, x)
    BY <1>2, <1>4 DEF AutoPhase, Answers
  <2> QED BY <1>2, <1>3, <1>4, <1>6, <1>7, <2>1, <2>2, <2>3, QuietStep
<1> QED BY <1>1, <1>5, <1>8 DEF Inv

\* A statement begins and ends with its frame.
LEMMA InvAutoFrame ==
    ASSUME Inv, NEW c \in Conns, AutoStart(c) \/ AutoEnd(c)
    PROVE  Inv'
<1>1. /\ P!Inv /\ TypeOK /\ (Start(c) \/ Continue(c))
      /\ UNCHANGED <<store, next_id, txnVars, lock, todo, buf, history>>
      /\ ~ in_transaction(c) \/ phase[c] \notin TxnPhase
      /\ phase[c] # "deleting"
  BY InvFacts DEF AutoStart, AutoEnd, Start, Continue, TxnPhase, Ready
<1>2. PICK to \in {"idle", "statement"} : phase' = [phase EXCEPT ![c] = to]
  <2>1. CASE AutoStart(c)
    BY <2>1 DEF AutoStart, Goto
  <2>2. CASE AutoEnd(c)
    BY <2>2 DEF AutoEnd, Goto
  <2> QED BY <2>1, <2>2
<1>3. Effects({})
  <2>1. Manager!fresh_retained_snapshot(c) \/ Manager!drop_retention(c)
    BY DEF AutoStart, AutoEnd
  <2> QED BY <1>1, <2>1, FrameEffects
<1>4. ~ in_transaction(c) /\ txn_xids(c) = {}
  BY <1>1, AutoFacts
<1>5. /\ phase \in [Conns -> Phase] /\ buf \in [Conns -> Buffer] /\ next_id \in 1..MaxId + 1
      /\ MaxId \in Nat
  BY <1>1, TypeFacts DEF TypeOK
<1>6. phase'[c] = to /\ txn_xids(c)' = {} /\ auto_xids(c)' = {}
  BY <1>1, <1>2, <1>4, <1>5 DEF txn_xids, group, auto_xids, txnVars
<1>7. XidOK(c)'
  BY <1>6 DEF XidOK, Xids
<1>8. to \in AutoPhase \ {"deleting"} /\ to \notin {"read", "stamped", "inserting"}
  BY DEF AutoPhase
<1>9. /\ next_id' \in 1..MaxId + 1 /\ next_id <= next_id' /\ buf' \in [Conns -> Buffer]
      /\ \A d \in Conns \ {c} : buf'[d] = buf[d]
      /\ UNCHANGED <<store, txnVars, lock, todo, history>>
  BY <1>1, <1>5
<1>10. {} \subseteq auto_xids(c)
  OBVIOUS
<1> QED BY <1>1, <1>2, <1>3, <1>4, <1>6, <1>7, <1>8, <1>9, <1>10, AutoStep

\* An autocommit UPDATE clones a version that a fresh snapshot shows.
LEMMA InvAutoUpdateRead ==
    ASSUME Inv, NEW c \in Conns, AutoUpdateRead(c)
    PROVE  Inv'
<1>1. /\ P!Inv /\ TypeOK /\ (Start(c) \/ Continue(c)) /\ phase[c] = "statement"
      /\ phase[c] \notin TxnPhase
      /\ next_id <= MaxId /\ next_id' = next_id + 1 /\ phase' = [phase EXCEPT ![c] = "read"]
      /\ UNCHANGED <<managerVars, store, txnVars, lock, todo, history>>
  BY InvFacts DEF AutoUpdateRead, Start, TakeId, Goto, TxnPhase
<1>i. PICK id \in newest(fresh_scan) :
          buf' = [buf EXCEPT ![c] = [id |-> id, new |-> next_id, xid |-> XID_NONE, old |-> store[id]]]
  BY DEF AutoUpdateRead
<1>2. id \in DOMAIN store /\ \A d \in Conns : store[id].xmin \in txn_xids(d) => phase[d] = "publishing"
  BY FreshScanFacts DEF newest
<1>3. Effects({})
  BY <1>1, FrameEffects
<1>4. ~ in_transaction(c) /\ txn_xids(c) = {}
  BY <1>1, AutoFacts
<1>5. /\ phase \in [Conns -> Phase] /\ buf \in [Conns -> Buffer] /\ next_id \in 1..MaxId + 1
      /\ MaxId \in Nat /\ MaxXid \in Nat /\ id \in Ids /\ store[id] \in Version
  BY <1>1, <1>2, TypeFacts DEF TypeOK
<1>6. /\ buf'[c].id = id /\ buf'[c].new = next_id /\ buf'[c].xid = XID_NONE /\ buf'[c].old = store[id]
      /\ buf' \in [Conns -> Buffer] /\ next_id \in Ids
  <2>1. buf'[c] = [id |-> id, new |-> next_id, xid |-> XID_NONE, old |-> store[id]]
    BY <1>i, <1>5
  <2>2. next_id \in Ids
    BY <1>1, <1>5 DEF Ids
  <2>3. /\ id \in 0..MaxId /\ next_id \in 0..MaxId /\ XID_NONE \in 0..MaxXid
        /\ store[id] \in [logical : 0..MaxId, xmin : 0..MaxXid, xmax : 0..MaxXid]
    BY <1>5, <2>2 DEF Ids, Version, XID_NONE
  <2>4. buf'[c] \in Buffer
    BY <2>1, <2>3 DEF Buffer
  <2> QED BY <1>i, <1>5, <2>1, <2>2, <2>4
<1>7. phase'[c] = "read" /\ txn_xids(c)' = {} /\ auto_xids(c)' = {}
  BY <1>1, <1>4, <1>5, <1>6 DEF txn_xids, group, auto_xids, txnVars
<1>8. XidOK(c)'
  BY <1>7 DEF XidOK, Xids
<1>9. "read" \in AutoPhase \ {"deleting"} /\ {} \subseteq auto_xids(c)
  BY DEF AutoPhase
<1>10. /\ next_id' \in 1..MaxId + 1 /\ next_id <= next_id'
       /\ \A d \in Conns \ {c} : buf'[d] = buf[d]
       /\ UNCHANGED <<store, txnVars, lock, todo, history>> /\ phase[c] # "deleting"
  BY <1>1, <1>i, <1>5
<1>11. /\ buf'[c].id \in Ids /\ buf'[c].old \in Version /\ buf'[c].new \in Ids
       /\ buf'[c].id \in DOMAIN store /\ buf'[c].old = store[buf'[c].id]
       /\ \A d \in Conns \ {c} : store[buf'[c].id].xmin \in txn_xids(d) => phase[d] = "publishing"
       /\ buf'[c].new = next_id /\ next_id' = next_id + 1
  BY <1>1, <1>2, <1>5, <1>6
<1> DEFINE to == "read"
<1>12. /\ to \in AutoPhase \ {"deleting"} /\ phase' = [phase EXCEPT ![c] = to]
       /\ to \notin {"stamped", "inserting"}
  BY <1>1, <1>9
<1> HIDE DEF to
<1> QED BY <1>1, <1>3, <1>4, <1>6, <1>7, <1>8, <1>9, <1>10, <1>11, <1>12, AutoStep

\* It takes an xid.
LEMMA InvAutoUpdateBegin ==
    ASSUME Inv, NEW c \in Conns, AutoUpdateBegin(c)
    PROVE  Inv'
<1>1. /\ P!Inv /\ TypeOK /\ PhaseOK(c) /\ (Start(c) \/ Continue(c)) /\ phase[c] = "read"
      /\ phase[c] \notin TxnPhase /\ buf[c].xid = XID_NONE
      /\ Manager!begin /\ buf' = [buf EXCEPT ![c].xid = next_xid]
      /\ UNCHANGED <<store, next_id, txnVars, lock, phase, todo, history>>
  BY InvFacts DEF AutoUpdateBegin, Continue, TxnPhase
<1>2. /\ Effects({}) /\ next_xid \in 1..MaxXid /\ next_xid \notin begun
      /\ active' = active \cup {next_xid} /\ begun' = begun \cup {next_xid}
  BY <1>1, BeginEffects
<1>3. ~ in_transaction(c) /\ txn_xids(c) = {}
  BY <1>1, AutoFacts
<1>4. /\ phase \in [Conns -> Phase] /\ buf \in [Conns -> Buffer] /\ buf[c] \in Buffer
      /\ next_id \in 1..MaxId + 1 /\ MaxId \in Nat
  BY <1>1, TypeFacts DEF TypeOK
<1>5. /\ buf'[c].id = buf[c].id /\ buf'[c].new = buf[c].new /\ buf'[c].old = buf[c].old
      /\ buf'[c].xid = next_xid /\ buf' \in [Conns -> Buffer]
  <2>1. buf'[c] = [buf[c] EXCEPT !.xid = next_xid]
    BY <1>1, <1>4
  <2>2. /\ buf'[c].id = buf[c].id /\ buf'[c].new = buf[c].new /\ buf'[c].old = buf[c].old
        /\ buf'[c].xid = next_xid /\ buf'[c] \in Buffer
    BY <1>2, <1>4, <2>1 DEF Buffer
  <2> QED BY <1>1, <1>4, <2>2
<1>6. txn_xids(c)' = {} /\ auto_xids(c)' = {next_xid}
  BY <1>1, <1>2, <1>3, <1>4, <1>5 DEF txn_xids, group, auto_xids, txnVars, XID_NONE
<1>7. XidOK(c)'
  BY <1>1, <1>2, <1>6 DEF XidOK, Xids
<1>8. /\ buf[c].id \in Ids /\ buf[c].old \in Version /\ buf[c].new \in Ids /\ Reads(c) /\ Reserves(c)
  BY <1>1 DEF PhaseOK, Reads, Reserves
<1> DEFINE to == "read"
<1>9. /\ to \in AutoPhase \ {"deleting"} /\ phase' = [phase EXCEPT ![c] = to]
      /\ to \notin {"stamped", "inserting"} /\ {} \subseteq auto_xids(c)
      /\ auto_xids(c)' \subseteq auto_xids(c) \cup (begun' \ begun)
  BY <1>1, <1>2, <1>4, <1>6 DEF AutoPhase
<1>10. /\ next_id' \in 1..MaxId + 1 /\ next_id <= next_id'
       /\ \A d \in Conns \ {c} : buf'[d] = buf[d]
       /\ UNCHANGED <<store, txnVars, lock, todo, history>> /\ phase[c] # "deleting"
  BY <1>1, <1>4
<1>11. /\ buf'[c].id \in Ids /\ buf'[c].old \in Version /\ buf'[c].new \in Ids /\ SameClone(c)
       /\ Reserves(c) /\ buf'[c].new = buf[c].new
  BY <1>5, <1>8 DEF SameClone
<1> HIDE DEF to
<1> QED BY <1>1, <1>2, <1>3, <1>5, <1>7, <1>9, <1>10, <1>11, AutoStep

\* It commits the xid.
LEMMA InvAutoUpdateCommit ==
    ASSUME Inv, NEW c \in Conns, AutoUpdateCommit(c)
    PROVE  Inv'
<1> DEFINE x == buf[c].xid
<1>1. /\ P!Inv /\ TypeOK /\ PhaseOK(c) /\ XidOK(c) /\ (Start(c) \/ Continue(c)) /\ phase[c] = "read"
      /\ phase[c] \notin TxnPhase /\ x # XID_NONE
      /\ Manager!commit(x) /\ phase' = [phase EXCEPT ![c] = "stamped"]
      /\ UNCHANGED <<store, next_id, txnVars, lock, todo, buf, history>>
  BY InvFacts DEF AutoUpdateCommit, Continue, TxnPhase, Goto
<1>2. /\ Effects({x}) /\ x \in active /\ active' = active \ {x} /\ begun' = begun
      /\ aborted' = aborted
  BY <1>1, EndEffects
<1>3. ~ in_transaction(c) /\ txn_xids(c) = {}
  BY <1>1, AutoFacts
<1>4. /\ phase \in [Conns -> Phase] /\ buf \in [Conns -> Buffer]
      /\ next_id \in 1..MaxId + 1 /\ MaxId \in Nat
  BY <1>1, TypeFacts DEF TypeOK
<1>5. phase'[c] = "stamped" /\ txn_xids(c)' = {} /\ auto_xids(c)' = {x} /\ auto_xids(c) = {x}
  BY <1>1, <1>3, <1>4 DEF txn_xids, group, auto_xids, txnVars
<1>6. XidOK(c)'
  <2>1. x \notin aborted /\ x \in begun
    BY <1>1, <1>2, ManagerFacts
  <2> QED BY <1>1, <1>2, <1>5, <2>1 DEF XidOK, Xids
<1>7. /\ buf[c].id \in Ids /\ buf[c].old \in Version /\ buf[c].new \in Ids /\ Reads(c) /\ Reserves(c)
  BY <1>1 DEF PhaseOK, Reads, Reserves
<1> DEFINE to == "stamped"
           X == {x}
<1>8. /\ to \in AutoPhase \ {"deleting"} /\ phase' = [phase EXCEPT ![c] = to]
      /\ X \subseteq auto_xids(c) /\ Effects(X)
      /\ auto_xids(c)' \subseteq auto_xids(c) \cup (begun' \ begun)
  BY <1>1, <1>2, <1>5 DEF AutoPhase
<1>9. /\ next_id' \in 1..MaxId + 1 /\ next_id <= next_id' /\ buf' \in [Conns -> Buffer]
       /\ \A d \in Conns \ {c} : buf'[d] = buf[d]
       /\ UNCHANGED <<store, txnVars, lock, todo, history>> /\ phase[c] # "deleting"
  BY <1>1, <1>4
<1>10. /\ buf'[c].id \in Ids /\ buf'[c].old \in Version /\ buf'[c].new \in Ids /\ SameClone(c)
       /\ Reserves(c) /\ buf'[c].new = buf[c].new /\ buf'[c].xid # XID_NONE
  BY <1>1, <1>7 DEF SameClone
<1> HIDE DEF to, X
<1> QED BY <1>1, <1>3, <1>6, <1>8, <1>9, <1>10, AutoStep

\* An autocommit INSERT takes a slot of the pool.
LEMMA InvAutoInsert ==
    ASSUME Inv, NEW c \in Conns, AutoInsert(c)
    PROVE  Inv'
<1> DEFINE x == Manager!allocated_slot
<1>1. /\ P!Inv /\ TypeOK /\ (Start(c) \/ Continue(c)) /\ phase[c] = "statement"
      /\ phase[c] \notin TxnPhase /\ Manager!allocate_committed_xid
      /\ buf' = [buf EXCEPT ![c].xid = x] /\ phase' = [phase EXCEPT ![c] = "inserting"]
      /\ UNCHANGED <<store, next_id, txnVars, lock, todo, history>>
  BY InvFacts DEF AutoInsert, Start, TxnPhase, Goto
<1>2. /\ Effects({}) /\ begun' = begun /\ x \in 1..MaxXid /\ x \notin begun /\ x < next_xid'
      /\ x \notin Manager!pool_slots'
  BY <1>1, AllocateEffects
<1> HIDE DEF x
<1>3. ~ in_transaction(c) /\ txn_xids(c) = {}
  BY <1>1, AutoFacts
<1>4. /\ phase \in [Conns -> Phase] /\ buf \in [Conns -> Buffer] /\ buf[c] \in Buffer
      /\ next_id \in 1..MaxId + 1 /\ MaxId \in Nat
  BY <1>1, TypeFacts DEF TypeOK
<1>5. buf'[c].xid = x /\ buf' \in [Conns -> Buffer]
  <2>1. buf'[c] = [buf[c] EXCEPT !.xid = x]
    BY <1>1, <1>4
  <2>2. buf'[c].xid = x /\ buf'[c] \in Buffer
    BY <1>2, <1>4, <2>1 DEF Buffer
  <2> QED BY <1>1, <1>4, <2>2
<1>6. phase'[c] = "inserting" /\ txn_xids(c)' = {} /\ auto_xids(c)' = {}
  BY <1>1, <1>3, <1>4 DEF txn_xids, group, auto_xids, txnVars
<1>7. XidOK(c)'
  BY <1>2, <1>5, <1>6 DEF XidOK, Xids
<1> DEFINE to == "inserting"
<1>8. /\ to \in AutoPhase \ {"deleting"} /\ phase' = [phase EXCEPT ![c] = to]
      /\ to \notin {"read", "stamped"} /\ {} \subseteq auto_xids(c)
      /\ auto_xids(c)' \subseteq auto_xids(c) \cup (begun' \ begun)
  BY <1>1, <1>6 DEF AutoPhase
<1>9. /\ next_id' \in 1..MaxId + 1 /\ next_id <= next_id'
      /\ \A d \in Conns \ {c} : buf'[d] = buf[d]
      /\ UNCHANGED <<store, txnVars, lock, todo, history>> /\ phase[c] # "deleting"
  BY <1>1, <1>4
<1>10. buf'[c].xid # XID_NONE
  BY <1>2, <1>5 DEF XID_NONE
<1> HIDE DEF to
<1> QED BY <1>1, <1>2, <1>3, <1>5, <1>7, <1>8, <1>9, <1>10, AutoStep

\* The steps that touch the store: nobody else has the publication lock.
LEMMA AutoWriteStep ==
    ASSUME Inv, NEW c \in Conns, Start(c) \/ Continue(c), phase[c] \notin TxnPhase,
           \A d \in Conns \ {c} : lock # d,
           UNCHANGED <<txnVars, todo, view, base>>,
           NEW to \in {"deleting", "done"}, phase' = [phase EXCEPT ![c] = to],
           lock' = IF to = "deleting" THEN c ELSE NoConn,
           buf' \in [Conns -> Buffer], \A d \in Conns \ {c} : buf'[d] = buf[d],
           next_id' \in 1..MaxId + 1, next_id <= next_id',
           DOMAIN store' \subseteq Ids, store' \in [DOMAIN store' -> Version],
           latest' \in [Ids -> 0..MaxId], wrote' \subseteq Write,
           NEW X, X \subseteq auto_xids(c), Effects(X),
           to = "deleting" =>
               /\ buf'[c].id \in DOMAIN store /\ buf'[c].old = store[buf'[c].id]
               /\ buf'[c].xid \in begun' \ begun /\ buf'[c].xid \in active'
               /\ \A d \in Conns \ {c} : store[buf'[c].id].xmin \notin txn_xids(d),
           NEW N, SameRows(N), DOMAIN store \subseteq DOMAIN store', N \subseteq DOMAIN store',
           \A n \in N : /\ New(c, n) /\ store'[n].xmin < next_xid' /\ store'[n].xmax = XID_NONE,
           \A r \in Ids : latest'[r] \in DOMAIN store => latest'[r] = latest[r],
           \A r \in Ids : LatestOK(r)' \/ latest'[r] = latest[r],
           \A id \in DOMAIN store : Current(id) /\ Current(id)' =>
               \A x \in 0..MaxXid :
                   /\ store'[id].xmax = x => Stamp(id, x) \/ Accounted(id, x)'
                   /\ Answers(c, id, x) => Accounted(id, x)'
    PROVE  Inv'
<1>1. P!Inv /\ TypeOK /\ PhaseOK(c) /\ P!Inv' /\ Manager!TypeOK'
  BY InvFacts, ConnStep
<1>2. /\ ~ in_transaction(c) /\ updates[c] = <<>> /\ tombstones[c] = <<>> /\ todo[c] = <<>>
      /\ group(ctx[c]) = {} /\ txn_xids(c) = {} /\ journal(c) = {} /\ phase[c] \in AutoPhase
      /\ ctx[c].savepoints = <<>> /\ ctx[c].released = <<>>
  BY <1>1, AutoFacts DEF PhaseOK
<1>3. ctx' = ctx /\ updates' = updates /\ tombstones' = tombstones /\ todo' = todo
  BY DEF txnVars
<1>4. /\ phase \in [Conns -> Phase] /\ phase'[c] = to /\ Others(c)
      /\ \A d \in Conns : phase[d] # "publishing"
      /\ \A d \in Conns \ {c} : phase[d] # "deleting"
  <2>1. phase[c] # "publishing"
    BY <1>2 DEF AutoPhase
  <2>2. \A d \in Conns \ {c} : phase[d] \notin {"publishing", "deleting"}
    BY <1>1 DEF TypeOK
  <2> QED BY <1>1, <1>3, <2>1, <2>2 DEF TypeOK, Others, Same
<1>5. TypeOK'
  <2>1. phase' \in [Conns -> Phase]
    BY <1>4 DEF Phase
  <2>2. \A d \in Conns : lock' = d <=> phase'[d] \in {"publishing", "deleting"}
    BY <1>4, ConnsAssumption DEF NoConn
  <2>3. lock' \in Conns \cup {NoConn}
    OBVIOUS
  <2> QED BY <1>1, <2>1, <2>2, <2>3 DEF TypeOK, txnVars
<1>6. /\ group(ctx[c])' = {} /\ txn_xids(c)' = {} /\ ~ in_transaction(c)' /\ journal(c)' = {}
      /\ Reads(c)' => to = "deleting"
      /\ ~ Reserves(c)'
      /\ auto_xids(c)' \subseteq begun' \ begun
      /\ auto_xids(c)' \subseteq active'
  <2>1. /\ group(ctx[c])' = {} /\ txn_xids(c)' = {} /\ ~ in_transaction(c)' /\ journal(c)' = {}
    BY <1>2, <1>3, ToSetEmpty DEF group, txn_xids, in_transaction, journal
  <2> QED BY <1>4, <2>1 DEF Reads, Reserves, auto_xids
<1>7. LocalOK(c)'
  <2>1. PhaseOK(c)'
    <3>1. Reads(c)' => buf'[c].id \in Ids /\ buf'[c].old \in Version
      BY <1>1, <1>6, TypeFacts
    <3>2. to = "deleting" => buf'[c].xid # XID_NONE
      BY <1>1, ManagerFacts DEF Manager!TypeOK, Manager!Xid, XID_NONE
    <3> QED BY <1>2, <1>3, <1>4, <1>6, <3>1, <3>2 DEF PhaseOK, AutoPhase, EndPhase
  <2>2. OrderOK(c)' /\ SnapshotOK(c)'
    BY <1>6 DEF OrderOK, SnapshotOK
  <2>3. XidOK(c)'
    BY <1>4, <1>6 DEF XidOK, Xids
  <2> QED BY <2>1, <2>2, <2>3 DEF LocalOK
<1>8. /\ LocalInv /\ OwnerInv /\ IdInv /\ JournalInv /\ IsolationInv /\ StampInv /\ LatestInv
  BY DEF Inv, StateInv
<1>9. X \subseteq Xids(c) /\ Xids(c)' \subseteq begun' \ begun
  BY <1>6 DEF Xids
<1>10. LocalInv' /\ OwnerInv'
  BY <1>1, <1>4, <1>7, <1>8, <1>9, LocalStep
<1>11. IdInv'
  <2>1. next_id' \in Nat
    BY <1>1, TypeFacts
  <2>2. P!Inv /\ TypeOK /\ IdInv
    BY <1>1, <1>8
  <2>3. Reads(c)' => buf'[c].id \in DOMAIN store /\ buf'[c].old = store[buf'[c].id]
    BY <1>6
  <2> QED BY <1>4, <1>6, <2>1, <2>2, <2>3, IdStep
<1>12. JournalInv'
  <2>1. JournalOK(c)'
    <3>1. ToSet(updates'[c]) = {} /\ Len(updates'[c]) = 0
      BY <1>2, <1>3, ToSetEmpty
    <3> QED BY <1>6, <3>1 DEF JournalOK
  <2>2. \A n \in N : New(c, n)
    OBVIOUS
  <2>3. DOMAIN store \ DOMAIN store' = {}
    OBVIOUS
  <2> QED BY <1>1, <1>4, <1>8, <1>9, <2>1, <2>2, <2>3, JournalStep
<1>13. IsolationInv'
  <2>1. Reads(c)' => /\ Known(c, buf'[c].id)
                     /\ \A d \in Conns \ {c} : store[buf'[c].id].xmin \notin txn_xids(d)
    BY <1>6 DEF Known
  <2>2. txn_xids(c)' \subseteq txn_xids(c) \cup (begun' \ begun)
    BY <1>6
  <2>3. P!Inv /\ TypeOK /\ IdInv /\ IsolationInv
    BY <1>1, <1>8
  <2> QED BY <1>4, <1>6, <2>1, <2>2, <2>3, IsolationStep
<1>14. StampInv'
  <2>1. ASSUME NEW id, NEW x, Keeps(c, id, x)'
        PROVE  id \in DOMAIN store /\ Stamp(id, x)
    <3>1. to = "deleting" /\ buf'[c].id = id /\ buf'[c].old.xmax = x
      BY <1>4, <1>6, <2>1 DEF Keeps
    <3> QED BY <3>1 DEF Stamp
  <2>2. \A n \in N : \A x : ~ Keeps(c, n, x)'
    BY <2>1 DEF New
  <2>3. \A r \in Ids : latest'[r] \in DOMAIN store => Current(latest'[r])
    BY DEF Current
  <2>4. txn_xids(c)' \subseteq txn_xids(c) \cup (begun' \ begun)
    BY <1>6
  <2>5. P!Inv /\ TypeOK /\ IdInv /\ StampInv
    BY <1>1, <1>8
  <2> QED BY <1>4, <2>1, <2>2, <2>3, <2>4, <2>5, StampStep
<1>15. LatestInv'
  BY <1>1, <1>8, LatestStep
<1> QED BY <1>1, <1>5, <1>10, <1>11, <1>12, <1>13, <1>14, <1>15 DEF Inv, StateInv

\* An autocommit UPDATE stores its version: what it replaces is current no more.
LEMMA InvAutoUpdatePersist ==
    ASSUME Inv, NEW c \in Conns, AutoUpdatePersist(c)
    PROVE  Inv'
<1> DEFINE b == buf[c]
           r0 == b.old.logical
<1>1. /\ P!Inv /\ TypeOK /\ PhaseOK(c) /\ XidOK(c) /\ (Start(c) \/ Continue(c)) /\ phase[c] = "stamped"
      /\ phase[c] \notin TxnPhase /\ lock = NoConn /\ Install(b)
      /\ latest' = [latest EXCEPT ![r0] = b.new]
      /\ wrote' = wrote \cup {[row |-> r0, xid |-> b.xid, kind |-> "update"]}
      /\ buf' = [buf EXCEPT ![c] = NoBuf] /\ phase' = [phase EXCEPT ![c] = "done"]
      /\ UNCHANGED <<managerVars, next_id, txnVars, lock, todo, view, base>>
  BY InvFacts DEF AutoUpdatePersist, Continue, TxnPhase, Goto
<1>2. /\ b.xid # XID_NONE /\ Reserves(c) /\ Reads(c) /\ b.id \in Ids /\ b.new \in Ids
      /\ b.xid \notin active \cup aborted /\ auto_xids(c) = {b.xid} /\ b.xid \in begun
      /\ next_id' = next_id
  BY <1>1 DEF PhaseOK, XidOK, Reserves, Reads, Xids, auto_xids
<1>3. /\ b.id \in DOMAIN store /\ New(c, b.new) /\ b.id # b.new
      /\ DOMAIN store' = DOMAIN store \cup {b.new}
      /\ DOMAIN store' \subseteq Ids /\ store' \in [DOMAIN store' -> Version]
      /\ SameRows({b.new})
      /\ \A id \in DOMAIN store : store'[id].xmax = IF id = b.id THEN b.xid ELSE store[id].xmax
      /\ store'[b.new].logical = r0 /\ store'[b.new].xmin = b.xid
      /\ store'[b.new].xmax = XID_NONE
      /\ r0 = store[b.id].logical /\ r0 \in Ids
  BY <1>1, <1>2, InstallFacts
<1>4. Effects({}) /\ active' = active /\ aborted' = aborted /\ next_xid' = next_xid
      /\ Manager!pool_slots' = Manager!pool_slots
  BY <1>1, FrameEffects DEF managerVars, Manager!pool_slots
<1>5. /\ phase \in [Conns -> Phase] /\ buf \in [Conns -> Buffer] /\ latest \in [Ids -> 0..MaxId]
      /\ next_id \in 1..MaxId + 1 /\ MaxId \in Nat /\ wrote \subseteq Write /\ Ids = 1..MaxId
  BY <1>1, TypeFacts DEF TypeOK, Ids
<1>6. b.xid \in 1..MaxXid /\ b.xid < next_xid /\ b.xid \notin Manager!pool_slots
  BY <1>1, <1>2, ManagerFacts
<1> HIDE DEF b, r0
<1>7. buf' \in [Conns -> Buffer] /\ \A d \in Conns \ {c} : buf'[d] = buf[d]
  <2>1. NoBuf \in Buffer
    BY <1>1, TypeFacts DEF NoBuf, Buffer, XID_NONE
  <2> QED BY <1>1, <1>5, <2>1
<1>8. /\ latest' \in [Ids -> 0..MaxId] /\ latest'[r0] = b.new
      /\ \A r \in Ids : r # r0 => latest'[r] = latest[r]
  BY <1>1, <1>2, <1>3, <1>5
<1>9. wrote' \subseteq Write
  BY <1>1, <1>3, <1>5, <1>6 DEF Write
<1>10. b.new \notin DOMAIN store /\ b.id # 0 /\ b.new # 0
  BY <1>2, <1>3, <1>5 DEF New
<1>11. \A r \in Ids : latest'[r] \in DOMAIN store => latest'[r] = latest[r]
  BY <1>8, <1>10
<1>12. \A r \in Ids : LatestOK(r)' \/ latest'[r] = latest[r]
  <2>1. ASSUME NEW r \in Ids, r = r0 PROVE LatestOK(r)'
    BY <1>2, <1>3, <1>4, <1>6, <1>8, <2>1 DEF LatestOK, Settled
  <2> QED BY <1>8, <2>1
<1>13. ASSUME NEW id, id = b.id PROVE ~ Current(id)'
  <2>1. ASSUME NEW r \in Ids, latest'[r] = b.id PROVE FALSE
    <3>1. r # r0 /\ latest[r] = b.id
      BY <1>3, <1>8, <2>1
    <3>2. store[b.id].logical = r
      BY <1>10, <3>1 DEF Inv, StateInv, LatestInv, LatestOK
    <3> QED BY <1>3, <3>1, <3>2
  <2>2. ASSUME NEW d \in Conns, store'[b.id].xmin \in txn_xids(d)' PROVE FALSE
    <3>1. store[b.id].xmin \in txn_xids(d)
      BY <1>1, <1>3, <2>2 DEF SameRows, txn_xids, txnVars
    <3>2. d # c
      BY <1>1, <3>1, AutoFacts
    <3>3. phase[d] = "publishing"
      BY <1>2, <1>3, <3>1, <3>2 DEF Inv, StateInv, IsolationInv, Isolated, b
    <3> QED BY <1>1, <3>3, LockFree
  <2> QED BY <1>13, <2>1, <2>2 DEF Current
<1>14. ASSUME NEW id \in DOMAIN store, Current(id)', NEW x \in 0..MaxXid
       PROVE  /\ store'[id].xmax = x => Stamp(id, x)
              /\ ~ Answers(c, id, x)
  <2>1. store'[id].xmax = store[id].xmax
    BY <1>3, <1>13, <1>14
  <2>2. journal(c) = {}
    BY <1>1, AutoFacts
  <2> QED BY <1>1, <2>1, <2>2 DEF Stamp, Answers
<1> DEFINE to == "done"
           N == {b.new}
<1>15. /\ to \in {"deleting", "done"} /\ to # "deleting" /\ phase' = [phase EXCEPT ![c] = to]
       /\ lock' = IF to = "deleting" THEN c ELSE NoConn
       /\ SameRows(N) /\ N \subseteq DOMAIN store' /\ DOMAIN store \subseteq DOMAIN store'
       /\ \A n \in N : New(c, n) /\ store'[n].xmin < next_xid' /\ store'[n].xmax = XID_NONE
       /\ \A d \in Conns \ {c} : lock # d
       /\ next_id' \in 1..MaxId + 1 /\ next_id <= next_id' /\ {} \subseteq auto_xids(c)
  BY <1>1, <1>2, <1>3, <1>4, <1>5, <1>6, ConnsAssumption DEF NoConn
<1> HIDE DEF to, N
<1> QED BY <1>1, <1>3, <1>4, <1>7, <1>8, <1>9, <1>11, <1>12, <1>14, <1>15, AutoWriteStep

\* An autocommit INSERT stores its version, the first of a new row.
LEMMA InvAutoInsertPersist ==
    ASSUME Inv, NEW c \in Conns, AutoInsertPersist(c)
    PROVE  Inv'
<1> DEFINE n0 == next_id
           x0 == buf[c].xid
<1>1. /\ P!Inv /\ TypeOK /\ PhaseOK(c) /\ XidOK(c) /\ (Start(c) \/ Continue(c)) /\ phase[c] = "inserting"
      /\ phase[c] \notin TxnPhase /\ lock = NoConn /\ n0 <= MaxId /\ next_id' = n0 + 1
      /\ store' = with_version(store, n0, n0, x0)
      /\ latest' = [latest EXCEPT ![n0] = n0]
      /\ buf' = [buf EXCEPT ![c] = NoBuf] /\ phase' = [phase EXCEPT ![c] = "done"]
      /\ UNCHANGED <<managerVars, txnVars, lock, todo, view, base, wrote>>
  BY InvFacts DEF AutoInsertPersist, Continue, TxnPhase, Goto, TakeId
<1>2. /\ x0 # XID_NONE /\ x0 \notin begun /\ x0 < next_xid /\ x0 \notin Manager!pool_slots
      /\ x0 \in 0..MaxXid /\ x0 \notin active \cup aborted
  BY <1>1, TypeFacts, ManagerFacts DEF PhaseOK, XidOK
<1>3. Effects({}) /\ active' = active /\ aborted' = aborted /\ next_xid' = next_xid
      /\ Manager!pool_slots' = Manager!pool_slots
  BY <1>1, FrameEffects DEF managerVars, Manager!pool_slots
<1>4. /\ phase \in [Conns -> Phase] /\ buf \in [Conns -> Buffer] /\ latest \in [Ids -> 0..MaxId]
      /\ n0 \in 1..MaxId + 1 /\ MaxId \in Nat /\ MaxXid \in Nat /\ wrote \subseteq Write /\ Ids = 1..MaxId
      /\ DOMAIN store \subseteq Ids /\ \A id \in DOMAIN store : store[id] \in Version
  BY <1>1, TypeFacts DEF TypeOK, Ids
<1>5. n0 \in Ids /\ New(c, n0) /\ n0 \notin DOMAIN store /\ n0 # 0
  BY <1>1, <1>4, FreshIds DEF Inv, StateInv, New
<1> HIDE DEF n0, x0
<1>6. /\ DOMAIN store' = DOMAIN store \cup {n0} /\ DOMAIN store' \subseteq Ids
      /\ store' \in [DOMAIN store' -> Version] /\ SameRows({n0})
      /\ \A id \in DOMAIN store : store'[id] = store[id]
      /\ store'[n0].logical = n0 /\ store'[n0].xmin = x0 /\ store'[n0].xmax = XID_NONE
  <2> DEFINE v == [logical |-> n0, xmin |-> x0, xmax |-> XID_NONE]
             u == with_version(store, n0, n0, x0)
  <2>1. v \in Version
    BY <1>2, <1>4, <1>5 DEF Version, XID_NONE
  <2>2. /\ DOMAIN u = DOMAIN store \cup {n0} /\ u = [id \in DOMAIN u |-> u[id]]
        /\ u[n0] = v /\ \A id \in DOMAIN store : u[id] = store[id]
    BY <1>5 DEF with_version
  <2>3. v.logical = n0 /\ v.xmin = x0 /\ v.xmax = XID_NONE
    OBVIOUS
  <2>4. store' = u
    BY <1>1
  <2> HIDE DEF u, v
  <2> QED BY <1>4, <1>5, <2>1, <2>2, <2>3, <2>4 DEF SameRows
<1>7. buf' \in [Conns -> Buffer] /\ \A d \in Conns \ {c} : buf'[d] = buf[d]
  <2>1. NoBuf \in Buffer
    BY <1>1, TypeFacts DEF NoBuf, Buffer, XID_NONE
  <2> QED BY <1>1, <1>4, <2>1
<1>8. /\ latest' \in [Ids -> 0..MaxId] /\ latest'[n0] = n0
      /\ \A r \in Ids : r # n0 => latest'[r] = latest[r]
  BY <1>1, <1>4, <1>5
<1>9. \A r \in Ids : latest'[r] \in DOMAIN store => latest'[r] = latest[r]
  BY <1>5, <1>8
<1>10. \A r \in Ids : LatestOK(r)' \/ latest'[r] = latest[r]
  <2>1. ASSUME NEW r \in Ids, r = n0 PROVE LatestOK(r)'
    BY <1>2, <1>3, <1>6, <1>8, <2>1 DEF LatestOK, Settled
  <2> QED BY <1>8, <2>1
<1>11. ASSUME NEW id \in DOMAIN store, NEW x \in 0..MaxXid
       PROVE  /\ store'[id].xmax = x => Stamp(id, x)
              /\ ~ Answers(c, id, x)
  <2>1. journal(c) = {}
    BY <1>1, AutoFacts
  <2> QED BY <1>1, <1>6, <2>1 DEF Stamp, Answers
<1> DEFINE to == "done"
           N == {n0}
<1>12. /\ to \in {"deleting", "done"} /\ to # "deleting" /\ phase' = [phase EXCEPT ![c] = to]
       /\ lock' = IF to = "deleting" THEN c ELSE NoConn
       /\ SameRows(N) /\ N \subseteq DOMAIN store' /\ DOMAIN store \subseteq DOMAIN store'
       /\ \A n \in N : New(c, n) /\ store'[n].xmin < next_xid' /\ store'[n].xmax = XID_NONE
       /\ \A d \in Conns \ {c} : lock # d
       /\ {} \subseteq auto_xids(c) /\ wrote' \subseteq Write
  BY <1>1, <1>2, <1>3, <1>4, <1>5, <1>6, ConnsAssumption DEF NoConn
<1>13. next_id' \in 1..MaxId + 1 /\ next_id <= next_id'
  BY <1>1, <1>4 DEF n0
<1> HIDE DEF to, N
<1> QED BY <1>1, <1>3, <1>6, <1>7, <1>8, <1>9, <1>10, <1>11, <1>12, <1>13, AutoWriteStep

\* An autocommit DELETE stamps a version, and answers for the stamp.
LEMMA InvAutoDelete ==
    ASSUME Inv, NEW c \in Conns, AutoDelete(c)
    PROVE  Inv'
<1>1. /\ P!Inv /\ TypeOK /\ (Start(c) \/ Continue(c)) /\ phase[c] = "statement"
      /\ phase[c] \notin TxnPhase /\ lock = NoConn /\ lock' = c /\ Manager!begin
      /\ phase' = [phase EXCEPT ![c] = "deleting"]
      /\ UNCHANGED <<next_id, txnVars, todo, history>>
  BY InvFacts DEF AutoDelete, Start, TxnPhase, Goto
<1>i. PICK i \in fresh_scan :
          /\ store' = [store EXCEPT ![i].xmax = next_xid]
          /\ buf' = [buf EXCEPT ![c] = [id |-> i, new |-> 0, xid |-> next_xid, old |-> store[i]]]
  BY DEF AutoDelete
<1>x. PICK x0 : x0 = next_xid
  OBVIOUS
<1>2. /\ i \in DOMAIN store /\ \A d \in Conns : store[i].xmin \notin txn_xids(d)
  BY <1>1, FreshScanFacts, LockFree
<1>3. /\ Effects({}) /\ x0 \in 1..MaxXid /\ x0 \notin begun
      /\ active' = active \cup {x0} /\ begun' = begun \cup {x0}
  BY <1>1, <1>x, BeginEffects
<1>4. /\ phase \in [Conns -> Phase] /\ buf \in [Conns -> Buffer] /\ latest \in [Ids -> 0..MaxId]
      /\ next_id \in 1..MaxId + 1 /\ MaxId \in Nat /\ MaxXid \in Nat /\ wrote \subseteq Write
      /\ DOMAIN store \subseteq Ids /\ Ids = 1..MaxId
      /\ \A j \in DOMAIN store : store[j] \in Version
  BY <1>1, TypeFacts DEF TypeOK, Ids
<1>5. /\ DOMAIN store' = DOMAIN store /\ store' \in [DOMAIN store' -> Version] /\ SameRows({})
      /\ store'[i].xmax = x0 /\ \A j \in DOMAIN store : j # i => store'[j] = store[j]
  <2>1. store'[i] = [store[i] EXCEPT !.xmax = x0] /\ store[i] \in Version
    BY <1>i, <1>x, <1>2, <1>4
  <2>2. /\ store'[i] \in Version /\ store'[i].xmax = x0 /\ store'[i].xmin = store[i].xmin
        /\ store'[i].logical = store[i].logical
    BY <1>3, <2>1 DEF Version
  <2>3. DOMAIN store' = DOMAIN store /\ store' = [j \in DOMAIN store' |-> store'[j]]
        /\ \A j \in DOMAIN store : j # i => store'[j] = store[j]
    BY <1>i, <1>1 DEF TypeOK
  <2>4. store' \in [DOMAIN store' -> Version]
    BY <1>4, <2>2, <2>3
  <2> QED BY <2>2, <2>3, <2>4 DEF SameRows
<1>6. /\ buf'[c].id = i /\ buf'[c].xid = x0 /\ buf'[c].old = store[i]
      /\ buf' \in [Conns -> Buffer] /\ \A d \in Conns \ {c} : buf'[d] = buf[d]
  <2>1. buf'[c] = [id |-> i, new |-> 0, xid |-> x0, old |-> store[i]]
    BY <1>i, <1>x, <1>4
  <2>2. /\ i \in 0..MaxId /\ 0 \in 0..MaxId /\ x0 \in 0..MaxXid
        /\ store[i] \in [logical : 0..MaxId, xmin : 0..MaxXid, xmax : 0..MaxXid]
    BY <1>2, <1>3, <1>4 DEF Version
  <2>3. buf'[c] \in Buffer
    BY <2>1, <2>2 DEF Buffer
  <2> QED BY <1>i, <1>4, <2>1, <2>3
<1>7. ASSUME NEW id \in DOMAIN store, NEW x \in 0..MaxXid
      PROVE  /\ store'[id].xmax = x => Stamp(id, x) \/ Accounted(id, x)'
             /\ ~ Answers(c, id, x)
  <2>1. journal(c) = {}
    BY <1>1, AutoFacts
  <2>2. ~ Answers(c, id, x)
    BY <1>1, <2>1 DEF Answers
  <2>3. CASE id = i
    <3>1. phase'[c] = "deleting"
      BY <1>1, <1>4
    <3>2. store'[id].xmax = x => Answers(c, id, x)'
      BY <1>5, <1>6, <2>3, <3>1 DEF Answers
    <3> QED BY <2>2, <3>2 DEF Accounted
  <2>4. CASE id # i
    BY <1>5, <2>2, <2>4 DEF Stamp
  <2> QED BY <2>3, <2>4
<1> DEFINE to == "deleting"
           N == {}
<1>8. /\ to \in {"deleting", "done"} /\ phase' = [phase EXCEPT ![c] = to]
      /\ lock' = IF to = "deleting" THEN c ELSE NoConn
      /\ buf'[c].id \in DOMAIN store /\ buf'[c].old = store[buf'[c].id]
      /\ buf'[c].xid \in begun' \ begun /\ buf'[c].xid \in active'
      /\ \A d \in Conns \ {c} : store[buf'[c].id].xmin \notin txn_xids(d)
  BY <1>1, <1>2, <1>3, <1>6
<1>9. /\ SameRows(N) /\ N \subseteq DOMAIN store' /\ DOMAIN store \subseteq DOMAIN store'
      /\ \A n \in N : New(c, n) /\ store'[n].xmin < next_xid' /\ store'[n].xmax = XID_NONE
      /\ \A d \in Conns \ {c} : lock # d
      /\ next_id' \in 1..MaxId + 1 /\ next_id <= next_id' /\ {} \subseteq auto_xids(c)
      /\ DOMAIN store' \subseteq Ids
  BY <1>1, <1>4, <1>5, ConnsAssumption DEF NoConn
<1>10. /\ UNCHANGED <<txnVars, todo, view, base>> /\ latest' = latest
       /\ latest' \in [Ids -> 0..MaxId] /\ wrote' \subseteq Write
  BY <1>1, <1>4 DEF history
<1> HIDE DEF to, N
<1> QED BY <1>1, <1>3, <1>5, <1>6, <1>7, <1>8, <1>9, <1>10, AutoWriteStep

\* It commits its xid: the version is current no more.
LEMMA InvAutoDeleteCommit ==
    ASSUME Inv, NEW c \in Conns, AutoDeleteCommit(c)
    PROVE  Inv'
<1>b. PICK b : b = buf[c]
  OBVIOUS
<1>1. /\ P!Inv /\ TypeOK /\ PhaseOK(c) /\ (Start(c) \/ Continue(c)) /\ phase[c] = "deleting"
      /\ phase[c] \notin TxnPhase /\ lock' = NoConn /\ Manager!commit(b.xid)
      /\ latest' = [latest EXCEPT ![b.old.logical] = IF @ = b.id THEN 0 ELSE @]
      /\ wrote' = wrote \cup {[row |-> b.old.logical, xid |-> b.xid, kind |-> "delete"]}
      /\ buf' = [buf EXCEPT ![c] = NoBuf] /\ phase' = [phase EXCEPT ![c] = "done"]
      /\ UNCHANGED <<store, next_id, txnVars, todo, view, base>>
  BY <1>b, InvFacts DEF AutoDeleteCommit, Continue, TxnPhase, Goto
<1>2. /\ b.xid # XID_NONE /\ Reads(c) /\ b.id \in Ids /\ b.old \in Version
      /\ auto_xids(c) = {b.xid} /\ lock = c
  BY <1>1, <1>b DEF PhaseOK, Reads, auto_xids, TypeOK
<1>3. Effects({b.xid}) /\ b.xid \in 1..MaxXid
  BY <1>1, EndEffects, ManagerFacts
<1>4. /\ phase \in [Conns -> Phase] /\ buf \in [Conns -> Buffer] /\ latest \in [Ids -> 0..MaxId]
      /\ next_id \in 1..MaxId + 1 /\ MaxId \in Nat /\ wrote \subseteq Write /\ Ids = 1..MaxId
      /\ DOMAIN store \subseteq Ids /\ store \in [DOMAIN store -> Version]
  BY <1>1, TypeFacts DEF TypeOK, Ids
<1>5. b.old.logical \in Ids
  BY <1>2 DEF Version
<1>6. buf' \in [Conns -> Buffer] /\ \A d \in Conns \ {c} : buf'[d] = buf[d]
  <2>1. NoBuf \in Buffer
    BY <1>1, TypeFacts DEF NoBuf, Buffer, XID_NONE
  <2> QED BY <1>1, <1>4, <2>1
<1>7. /\ latest' \in [Ids -> 0..MaxId]
      /\ \A r \in Ids : \/ latest'[r] = latest[r] /\ (r = b.old.logical => latest'[r] # b.id)
                        \/ r = b.old.logical /\ latest'[r] = 0
  <2>1. latest'[b.old.logical] = IF latest[b.old.logical] = b.id THEN 0 ELSE latest[b.old.logical]
    BY <1>1, <1>4, <1>5
  <2>2. \A r \in Ids : r # b.old.logical => latest'[r] = latest[r]
    BY <1>1, <1>4
  <2>3. latest' = [r \in Ids |-> latest'[r]]
    BY <1>1, <1>4
  <2>4. \A r \in Ids : latest'[r] \in 0..MaxId
    BY <1>4, <1>5, <2>1, <2>2
  <2> QED BY <2>1, <2>2, <2>3, <2>4
<1>8. wrote' \subseteq Write
  BY <1>1, <1>3, <1>4, <1>5 DEF Write
<1>9. \A r \in Ids : LatestOK(r)' \/ latest'[r] = latest[r]
  BY <1>7 DEF LatestOK
<1>10. \A r \in Ids : latest'[r] \in DOMAIN store => latest'[r] = latest[r]
  BY <1>4, <1>7
<1>11. b.id \in DOMAIN store => ~ Current(b.id)'
  <2> SUFFICES ASSUME b.id \in DOMAIN store, Current(b.id)' PROVE FALSE
    OBVIOUS
  <2>1. store[b.id].logical = b.old.logical
    BY <1>2, <1>b DEF Inv, StateInv, IdInv, CloneOK
  <2>2. ASSUME NEW r \in Ids, latest'[r] = b.id PROVE FALSE
    <3>1. latest[r] = b.id /\ latest[r] # 0 /\ r # b.old.logical
      BY <1>2, <1>4, <1>7, <2>2
    <3>2. store[b.id].logical = r
      BY <3>1 DEF Inv, StateInv, LatestInv, LatestOK
    <3> QED BY <2>1, <3>1, <3>2
  <2>3. ASSUME NEW d \in Conns, store[b.id].xmin \in txn_xids(d) PROVE FALSE
    <3>1. d # c
      BY <1>1, <2>3, AutoFacts
    <3>2. phase[d] = "publishing"
      BY <1>2, <1>b, <2>3, <3>1 DEF Inv, StateInv, IsolationInv, Isolated
    <3> QED BY <1>1, <1>2, <3>1, <3>2 DEF TypeOK
  <2>4. \A d \in Conns : txn_xids(d)' = txn_xids(d)
    BY <1>1 DEF txn_xids, txnVars
  <2> QED BY <1>1, <2>2, <2>3, <2>4 DEF Current
<1>12. ASSUME NEW id \in DOMAIN store, Current(id)', NEW x \in 0..MaxXid
       PROVE  /\ store'[id].xmax = x => Stamp(id, x)
              /\ ~ Answers(c, id, x)
  <2>1. journal(c) = {}
    BY <1>1, AutoFacts
  <2> QED BY <1>1, <1>b, <1>11, <1>12, <2>1 DEF Stamp, Answers
<1> DEFINE to == "done"
           N == {}
           X == {b.xid}
<1>13. /\ to \in {"deleting", "done"} /\ to # "deleting" /\ phase' = [phase EXCEPT ![c] = to]
       /\ lock' = IF to = "deleting" THEN c ELSE NoConn
       /\ SameRows(N) /\ N \subseteq DOMAIN store' /\ DOMAIN store \subseteq DOMAIN store'
       /\ \A n \in N : New(c, n) /\ store'[n].xmin < next_xid' /\ store'[n].xmax = XID_NONE
       /\ \A d \in Conns \ {c} : lock # d
       /\ next_id' \in 1..MaxId + 1 /\ next_id <= next_id'
       /\ X \subseteq auto_xids(c) /\ Effects(X)
       /\ DOMAIN store' \subseteq Ids /\ store' \in [DOMAIN store' -> Version]
  BY <1>1, <1>2, <1>3, <1>4 DEF SameRows
<1> HIDE DEF to, N, X
<1> QED BY <1>1, <1>6, <1>7, <1>8, <1>9, <1>10, <1>12, <1>13, AutoWriteStep

\* It puts the old stamp back and aborts its xid.
LEMMA InvAutoDeleteAbort ==
    ASSUME Inv, NEW c \in Conns, AutoDeleteAbort(c)
    PROVE  Inv'
<1>b. PICK b : b = buf[c]
  OBVIOUS
<1>1. /\ P!Inv /\ TypeOK /\ PhaseOK(c) /\ (Start(c) \/ Continue(c)) /\ phase[c] = "deleting"
      /\ phase[c] \notin TxnPhase /\ lock' = NoConn /\ Manager!rollback(b.xid)
      /\ store' = IF store[b.id].xmax = b.xid THEN [store EXCEPT ![b.id] = b.old] ELSE store
      /\ buf' = [buf EXCEPT ![c] = NoBuf] /\ phase' = [phase EXCEPT ![c] = "done"]
      /\ UNCHANGED <<next_id, txnVars, todo, history>>
  BY <1>b, InvFacts DEF AutoDeleteAbort, Continue, TxnPhase, Goto
<1>2. /\ b.xid # XID_NONE /\ Reads(c) /\ b.id \in Ids /\ b.old \in Version
      /\ auto_xids(c) = {b.xid} /\ lock = c
  BY <1>1, <1>b DEF PhaseOK, Reads, auto_xids, TypeOK
<1>3. Effects({b.xid}) /\ aborted' = aborted \cup {b.xid}
  BY <1>1, EndEffects
<1>4. /\ phase \in [Conns -> Phase] /\ buf \in [Conns -> Buffer] /\ latest \in [Ids -> 0..MaxId]
      /\ next_id \in 1..MaxId + 1 /\ MaxId \in Nat /\ wrote \subseteq Write
      /\ DOMAIN store \subseteq Ids /\ store \in [DOMAIN store -> Version]
  BY <1>1, TypeFacts DEF TypeOK
<1>5. buf' \in [Conns -> Buffer] /\ \A d \in Conns \ {c} : buf'[d] = buf[d]
  <2>1. NoBuf \in Buffer
    BY <1>1, TypeFacts DEF NoBuf, Buffer, XID_NONE
  <2> QED BY <1>1, <1>4, <2>1
<1>6. /\ b.id \in DOMAIN store => /\ store[b.id].logical = b.old.logical
                                  /\ store[b.id].xmin = b.old.xmin
  BY <1>2, <1>b DEF Inv, StateInv, IdInv, CloneOK
<1>7. /\ DOMAIN store' = DOMAIN store /\ store' \in [DOMAIN store -> Version]
      /\ \A id \in DOMAIN store : store'[id] = store[id] \/ (id = b.id /\ store'[id] = b.old)
  BY <1>1, <1>2, <1>4
<1>8. SameRows({})
  BY <1>6, <1>7 DEF SameRows
<1>9. ASSUME NEW id \in DOMAIN store, NEW x \in 0..MaxXid
      PROVE  /\ store'[id].xmax = x => Stamp(id, x)
             /\ Answers(c, id, x) => Accounted(id, x)'
  <2>1. journal(c) = {}
    BY <1>1, AutoFacts
  <2>2. store'[id].xmax = x => Stamp(id, x)
    BY <1>1, <1>b, <1>7 DEF Stamp, Keeps
  <2>3. Answers(c, id, x) => x \in aborted'
    BY <1>1, <1>b, <1>3, <2>1 DEF Answers
  <2> QED BY <2>2, <2>3 DEF Accounted
<1> DEFINE to == "done"
           N == {}
           X == {b.xid}
<1>10. /\ to \in {"deleting", "done"} /\ to # "deleting" /\ phase' = [phase EXCEPT ![c] = to]
       /\ lock' = IF to = "deleting" THEN c ELSE NoConn
       /\ SameRows(N) /\ N \subseteq DOMAIN store' /\ DOMAIN store \subseteq DOMAIN store'
       /\ \A n \in N : New(c, n) /\ store'[n].xmin < next_xid' /\ store'[n].xmax = XID_NONE
       /\ \A d \in Conns \ {c} : lock # d
       /\ next_id' \in 1..MaxId + 1 /\ next_id <= next_id'
       /\ X \subseteq auto_xids(c) /\ Effects(X)
       /\ DOMAIN store' \subseteq Ids /\ store' \in [DOMAIN store' -> Version]
  BY <1>1, <1>2, <1>3, <1>4, <1>7, <1>8
<1>11. /\ UNCHANGED <<txnVars, todo, view, base>> /\ latest' = latest
       /\ latest' \in [Ids -> 0..MaxId] /\ wrote' \subseteq Write
  BY <1>1, <1>4 DEF history
<1> HIDE DEF to, N, X
<1> QED BY <1>1, <1>5, <1>9, <1>10, <1>11, AutoWriteStep

-----------------------------------------------------------------------------
(* The reclaimer.                                                          *)

\* The cutoff is not above any active xid, nor above what a captured snapshot
\* needs.
LEMMA CutoffFacts ==
    ASSUME P!Inv, NEW x \in P!required_xids
    PROVE  cutoff_xid \in Nat /\ cutoff_xid <= x
<1> DEFINE B == IF next_xid > VacuumRetention THEN next_xid - VacuumRetention ELSE 0
           S == P!required_xids
<1>1. IsFiniteSet(Conns) <=> P!IsFiniteSet(Conns)
  BY DEF IsFiniteSet, P!IsFiniteSet
<1>2. cutoff_xid = P!Lowest(B, S)
  BY DEF cutoff_xid, Manager!mvcc_vacuum_cutoff_xid, Manager!Lowest, P!Lowest, Manager!Min, P!Min,
         Manager!required_xids, P!required_xids, Manager!Xid, P!Xid
<1>3. /\ next_xid \in Nat /\ VacuumRetention \in Nat /\ MaxXid \in Nat
      /\ active \subseteq 1..MaxXid
      /\ snapshot_horizons \in [P!Xid -> 0..MaxXid]
  BY ManagerFacts, ManagerAssumption DEF P!Inv, P!TypeOK
<1>4. B \in Nat
  BY <1>3
<1>5. S \subseteq Nat /\ x \in S
  <2>1. \A y \in {snapshot_horizons[z] : z \in {w \in P!Xid : snapshot_horizons[w] > 0}} : y \in Nat
    BY <1>3
  <2>2. \A y \in {w \in P!Xid : pinned[w] > 0} : y \in Nat
    BY <1>3 DEF P!Xid
  <2>3. \A y \in {h \in 1..MaxXid + 1 : statement_horizons[h] > 0} : y \in Nat
    BY <1>3
  <2>4. \A y \in active : y \in Nat
    BY <1>3
  <2> QED BY <2>1, <2>2, <2>3, <2>4 DEF P!required_xids
<1> HIDE DEF B, S
<1>6. P!Lowest(B, S) \in S \cup {B} /\ \A y \in S : P!Lowest(B, S) <= y
  BY <1>1, <1>4, <1>5, P!LowestBound, ManagerAssumption, ConnsAssumption
<1> QED BY <1>2, <1>4, <1>5, <1>6

\* While the publication lock is free, what somebody answers for has aborted
\* or is active.
LEMMA AnswersFacts ==
    ASSUME Inv, lock = NoConn, NEW d \in Conns, NEW id, NEW x, Answers(d, id, x)
    PROVE  x \in active \cup aborted
<1>1. TypeOK /\ XidOK(d) /\ JournalOK(d)
  BY InvFacts
<1>2. phase[d] \notin {"publishing", "deleting"}
  BY <1>1, LockFree
<1>3. txn_xids(d) \subseteq active \cup aborted
  BY <1>1, <1>2 DEF XidOK
<1>4. x \in txn_xids(d)
  BY <1>1, <1>2 DEF Answers, JournalOK, txn_xids
<1> QED BY <1>3, <1>4

\* A version that may be reclaimed is no longer current, or its writer has
\* aborted: a stamp on a current one is aborted, or active and so not below
\* the cutoff.
LEMMA ReclaimableFacts ==
    ASSUME Inv, lock = NoConn, NEW k \in DOMAIN store,
           Manager!reclaimable(cutoff_xid, store[k].xmin, store[k].xmax)
    PROVE  /\ store[k].xmin \in aborted \/ ~ Current(k)
           /\ \A r \in Ids : latest[r] # k
           /\ \A d \in Conns : \A e \in ToSet(updates[d]) : e.new # k
<1>1. P!Inv /\ TypeOK /\ StampInv /\ LatestInv
  BY DEF Inv, StateInv
<1>2. /\ store[k].xmax \in 0..MaxXid /\ store[k].xmax \in Nat /\ k \in Nat /\ k # 0
  BY <1>1, TypeFacts DEF Ids
<1>3. store[k].xmin \in aborted \/ ~ Current(k)
  <2> SUFFICES ASSUME store[k].xmin \notin aborted, Current(k) PROVE FALSE
    OBVIOUS
  <2> DEFINE x == store[k].xmax
  <2>1. x # XID_NONE /\ x < cutoff_xid /\ x \notin aborted
    BY DEF Manager!reclaimable, Manager!XID_NONE, XID_NONE
  <2>2. Accounted(k, x)
    BY <1>1, <1>2 DEF StampInv, Stamp
  <2>3. x \in active
    BY <2>1, <2>2, AnswersFacts DEF Accounted
  <2>4. cutoff_xid \in Nat /\ cutoff_xid <= x
    BY <1>1, <2>3, CutoffFacts DEF P!required_xids
  <2> QED BY <1>2, <2>1, <2>4
<1>4. ASSUME NEW r \in Ids, latest[r] = k PROVE FALSE
  <2>1. Current(k) /\ Settled(store[k].xmin)
    BY <1>1, <1>2, <1>4 DEF Current, LatestInv, LatestOK
  <2>2. 0 \notin aborted
    BY <1>1, ManagerFacts
  <2> QED BY <1>3, <2>1, <2>2 DEF Settled, XID_NONE
<1>5. ASSUME NEW d \in Conns, NEW e \in ToSet(updates[d]), e.new = k PROVE FALSE
  <2>1. e \in journal(d) /\ JournalOK(d)
    BY InvFacts DEF journal
  <2>2. store[k].xmin = e.xid /\ e.xid \in txn_xids(d) /\ e.xid \notin aborted
    BY <1>5, <2>1 DEF JournalOK
  <2> QED BY <1>3, <2>2 DEF Current
<1> QED BY <1>3, <1>4, <1>5

\* The reclaimer takes a version that nobody needs.
LEMMA InvReclaim ==
    ASSUME Inv, Reclaim
    PROVE  Inv'
<1>1. /\ lock = NoConn /\ UNCHANGED <<managerVars, next_id, txnVars, stmtVars, history>>
      /\ P!Inv /\ TypeOK /\ StateInv
  BY DEF Reclaim, Discard, Inv
<1>k. PICK k \in DOMAIN store :
          /\ Manager!reclaimable(cutoff_xid, store[k].xmin, store[k].xmax)
          /\ store' = [i \in DOMAIN store \ {k} |-> store[i]]
  BY DEF Reclaim, Discard
<1>2. /\ \A r \in Ids : latest[r] # k
      /\ \A d \in Conns : \A e \in ToSet(updates[d]) : e.new # k
  BY <1>1, <1>k, ReclaimableFacts
<1>3. P!Inv' /\ Manager!TypeOK'
  BY ManagerStep DEF Next
<1>4. DOMAIN store' = DOMAIN store \ {k} /\ \A i \in DOMAIN store' : store'[i] = store[i]
  BY <1>k
<1>5. /\ ctx' = ctx /\ updates' = updates /\ tombstones' = tombstones /\ lock' = lock
      /\ phase' = phase /\ todo' = todo /\ buf' = buf /\ view' = view /\ base' = base
      /\ latest' = latest /\ wrote' = wrote /\ next_id' = next_id /\ active' = active
      /\ aborted' = aborted /\ begun' = begun /\ next_xid' = next_xid
      /\ Manager!pool_slots' = Manager!pool_slots
  BY <1>1 DEF txnVars, stmtVars, history, managerVars, Manager!pool_slots
<1>6. TypeOK'
  <2>1. DOMAIN store' \subseteq Ids /\ store' \in [DOMAIN store' -> Version]
    BY <1>1, <1>k, <1>4 DEF TypeOK
  <2> QED BY <1>1, <1>3, <1>5, <2>1 DEF TypeOK
<1>7. \A d \in Conns : Same(d)
  BY <1>5 DEF Same
<1>8. \A d \in Conns : /\ txn_xids(d)' = txn_xids(d) /\ Xids(d)' = Xids(d)
                       /\ journal(d)' = journal(d)
                       /\ (Reads(d)' <=> Reads(d)) /\ (Reserves(d)' <=> Reserves(d))
  BY <1>7, SameFacts
<1>9. LocalInv' /\ OwnerInv'
  <2>1. Effects({})
    BY <1>1, FrameEffects
  <2>2. LocalInv'
    BY <1>1, <1>7, <2>1, LocalOther DEF LocalInv, StateInv
  <2> QED BY <1>1, <1>8, <2>2 DEF StateInv, OwnerInv
<1>10. IdInv'
  <2>1. StoreOK'
    BY <1>1, <1>4, <1>5 DEF StateInv, IdInv, StoreOK
  <2>2. ASSUME NEW d \in Conns PROVE CloneOK(d)' /\ EntriesOK(d)' /\ (Reserves(d)' => Unused(buf[d].new)')
    BY <1>1, <1>4, <1>5, <1>8 DEF StateInv, IdInv, CloneOK, EntriesOK, Unused
  <2>3. ASSUME NEW c \in Conns, NEW d \in Conns PROVE Apart(c, d)'
    <3>1. Apart(c, d)
      BY <1>1 DEF StateInv, IdInv
    <3> QED BY <1>5, <1>8, <3>1 DEF Apart
  <2> QED BY <2>1, <2>2, <2>3 DEF IdInv
<1>11. JournalInv'
  <2> SUFFICES ASSUME NEW d \in Conns PROVE JournalOK(d)'
    BY DEF JournalInv
  <2>1. JournalOK(d)
    BY <1>1 DEF StateInv, JournalInv
  <2>2. \A e \in ToSet(updates[d]) :
            /\ e.new \in DOMAIN store' /\ store'[e.new].xmin = e.xid
            /\ e.id \in DOMAIN store' => store'[e.id].logical = store'[e.new].logical
    BY <1>2, <1>4, <2>1 DEF JournalOK
  <2> QED BY <1>5, <1>8, <2>1, <2>2 DEF JournalOK
<1>12. IsolationInv'
  <2> SUFFICES ASSUME NEW c \in Conns, NEW d \in Conns, c # d PROVE Isolated(c, d)'
    BY DEF IsolationInv
  <2>1. Isolated(c, d)
    BY <1>1 DEF StateInv, IsolationInv
  <2> QED BY <1>4, <1>5, <1>8, <2>1 DEF Isolated
<1>13. StampInv'
  <2> SUFFICES ASSUME NEW id \in DOMAIN store', Current(id)', NEW x \in 0..MaxXid, Stamp(id, x)'
               PROVE  Accounted(id, x)'
    BY DEF StampInv
  <2>1. id \in DOMAIN store /\ store'[id] = store[id]
    BY <1>4
  <2>2. Current(id)
    BY <1>5, <1>8, <2>1 DEF Current
  <2>3. \A d \in Conns : /\ Keeps(d, id, x)' => Keeps(d, id, x)
                         /\ Answers(d, id, x) => Answers(d, id, x)'
    BY <1>5, <1>8 DEF Keeps, Answers
  <2>4. Stamp(id, x)
    BY <2>1, <2>3 DEF Stamp
  <2>5. Accounted(id, x)
    BY <1>1, <2>1, <2>2, <2>4 DEF StateInv, StampInv
  <2> QED BY <1>5, <2>3, <2>5 DEF Accounted
<1>14. LatestInv'
  BY <1>1, <1>2, <1>4, <1>5 DEF StateInv, LatestInv, LatestOK, Settled
<1> QED BY <1>3, <1>6, <1>9, <1>10, <1>11, <1>12, <1>13, <1>14 DEF Inv, StateInv

-----------------------------------------------------------------------------
(* The invariant holds initially and is preserved.                         *)

\* Nothing has happened yet.
LEMMA InitInv == Init => Inv
<1> SUFFICES ASSUME Init PROVE Inv
  OBVIOUS
<1>f. IsFiniteSet(Conns) <=> P!IsFiniteSet(Conns)
  BY DEF IsFiniteSet, P!IsFiniteSet
<1>m. Manager!Init => P!Init
  BY DEF Manager!Init, P!Init, Manager!Xid, P!Xid, Manager!NoFrame, P!NoFrame, Manager!XID_NONE, P!XID_NONE
<1>1. P!Inv
  BY <1>f, <1>m, P!InvInit, ManagerAssumption, ConnsAssumption DEF Init
<1>2. /\ MaxId \in Nat /\ InitialRows \in Nat /\ InitialRows <= MaxId /\ MaxXid \in Nat
      /\ 1..InitialRows \subseteq Ids
  BY StoreAssumption, ManagerAssumption DEF Ids
<1>3. /\ next_xid = 1 /\ active = {} /\ aborted = {} /\ begun = {} /\ pool_next = 0 /\ pool_end = 0
  BY DEF Init, Manager!Init
<1>4. /\ DOMAIN store = 1..InitialRows /\ store \in [DOMAIN store -> Version]
      /\ \A id \in DOMAIN store : /\ store[id].logical = id /\ store[id].xmin = XID_NONE
                                  /\ store[id].xmax = XID_NONE
  BY <1>2 DEF Init, Version, XID_NONE
<1>5. \A c \in Conns : /\ ctx[c] = NoContext /\ updates[c] = <<>> /\ tombstones[c] = <<>>
                       /\ phase[c] = "idle" /\ todo[c] = <<>> /\ buf[c] = NoBuf
  BY DEF Init
<1>6. NoContext \in Context /\ NoBuf \in Buffer
  <2>1. <<>> \in Seq(1..MaxXid)
    OBVIOUS
  <2>2. NoSnapshot \in Manager!Snapshot
    BY <1>2 DEF NoSnapshot, Manager!Snapshot, XID_NONE
  <2> QED BY <1>2, <2>1, <2>2 DEF NoContext, Context, NoBuf, Buffer, XID_NONE
<1>7. TypeOK
  <2>1. /\ next_id \in 1..MaxId + 1 /\ lock = NoConn /\ wrote \subseteq Write
    BY <1>2 DEF Init
  <2>2. /\ ctx \in [Conns -> Context] /\ buf \in [Conns -> Buffer]
    BY <1>6 DEF Init
  <2>3. updates \in [Conns -> Seq(Update)] /\ tombstones \in [Conns -> Seq(Tombstone)]
        /\ todo \in [Conns -> Seq(1..MaxXid)]
    BY DEF Init
  <2>4. phase \in [Conns -> Phase] /\ view \in [Conns -> SUBSET Ids] /\ base \in [Conns -> SUBSET Ids]
    BY DEF Init, Phase
  <2>5. latest \in [Ids -> 0..MaxId]
    BY <1>2 DEF Init, Ids
  <2>6. \A c \in Conns : lock = c <=> phase[c] \in {"publishing", "deleting"}
    BY <1>5, <2>1, ConnsAssumption DEF NoConn
  <2> QED BY <1>1, <1>2, <1>4, <2>1, <2>2, <2>3, <2>4, <2>5, <2>6, ManagerFacts DEF TypeOK
<1>8. ASSUME NEW c \in Conns
      PROVE  /\ ~ in_transaction(c) /\ group(ctx[c]) = {} /\ txn_xids(c) = {} /\ auto_xids(c) = {}
             /\ journal(c) = {} /\ ~ Reads(c) /\ ~ Reserves(c)
  BY <1>5, ToSetEmpty DEF in_transaction, group, txn_xids, auto_xids, journal, Reads, Reserves,
                          NoContext, XID_NONE
<1>9. LocalInv
  <2> SUFFICES ASSUME NEW c \in Conns PROVE LocalOK(c)
    BY DEF LocalInv
  <2>1. ctx[c].savepoints = <<>> /\ ctx[c].released = <<>>
    BY <1>5 DEF NoContext
  <2>2. PhaseOK(c)
    BY <1>5, <1>8, <2>1 DEF PhaseOK, AutoPhase, EndPhase
  <2>3. XidOK(c)
    BY <1>5, <1>8 DEF XidOK, Xids
  <2> QED BY <1>8, <2>2, <2>3 DEF LocalOK, OrderOK, SnapshotOK
<1>10. OwnerInv /\ IsolationInv
  BY <1>8 DEF OwnerInv, Xids, IsolationInv, Isolated
<1>11. IdInv
  <2>1. next_id = InitialRows + 1
    BY DEF Init
  <2>2. StoreOK
    BY <1>2, <1>3, <1>4, <2>1 DEF StoreOK, XID_NONE
  <2> QED BY <1>8, <2>2 DEF IdInv, CloneOK, EntriesOK, Apart
<1>12. JournalInv
  <2>1. ASSUME NEW c \in Conns PROVE ToSet(updates[c]) = {} /\ Len(updates[c]) = 0
    BY <1>5, ToSetEmpty
  <2> QED BY <1>8, <2>1 DEF JournalInv, JournalOK
<1>13. StampInv
  <2> SUFFICES ASSUME NEW id \in DOMAIN store, NEW x \in 0..MaxXid, Stamp(id, x)
               PROVE  Accounted(id, x)
    BY DEF StampInv
  <2>1. \A c \in Conns : ~ Keeps(c, id, x)
    BY <1>5, <1>8 DEF Keeps
  <2> QED BY <1>4, <2>1 DEF Stamp, Accounted
<1>14. LatestInv
  <2> SUFFICES ASSUME NEW r \in Ids, latest[r] # 0 PROVE LatestOK(r)
    BY DEF LatestInv, LatestOK
  <2>1. latest[r] = r /\ r \in 1..InitialRows
    BY <1>2 DEF Init, Ids
  <2> QED BY <1>4, <2>1 DEF LatestOK, Settled
<1> QED BY <1>1, <1>7, <1>9, <1>10, <1>11, <1>12, <1>13, <1>14 DEF Inv, StateInv

\* Every step preserves it, if nobody rolls back around a released savepoint.
LEMMA StepInv == ~ RollsBackReleased /\ Inv /\ [Next]_vars => Inv'
<1> SUFFICES ASSUME ~ RollsBackReleased, Inv, [Next]_vars PROVE Inv'
  OBVIOUS
<1>1. ASSUME NEW c \in Conns, Start(c) PROVE Inv'
  BY <1>1, InvBegin, InvSavepoint, InvRelease, InvRollbackTo, InvEnding, InvUpdateRead, InvDelete,
     InvInsert, InvAutoFrame, InvAutoUpdateRead, InvAutoDelete, InvAutoInsert DEF Start
<1>2. ASSUME NEW c \in Conns, Continue(c) PROVE Inv'
  <2>1. ASSUME CommitXid(c) PROVE Inv'
    BY <2>1, InvCommitSavepoint, InvCommitParent
  <2> QED BY <1>2, <2>1, InvCapture, InvUndoUpdate, InvUndoTombstone, InvAbortXid, InvPublish,
             InvUpdatePersist, InvAutoUpdateBegin, InvAutoUpdateCommit, InvAutoUpdatePersist,
             InvAutoDeleteCommit, InvAutoDeleteAbort, InvAutoInsertPersist, InvAutoFrame DEF Continue
<1>3. CASE Reclaim
  BY <1>3, InvReclaim
<1>4. CASE UNCHANGED vars
  <2>1. P!Inv'
    BY ManagerStep
  <2>2. /\ TypeOK' <=> TypeOK
    BY <1>4 DEF vars, managerVars, txnVars, stmtVars, history, TypeOK, Manager!TypeOK
  <2>3. StateInv' <=> StateInv
    BY <1>4 DEF vars, managerVars, txnVars, stmtVars, history, StateInv, LocalInv, LocalOK, PhaseOK,
         OrderOK, XidOK, SnapshotOK, OwnerInv, IdInv, JournalInv, JournalOK, IsolationInv, Isolated,
         StampInv, LatestInv, LatestOK, Settled, Accounted, Answers, Stamp, Keeps, Current, Apart,
         Unused, EntriesOK, CloneOK, StoreOK, Whole, Part, Xids, auto_xids, txn_xids, journal, Reads,
         Reserves, in_transaction, Manager!pool_slots
  <2> QED BY <2>1, <2>2, <2>3 DEF Inv
<1> QED BY <1>1, <1>2, <1>3, <1>4 DEF Next

-----------------------------------------------------------------------------
(* The theorems.                                                           *)

\* Whatever statements the connections run, the snapshot manager inside the
\* server behaves as module SnapshotManager says it does, so that the theorems
\* of SnapshotManagerProofs are about this system too.
THEOREM ManagerRefinement == Spec => Manager!Spec
<1>f. IsFiniteSet(Conns) <=> P!IsFiniteSet(Conns)
  BY DEF IsFiniteSet, P!IsFiniteSet
<1>1. Init => Manager!Init /\ P!Inv
  BY InitInv DEF Init, Inv
<1>2. P!Inv /\ [Next]_vars => P!Inv'
  BY ManagerInv
<1>3. P!Inv /\ [Next]_vars => [Manager!Next]_(Manager!vars)
  BY ManagerNext DEF managerVars, Manager!vars
<1> QED BY <1>1, <1>2, <1>3, PTL DEF Spec, Manager!Spec

\* The inductive invariant holds of every behaviour in which no client rolls
\* back to a savepoint around one that it has released.
THEOREM Invariance == ~ RollsBackReleased => (Spec => []Inv)
<1> SUFFICES ASSUME ~ RollsBackReleased PROVE Spec => []Inv
  OBVIOUS
<1>1. Inv /\ [Next]_vars => Inv'
  BY StepInv
<1> QED BY <1>1, InitInv, PTL DEF Spec

\* So versions, contexts, journals and buffers keep their types, and only a
\* connection that publishes or deletes holds the publication lock.
THEOREM TypeCorrect == ~ RollsBackReleased => (Spec => []TypeOK)
<1>1. Inv => TypeOK
  BY DEF Inv
<1> QED BY <1>1, Invariance, PTL

\* The invariant makes the last committed version of a row readable.
LEMMA InvReadable == Inv => CommittedStaysReadable
<1> SUFFICES ASSUME Inv, NEW r \in Ids, latest[r] # 0,
                    \A c \in Conns : phase[c] = "publishing" => r \notin touched(c)
             PROVE  latest[r] \in fresh_scan
  BY DEF CommittedStaysReadable
<1> DEFINE id == latest[r]
           x == store[id].xmin
           y == store[id].xmax
<1>1. P!Inv /\ TypeOK /\ StampInv /\ IdInv
  BY DEF Inv, StateInv
<1>2. id \in DOMAIN store /\ store[id].logical = r /\ Settled(x) /\ Current(id)
  BY DEF Inv, StateInv, LatestInv, LatestOK, Current
<1>3. /\ x \in Nat /\ y \in Nat /\ y \in 0..MaxXid /\ x < next_xid /\ next_xid \in Nat
  BY <1>1, <1>2, TypeFacts, ManagerFacts DEF IdInv, StoreOK
<1>4. Accounted(id, y)
  BY <1>1, <1>2, <1>3 DEF StampInv, Stamp
<1>5. ASSUME NEW c \in Conns, Answers(c, id, y) PROVE y \in active \cup aborted
  <2>1. XidOK(c) /\ JournalOK(c)
    BY InvFacts
  <2>2. CASE phase[c] = "publishing"
    <3>1. PICK e \in journal(c) : e.id = id /\ e.xid = y
      BY <1>5, <2>2 DEF Answers
    <3>2. r \in touched(c)
      <4>1. CASE e \in ToSet(updates[c])
        BY <1>2, <2>1, <3>1, <4>1 DEF JournalOK, touched, updated_rows
      <4>2. CASE e \in ToSet(tombstones[c])
        BY <1>2, <3>1, <4>2 DEF touched, deleted_rows
      <4> QED BY <4>1, <4>2 DEF journal
    <3> QED BY <2>2, <3>2
  <2>3. CASE phase[c] = "deleting" /\ buf[c].id = id /\ buf[c].xid = y
    <3>1. y \in auto_xids(c)
      BY <2>3, InvFacts DEF PhaseOK, auto_xids
    <3> QED BY <2>1, <2>3, <3>1 DEF XidOK
  <2>4. CASE phase[c] # "publishing" /\ y \in txn_xids(c)
    BY <2>1, <2>4 DEF XidOK
  <2> QED BY <1>5, <2>1, <2>2, <2>3, <2>4 DEF Answers, JournalOK, txn_xids
<1>6. y = XID_NONE \/ y \in active \cup aborted
  BY <1>4, <1>5 DEF Accounted
<1>7. x \notin aborted /\ (x # 0 => x \notin active \cup Manager!pool_slots)
  <2>1. 0 \notin aborted
    BY <1>1, ManagerFacts
  <2> QED BY <1>2, <2>1 DEF Settled, XID_NONE
<1>8. x <= next_xid - 1
  BY <1>3
<1> HIDE DEF x, y, id
<1>9. Manager!visibility_check(Manager!fresh_read_snapshot, {}, x, y)
  BY <1>6, <1>7, <1>8 DEF Manager!visibility_check, Manager!is_visible, Manager!fresh_read_snapshot,
                          Manager!XID_NONE, XID_NONE
<1> QED BY <1>2, <1>9 DEF fresh_scan, scan, visible, x, y, id

\* The last committed version of a row is shown to every fresh snapshot until
\* a transaction that has written the row publishes: no rollback, no failed
\* commit, no statement and no pass of the reclaimer takes it away.
THEOREM CommittedReadable == ~ RollsBackReleased => (Spec => []CommittedStaysReadable)
  BY Invariance, InvReadable, PTL
=============================================================================
