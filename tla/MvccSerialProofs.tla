-------------------------- MODULE MvccSerialProofs --------------------------
(***************************************************************************)
(* What an open transaction keeps seeing and what it may overwrite, when   *)
(* the statements of different connections do not overlap (Serial) and no  *)
(* client rolls back to a savepoint around one that it has released.       *)
(*                                                                         *)
(* To the invariant of MvccInvariant this adds, for every open transaction *)
(* and every version it saw at BEGIN: the version is in the store, its     *)
(* writer is done and in the snapshot, and a stamp that is there, or that  *)
(* somebody keeps in order to put it back, has aborted, is one that the    *)
(* snapshot does not show, or is the transaction's own (BaseInv).  And for *)
(* every committed UPDATE that its snapshot does not show: the version it  *)
(* left, or a later one, is there for the conflict check to find, and is   *)
(* none of those that the transaction itself has stamped (UpdateInv).      *)
(***************************************************************************)
EXTENDS MvccProofs

-----------------------------------------------------------------------------
(* The inductive invariant.                                                *)

\* At most one connection is in a statement.
SerialInv == \A c, d \in Conns : c # d => phase[c] = "idle" \/ phase[d] = "idle"

\* c is in a transaction and has its snapshot.
Reading(c) == in_transaction(c) /\ phase[c] # "begun"

\* The snapshot of c shows no writer of somebody else's open statement or
\* transaction.
UnseenOK(c, d) == Reading(c) => \A x \in Xids(d) : ~ sees(ctx[c].snapshot, x)
UnseenInv == \A c, d \in Conns : c # d => UnseenOK(c, d)

\* The xid x is no business of c's: not its own, nor shown by its snapshot.
Foreign(c, x) == x \in begun /\ x \notin txn_xids(c) /\ ~ sees(ctx[c].snapshot, x)

\* The stamp x on a version does not hide it from c, unless it is c's own.
Spared(c, id, x) ==
    x = XID_NONE \/ x \in aborted \/ Foreign(c, x) \/ Answers(c, id, x)
StampsSpared(c, id) == \A x \in 0..MaxXid : Stamp(id, x) => Spared(c, id, x)

\* A version that c saw at BEGIN.
VersionOK(c, id) ==
    /\ id \in DOMAIN store
    /\ store[id].xmin # XID_NONE =>
          sees(ctx[c].snapshot, store[id].xmin) /\ store[id].xmin \notin active \cup aborted
    /\ StampsSpared(c, id)
BaseOK(c) == Reading(c) => \A id \in base[c] : VersionOK(c, id)
BaseInv == \A c \in Conns : BaseOK(c)

\* A version that somebody else has written and c's snapshot does not show.
Late(c, id) == Foreign(c, store[id].xmin) /\ store[id].xmin \notin aborted

\* The versions that c has replaced or deleted, or is about to.
Refs(c) ==
    {e.id : e \in journal(c)}
        \cup {id \in {buf[c].id} : phase[c] \in {"updating", "deleting"}}

\* The stamps on such versions are not shown to c either, c refers to none of
\* them, and a committed update that its snapshot does not show has left one.
LateOK(c) == Reading(c) =>
    /\ \A id \in DOMAIN store : Late(c, id) => StampsSpared(c, id)
    /\ \A id \in Refs(c) \cap DOMAIN store : ~ Late(c, id)
Trace(c, w) == \E id \in DOMAIN store :
    store[id].logical = w.row /\ Late(c, id) /\ store[id].xmin \notin active
WroteOK(c) == Reading(c) => \A w \in wrote :
    w.kind = "update" /\ ~ sees(ctx[c].snapshot, w.xid) => Trace(c, w)

\* A transaction that has passed the conflict check replaces no version of a
\* row with such an update.
ValidOK(c) == phase[c] \in {"validated", "publishing"} =>
    \A w \in wrote, e \in journal(c) :
        w.kind = "update" /\ e.id \in DOMAIN store /\ store[e.id].logical = w.row
        => sees(ctx[c].snapshot, w.xid)

\* Nobody begins between a BEGIN and its snapshot.
BegunOK(c) == phase[c] = "begun" => next_xid = ctx[c].xid + 1

\* Writers of committed writes are done, and an active writer of a version is
\* a transaction.
DoneInv == \A w \in wrote : w.xid \in begun \ active
OwnedInv == \A id \in DOMAIN store :
    store[id].xmin \in active => \E c \in Conns : store[id].xmin \in txn_xids(c)

UpdateInv ==
    /\ \A c \in Conns : LateOK(c) /\ WroteOK(c) /\ ValidOK(c) /\ BegunOK(c)
    /\ DoneInv /\ OwnedInv

SInv == SerialInv /\ UnseenInv /\ BaseInv /\ UpdateInv

-----------------------------------------------------------------------------
(* What a step of one connection does to what the others see.              *)

\* The snapshot of a transaction is that of its xid, and the manager has a
\* horizon for it.
LEMMA SnapshotFacts ==
    ASSUME Inv, NEW c \in Conns, Reading(c)
    PROVE  LET s == ctx[c].snapshot
               x == ctx[c].xid
           IN  /\ s.xid = x /\ x \in 1..MaxXid /\ x \in Nat /\ x < next_xid /\ next_xid \in Nat
               /\ x \in group(ctx[c]) /\ s.in_progress \subseteq 1..MaxXid
               /\ snapshot_horizons[x] \in Nat /\ snapshot_horizons[x] > 0
               /\ snapshot_horizons[x] <= x
               /\ \A y \in s.in_progress : snapshot_horizons[x] <= y
<1> DEFINE s == ctx[c].snapshot
           x == ctx[c].xid
<1>1. P!Inv /\ TypeOK /\ XidOK(c) /\ SnapshotOK(c) /\ in_transaction(c)
  BY InvFacts DEF Reading
<1>2. x \in 1..MaxXid /\ x \in group(ctx[c]) /\ s \in Manager!Snapshot
  BY <1>1, ContextFacts
<1>3. x \in begun
  BY <1>1, <1>2 DEF XidOK, Xids, txn_xids
<1>4. x \in Nat /\ next_xid \in Nat /\ x < next_xid /\ MaxXid \in Nat
  BY <1>1, <1>2, <1>3, ManagerFacts
<1>5. s \in held[x]
  BY <1>1 DEF Reading, SnapshotOK
<1>6. x \in P!Xid /\ snapshot_horizons[x] \in Nat
  <2>1. x \in P!Xid /\ snapshot_horizons \in [P!Xid -> 0..MaxXid]
    BY <1>1, <1>2 DEF P!Inv, P!TypeOK, P!Xid
  <2> QED BY <1>4, <2>1
<1>7. s.xid = x /\ snapshot_horizons[x] > 0 /\ P!Bounds(snapshot_horizons[x], x, s)
  BY <1>1, <1>5, <1>6 DEF P!Inv, P!HeldInv
<1>8. s.in_progress \subseteq 1..MaxXid
  BY <1>2 DEF Manager!Snapshot, Manager!Xid
<1> QED BY <1>2, <1>4, <1>6, <1>7, <1>8 DEF P!Bounds

\* What a connection that is left alone is spared, it stays spared.
LEMMA SparedOther ==
    ASSUME NEW d, Same(d), NEW X, Effects(X), NEW id, NEW x, Spared(d, id, x)
    PROVE  Spared(d, id, x)'
<1>1. txn_xids(d)' = txn_xids(d) /\ journal(d)' = journal(d) /\ ctx'[d] = ctx[d]
  BY SameFacts DEF Same
<1>2. Answers(d, id, x) => Answers(d, id, x)'
  BY <1>1 DEF Answers, Same
<1> QED BY <1>1, <1>2 DEF Spared, Foreign, Effects

\* The stamps of a version: what c leaves on it or keeps for it was there, or
\* is an xid of its own.
OwnStamps(c, id) == \A x \in 0..MaxXid :
    /\ store'[id].xmax = x => \/ Stamp(id, x)
                              \/ /\ x \in Xids(c) \cup (begun' \ begun)
                                 /\ Reading(c)' => Answers(c, id, x)'
    /\ Keeps(c, id, x)' => Stamp(id, x)
    /\ Reading(c)' /\ Answers(c, id, x) => Answers(c, id, x)' \/ x \in aborted'

\* c keeps its snapshot and its view, or is not reading.
SameView(c) == Reading(c)' =>
    /\ Reading(c) /\ ctx'[c].snapshot = ctx[c].snapshot /\ base'[c] = base[c]
    /\ txn_xids(c)' \subseteq txn_xids(c) \cup (begun' \ begun)

\* The xids that c's transaction gives up have ended, and while it goes on
\* they have aborted.
Leaves(c) == \A x \in txn_xids(c) \ txn_xids(c)' :
    x \notin active' /\ (Reading(c)' => x \in aborted')

\* A new version has no stamp, and its writer is c's transaction or done.
Fresh(c, N) == \A n \in N :
    /\ New(c, n)
    /\ n \in DOMAIN store' =>
          /\ store'[n].xmax = XID_NONE
          /\ store'[n].xmin \in txn_xids(c)' \/ store'[n].xmin \notin active'

\* c starts to refer to versions that it sees.
Finds(c) == \A id \in Refs(c)' \ Refs(c) :
    id \in DOMAIN store /\ (Reading(c)' => ~ Late(c, id))

\* A write is recorded when its transaction is over, and an update leaves a
\* version.
Left(c, w) == \E id \in DOMAIN store' :
    /\ store'[id].logical = w.row
    /\ store'[id].xmin \in Xids(c) /\ store'[id].xmin \notin active' \cup aborted'
Logs(c) == \A w \in wrote' : \/ w \in wrote
                             \/ /\ ~ Reading(c)' /\ w.xid \in Xids(c) \ active'
                                /\ w.kind = "update" => Left(c, w)

\* A step of c, between the statements of the others, that removes no version
\* of a finished writer and stamps versions with xids of its own.
Calm(c, X, N) ==
    /\ Others(c) /\ \A d \in Conns \ {c} : phase[d] = "idle" /\ base'[d] = base[d]
    /\ Effects(X) /\ begun' \subseteq Nat
    /\ Xids(c)' \subseteq Xids(c) \cup (begun' \ begun)
    /\ \A id \in DOMAIN store \ DOMAIN store' : store[id].xmin \in active
    /\ SameRows(N)
    /\ \A id \in DOMAIN store \cap DOMAIN store' : OwnStamps(c, id)
    /\ SameView(c)
    /\ BegunOK(c)' /\ Leaves(c) /\ Fresh(c, N) /\ Finds(c) /\ Logs(c) /\ ValidOK(c)'

\* It leaves the others alone.
LEMMA CalmOther ==
    ASSUME Inv, NEW c \in Conns, NEW X, NEW N, Calm(c, X, N), NEW d \in Conns, d # c
    PROVE  /\ Same(d) /\ ctx'[d] = ctx[d] /\ phase[d] = "idle" /\ phase'[d] = "idle"
           /\ base'[d] = base[d]
           /\ Xids(d)' = Xids(d) /\ txn_xids(d)' = txn_xids(d) /\ txn_xids(d) \subseteq Xids(d)
           /\ Reading(d)' <=> Reading(d)
           /\ Xids(d) \subseteq begun /\ Xids(d) \cap Xids(c) = {}
           /\ journal(d)' = journal(d) /\ Refs(d)' = Refs(d)
           /\ \A id, x : Keeps(d, id, x)' => Keeps(d, id, x)
<1>1. Same(d) /\ phase[d] = "idle" /\ base'[d] = base[d]
  BY DEF Calm, Others
<1>2. /\ Xids(d)' = Xids(d) /\ txn_xids(d)' = txn_xids(d) /\ journal(d)' = journal(d)
      /\ (in_transaction(d)' <=> in_transaction(d))
  BY <1>1, SameFacts
<1>3. \A id, x : Keeps(d, id, x)' => Keeps(d, id, x)
  BY <1>1, <1>2 DEF Keeps, Same
<1>4. Xids(d) \subseteq begun /\ Xids(d) \cap Xids(c) = {}
  BY InvFacts DEF XidOK, OwnerInv, Inv, StateInv
<1>5. Refs(d)' = Refs(d)
  BY <1>1, <1>2 DEF Refs, Same
<1> QED BY <1>1, <1>2, <1>3, <1>4, <1>5 DEF Same, Reading, Xids

\* The snapshots of others show neither c's xids nor new ones.
LEMMA CalmUnseen ==
    ASSUME Inv, SInv, NEW c \in Conns, NEW X, NEW N, Calm(c, X, N), NEW d \in Conns, d # c,
           Reading(d), NEW x \in Xids(c) \cup (begun' \ begun)
    PROVE  ~ sees(ctx[d].snapshot, x) /\ Foreign(d, x)'
<1>1. ~ sees(ctx[d].snapshot, x) /\ x \notin txn_xids(d) /\ x \in begun'
  <2>1. CASE x \in Xids(c)
    <3>1. ~ sees(ctx[d].snapshot, x)
      BY <2>1 DEF SInv, UnseenInv, UnseenOK
    <3>2. Xids(c) \subseteq begun
      BY InvFacts DEF XidOK
    <3> QED BY CalmOther, <2>1, <3>1, <3>2 DEF Effects, Calm
  <2>2. CASE x \in begun' \ begun
    <3>1. /\ ctx[d].snapshot.xid \in Nat /\ ctx[d].snapshot.xid < next_xid /\ next_xid \in Nat
      BY SnapshotFacts
    <3>2. x >= next_xid /\ x \notin begun /\ x \in Nat
      BY <2>2 DEF Effects, Calm
    <3>3. ~ (x <= ctx[d].snapshot.xid)
      BY <3>1, <3>2
    <3> QED BY CalmOther, <2>2, <3>2, <3>3 DEF sees
  <2> QED BY <2>1, <2>2
<1>2. ctx'[d] = ctx[d] /\ txn_xids(d)' = txn_xids(d)
  BY CalmOther
<1> QED BY <1>1, <1>2 DEF Foreign, sees

\* What was foreign to a reader is foreign to it after the step, and the other
\* way around but for new xids and for its own that have aborted.
LEMMA CalmForeign ==
    ASSUME Inv, NEW c \in Conns, NEW X, NEW N, Calm(c, X, N), NEW a \in Conns, Reading(a)', NEW x
    PROVE  /\ Reading(a) /\ ctx'[a].snapshot = ctx[a].snapshot /\ base'[a] = base[a]
           /\ Foreign(a, x) => Foreign(a, x)'
           /\ Foreign(a, x)' /\ x \notin aborted' /\ x \in begun => Foreign(a, x)
<1>1. /\ Reading(a) /\ ctx'[a].snapshot = ctx[a].snapshot /\ base'[a] = base[a]
      /\ txn_xids(a)' \subseteq txn_xids(a) \cup (begun' \ begun)
      /\ \A y \in txn_xids(a) \ txn_xids(a)' : y \in aborted'
  <2>1. CASE a = c
    BY <2>1 DEF Calm, SameView, Leaves
  <2>2. CASE a # c
    BY <2>2, CalmOther
  <2> QED BY <2>1, <2>2
<1>2. sees(ctx[a].snapshot, x)' <=> sees(ctx[a].snapshot, x)
  BY <1>1 DEF sees
<1> QED BY <1>1, <1>2 DEF Foreign, Calm, Effects

\* What a reader is spared, it stays spared.
LEMMA CalmSpared ==
    ASSUME Inv, SInv, NEW c \in Conns, NEW X, NEW N, Calm(c, X, N), NEW a \in Conns, Reading(a)',
           NEW id \in DOMAIN store \cap DOMAIN store', StampsSpared(a, id)
    PROVE  StampsSpared(a, id)'
<1> SUFFICES ASSUME NEW x \in 0..MaxXid, Stamp(id, x)' PROVE Spared(a, id, x)'
  BY DEF StampsSpared
<1>1. OwnStamps(c, id) /\ Effects(X)
  BY DEF Calm
<1>2. \/ Stamp(id, x)
      \/ x \in Xids(c) \cup (begun' \ begun) /\ (Reading(c)' => Answers(c, id, x)')
  <2>1. CASE store'[id].xmax = x
    BY <1>1, <2>1 DEF OwnStamps
  <2>2. CASE \E d \in Conns : Keeps(d, id, x)'
    <3>1. PICK d \in Conns : Keeps(d, id, x)'
      BY <2>2
    <3>2. Stamp(id, x)
      BY <1>1, <3>1, CalmOther DEF OwnStamps, Stamp
    <3> QED BY <3>2
  <2> QED BY <2>1, <2>2 DEF Stamp
<1>3. ASSUME Stamp(id, x) PROVE Spared(a, id, x)'
  <2>1. Spared(a, id, x)
    BY <1>3 DEF StampsSpared
  <2>2. Foreign(a, x) => Foreign(a, x)'
    BY CalmForeign
  <2>3. Answers(a, id, x) => Answers(a, id, x)' \/ x \in aborted'
    <3>1. CASE a = c
      BY <1>1, <3>1 DEF OwnStamps
    <3>2. CASE a # c
      BY <3>2, CalmOther DEF Answers, Same
    <3> QED BY <3>1, <3>2
  <2> QED BY <1>1, <2>1, <2>2, <2>3 DEF Spared, Effects
<1>4. ASSUME x \in Xids(c) \cup (begun' \ begun), Reading(c)' => Answers(c, id, x)'
      PROVE  Spared(a, id, x)'
  <2>1. CASE a # c
    BY <1>4, <2>1, CalmForeign, CalmUnseen DEF Spared
  <2>2. CASE a = c
    BY <1>4, <2>2 DEF Spared
  <2> QED BY <2>1, <2>2
<1> QED BY <1>2, <1>3, <1>4

\* The writer of a version that was done is done, and the version is there.
LEMMA CalmDone ==
    ASSUME Inv, NEW c \in Conns, NEW X, NEW N, Calm(c, X, N),
           NEW id \in DOMAIN store, store[id].xmin \notin active \cup aborted
    PROVE  /\ id \in DOMAIN store' /\ store'[id].xmin = store[id].xmin
           /\ store'[id].logical = store[id].logical
           /\ store'[id].xmin \notin active' \cup aborted'
<1>1. store[id].xmin \in Nat /\ store[id].xmin < next_xid /\ next_xid \in Nat
  BY InvFacts, TypeFacts, ManagerFacts DEF Inv, StateInv, IdInv, StoreOK
<1>2. id \in DOMAIN store' /\ SameRows(N) /\ Effects(X)
  BY DEF Calm
<1>3. store[id].xmin \notin begun' \ begun
  BY <1>1, <1>2 DEF Effects
<1> QED BY <1>2, <1>3 DEF SameRows, Effects

\* So what is open stays unseen, and what a transaction saw stays visible.
LEMMA BaseStep ==
    ASSUME Inv, SInv, NEW c \in Conns, NEW X, NEW N, Calm(c, X, N)
    PROVE  SerialInv' /\ UnseenInv' /\ BaseInv'
<1>1. SerialInv'
  BY CalmOther DEF SerialInv
<1>2. UnseenInv'
  <2> SUFFICES ASSUME NEW a \in Conns, NEW b \in Conns, a # b, Reading(a)', NEW x \in Xids(b)'
               PROVE  ~ sees(ctx[a].snapshot, x)'
    BY DEF UnseenInv, UnseenOK
  <2>1. Reading(a) /\ ctx'[a].snapshot = ctx[a].snapshot
    BY CalmForeign
  <2>2. CASE x \in Xids(b)
    <3>1. ~ sees(ctx[a].snapshot, x)
      BY <2>1, <2>2 DEF SInv, UnseenInv, UnseenOK
    <3> QED BY <2>1, <3>1 DEF sees
  <2>3. CASE x \notin Xids(b)
    <3>1. b = c /\ x \in begun' \ begun
      BY <2>3, CalmOther DEF Calm
    <3>2. ~ sees(ctx[a].snapshot, x)
      BY <2>1, <3>1, CalmUnseen
    <3> QED BY <2>1, <3>2 DEF sees
  <2> QED BY <2>2, <2>3
<1>3. ASSUME NEW a \in Conns, Reading(a)', NEW id \in base'[a]
      PROVE  VersionOK(a, id)'
  <2>1. Reading(a) /\ ctx'[a].snapshot = ctx[a].snapshot /\ id \in base[a]
    BY <1>3, CalmForeign
  <2>2. VersionOK(a, id)
    BY <2>1 DEF SInv, BaseInv, BaseOK
  <2>3. id \in DOMAIN store /\ store[id].xmin \notin active \cup aborted
    BY <2>2, InvFacts, ManagerFacts DEF VersionOK, XID_NONE
  <2>4. /\ id \in DOMAIN store' /\ store'[id].xmin = store[id].xmin
        /\ store'[id].xmin \notin active' \cup aborted'
    BY <2>3, CalmDone
  <2>5. StampsSpared(a, id)'
    BY <1>3, <2>2, <2>3, <2>4, CalmSpared DEF VersionOK
  <2> QED BY <2>1, <2>2, <2>4, <2>5 DEF VersionOK, sees
<1> QED BY <1>1, <1>2, <1>3 DEF BaseInv, BaseOK

\* A version that is late after the step was late before it, or is new and
\* nobody refers to it.
LEMMA CalmLate ==
    ASSUME Inv, SInv, NEW c \in Conns, NEW X, NEW N, Calm(c, X, N), NEW a \in Conns, Reading(a)',
           NEW id \in DOMAIN store'
    PROVE  /\ id \in DOMAIN store /\ Late(a, id)' => Late(a, id)
           /\ id \notin DOMAIN store => StampsSpared(a, id)' /\ id \notin Refs(a)'
<1>1. /\ SameRows(N) /\ Fresh(c, N) /\ Finds(c) /\ Effects(X)
  BY DEF Calm
<1>2. ASSUME id \in DOMAIN store, Late(a, id)' PROVE Late(a, id)
  <2>0. PICK x : x = store[id].xmin
    OBVIOUS
  <2>1. store'[id].xmin = x
    BY <1>1, <1>2, <2>0 DEF SameRows
  <2>2. Foreign(a, x)' /\ x \notin aborted'
    BY <1>2, <2>1 DEF Late, Foreign, sees
  <2>3. x \in begun
    <3>1. x \in Nat /\ x < next_xid /\ next_xid \in Nat
      BY <1>2, <2>0, InvFacts, TypeFacts, ManagerFacts DEF Inv, StateInv, IdInv, StoreOK
    <3> QED BY <1>1, <2>2, <3>1 DEF Foreign, Effects
  <2>4. Foreign(a, x)
    BY <2>2, <2>3, CalmForeign
  <2> QED BY <1>1, <2>0, <2>2, <2>4 DEF Late, Effects
<1>3. ASSUME id \notin DOMAIN store
      PROVE  StampsSpared(a, id)' /\ id \notin Refs(a)'
  <2>1. New(c, id) /\ store'[id].xmax = XID_NONE
    BY <1>1, <1>3 DEF SameRows, Fresh
  <2>2. \A d \in Conns : id \notin Refs(d)
    BY <2>1 DEF New, Refs, Reads
  <2>3. \A d \in Conns : id \notin Refs(d)'
    BY <1>1, <1>3, <2>2, CalmOther DEF Finds
  <2>4. \A x : Stamp(id, x)' => x = XID_NONE
    BY <2>1, <2>3 DEF Stamp, Keeps, Refs
  <2> QED BY <2>3, <2>4 DEF StampsSpared, Spared
<1> QED BY <1>2, <1>3

\* And committed updates keep leaving a trace for those who do not see them.
LEMMA UpdateStep ==
    ASSUME Inv, SInv, NEW c \in Conns, NEW X, NEW N, Calm(c, X, N)
    PROVE  UpdateInv'
<1>1. UpdateInv /\ Effects(X) /\ SameRows(N) /\ Fresh(c, N) /\ Finds(c) /\ Logs(c) /\ Leaves(c)
  BY DEF SInv, Calm
<1>2. ASSUME NEW a \in Conns PROVE LateOK(a)'
  <2> SUFFICES ASSUME Reading(a)'
               PROVE  /\ \A id \in DOMAIN store' : Late(a, id)' => StampsSpared(a, id)'
                      /\ \A id \in Refs(a)' \cap DOMAIN store' : ~ Late(a, id)'
    BY DEF LateOK
  <2>0. Reading(a) /\ LateOK(a)
    BY <1>1, CalmForeign DEF UpdateInv
  <2>1. ASSUME NEW id \in DOMAIN store', Late(a, id)' PROVE StampsSpared(a, id)'
    BY <2>0, <2>1, CalmLate, CalmSpared DEF LateOK
  <2>2. ASSUME NEW id \in Refs(a)' \cap DOMAIN store' PROVE ~ Late(a, id)'
    <3>1. id \in DOMAIN store
      BY <2>2, CalmLate
    <3>2. CASE id \in Refs(a)
      <4>1. ~ Late(a, id)
        BY <2>0, <3>1, <3>2 DEF LateOK
      <4> QED BY <2>2, <3>1, <4>1, CalmLate
    <3>3. CASE id \notin Refs(a)
      <4>1. a = c
        BY <2>2, <3>3, CalmOther
      <4>2. ~ Late(a, id)
        BY <1>1, <2>2, <3>3, <4>1 DEF Finds
      <4> QED BY <2>2, <3>1, <4>2, CalmLate
    <3> QED BY <3>2, <3>3
  <2> QED BY <2>1, <2>2
<1>3. ASSUME NEW a \in Conns PROVE WroteOK(a)'
  <2> SUFFICES ASSUME Reading(a)', NEW w \in wrote', w.kind = "update",
                      ~ sees(ctx'[a].snapshot, w.xid)
               PROVE  Trace(a, w)'
    BY DEF WroteOK, sees
  <2>0. Reading(a) /\ WroteOK(a) /\ ctx'[a].snapshot = ctx[a].snapshot
    BY <1>1, CalmForeign DEF UpdateInv
  <2>1. CASE w \in wrote
    <3>1. PICK id \in DOMAIN store :
              store[id].logical = w.row /\ Late(a, id) /\ store[id].xmin \notin active
      BY <2>0, <2>1 DEF WroteOK, Trace
    <3>2. /\ id \in DOMAIN store' /\ store'[id].xmin = store[id].xmin
          /\ store'[id].logical = w.row /\ store'[id].xmin \notin active' \cup aborted'
      BY <3>1, CalmDone DEF Late
    <3>x. PICK x : x = store[id].xmin
      OBVIOUS
    <3>3. Foreign(a, x)'
      BY <3>1, <3>x, CalmForeign DEF Late
    <3>4. Late(a, id)'
      BY <3>2, <3>3, <3>x DEF Late, Foreign, sees
    <3> QED BY <3>2, <3>4 DEF Trace
  <2>2. CASE w \notin wrote
    <3>1. ~ Reading(c)' /\ Left(c, w)
      BY <1>1, <2>2 DEF Logs
    <3>2. PICK id \in DOMAIN store' :
              /\ store'[id].logical = w.row
              /\ store'[id].xmin \in Xids(c) /\ store'[id].xmin \notin active' \cup aborted'
      BY <3>1 DEF Left
    <3>3. PICK x : x = store'[id].xmin
      OBVIOUS
    <3>4. Foreign(a, x)'
      BY <2>0, <3>1, <3>2, <3>3, CalmUnseen
    <3>5. Late(a, id)'
      BY <3>2, <3>3, <3>4 DEF Late, Foreign, sees
    <3> QED BY <3>2, <3>5 DEF Trace
  <2> QED BY <2>1, <2>2
<1>4. ASSUME NEW a \in Conns PROVE ValidOK(a)' /\ BegunOK(a)'
  <2>1. CASE a = c
    BY <2>1 DEF Calm
  <2>2. CASE a # c
    BY <2>2, CalmOther DEF ValidOK, BegunOK
  <2> QED BY <2>1, <2>2
<1>5. DoneInv'
  <2> SUFFICES ASSUME NEW w \in wrote' PROVE w.xid \in begun' \ active'
    BY DEF DoneInv
  <2>1. CASE w \in wrote
    BY <1>1, <2>1 DEF UpdateInv, DoneInv, Effects
  <2>2. CASE w \notin wrote
    BY <1>1, <2>2, InvFacts DEF Logs, XidOK, Effects
  <2> QED BY <2>1, <2>2
<1>6. OwnedInv'
  <2> SUFFICES ASSUME NEW id \in DOMAIN store', store'[id].xmin \in active'
               PROVE  \E d \in Conns : store'[id].xmin \in txn_xids(d)'
    BY DEF OwnedInv
  <2>1. CASE id \in DOMAIN store
    <3>1. store'[id].xmin = store[id].xmin
      BY <1>1, <2>1 DEF SameRows
    <3>2. store[id].xmin \in Nat /\ store[id].xmin < next_xid /\ next_xid \in Nat
      BY <2>1, InvFacts, TypeFacts, ManagerFacts DEF Inv, StateInv, IdInv, StoreOK
    <3>3. store[id].xmin \in active
      BY <1>1, <3>1, <3>2 DEF Effects
    <3>4. PICK d \in Conns : store[id].xmin \in txn_xids(d)
      BY <1>1, <2>1, <3>3 DEF UpdateInv, OwnedInv
    <3>5. store[id].xmin \in txn_xids(d)'
      <4>1. CASE d = c
        BY <1>1, <3>1, <3>4, <4>1 DEF Leaves
      <4>2. CASE d # c
        BY <3>4, <4>2, CalmOther
      <4> QED BY <4>1, <4>2
    <3> QED BY <3>1, <3>5
  <2>2. CASE id \notin DOMAIN store
    BY <1>1, <2>2 DEF SameRows, Fresh
  <2> QED BY <2>1, <2>2
<1> QED BY <1>2, <1>3, <1>4, <1>5, <1>6 DEF UpdateInv

\* The invariant is preserved.
LEMMA SerialStep ==
    ASSUME Inv, SInv, NEW c \in Conns, NEW X, NEW N, Calm(c, X, N)
    PROVE  SInv'
  BY BaseStep, UpdateStep DEF SInv

\* A connection takes a step only when the others are between statements.
LEMMA StepIdle ==
    ASSUME Serial, Inv, SInv, NEW c \in Conns, Start(c) \/ Continue(c)
    PROVE  /\ \A d \in Conns \ {c} : phase[d] = "idle"
           /\ begun' \subseteq Nat
<1>1. Ready(c) \/ phase[c] # "idle"
  <2>1. ASSUME Start(c) PROVE Ready(c) \/ phase[c] # "idle"
    <3>1. CASE Begin(c) \/ Savepoint(c) \/ Release(c) \/ RollbackTo(c) \/ Rollback(c) \/ Validate(c)
      BY <3>1 DEF Begin, Savepoint, Release, RollbackTo, Rollback, Validate, ReadyInTransaction
    <3>2. CASE UpdateRead(c) \/ Delete(c) \/ Insert(c) \/ AutoStart(c)
      BY <3>2 DEF UpdateRead, Delete, Insert, AutoStart, ReadyInTransaction
    <3>3. CASE AutoUpdateRead(c) \/ AutoDelete(c) \/ AutoInsert(c)
      BY <3>3 DEF AutoUpdateRead, AutoDelete, AutoInsert
    <3> QED BY <2>1, <3>1, <3>2, <3>3 DEF Start
  <2>2. ASSUME Continue(c) PROVE phase[c] # "idle"
    <3>1. CASE Capture(c) \/ UndoUpdate(c) \/ UndoTombstone(c) \/ AbortXid(c) \/ Publish(c)
      BY <3>1 DEF Capture, UndoUpdate, UndoTombstone, AbortXid, Publish
    <3>2. CASE CommitXid(c) \/ UpdatePersist(c) \/ AutoUpdateBegin(c) \/ AutoUpdateCommit(c)
                 \/ AutoUpdatePersist(c)
      BY <3>2 DEF CommitXid, UpdatePersist, AutoUpdateBegin, AutoUpdateCommit, AutoUpdatePersist
    <3>3. CASE AutoDeleteCommit(c) \/ AutoDeleteAbort(c) \/ AutoInsertPersist(c) \/ AutoEnd(c)
      BY <3>3 DEF AutoDeleteCommit, AutoDeleteAbort, AutoInsertPersist, AutoEnd
    <3> QED BY <2>2, <3>1, <3>2, <3>3 DEF Continue
  <2> QED BY <2>1, <2>2
<1>2. \A d \in Conns \ {c} : phase[d] = "idle"
  BY <1>1 DEF Ready, SInv, SerialInv
<1>3. begun' \subseteq Nat
  <2>1. Manager!TypeOK' /\ MaxXid \in Nat
    BY ConnStep, ManagerAssumption
  <2> QED BY <2>1 DEF Manager!TypeOK, Manager!Xid
<1> QED BY <1>2, <1>3

\* A step outside a transaction: what it stamps, it stamps with its own xid.
LEMMA AutoSerial ==
    ASSUME Serial, Inv, SInv, NEW c \in Conns, Start(c) \/ Continue(c), ~ in_transaction(c),
           UNCHANGED <<txnVars, todo, base>>,
           \A d \in Conns \ {c} : phase'[d] = phase[d] /\ buf'[d] = buf[d],
           NEW X, Effects(X), auto_xids(c)' \subseteq auto_xids(c) \cup (begun' \ begun),
           DOMAIN store \subseteq DOMAIN store', NEW N, SameRows(N),
           \A id \in DOMAIN store :
               \/ Stamp(id, store'[id].xmax)
               \/ store'[id].xmax \in auto_xids(c) \cup (begun' \ begun),
           phase'[c] \in AutoPhase,
           phase'[c] = "deleting" => /\ buf'[c].id \in DOMAIN store
                                     /\ buf'[c].old = store[buf'[c].id],
           Fresh(c, N), Logs(c)
    PROVE  SInv'
<1>1. txn_xids(c) = {} /\ journal(c) = {}
  BY AutoFacts
<1>2. ctx' = ctx /\ updates' = updates /\ tombstones' = tombstones /\ todo' = todo /\ base' = base
  BY DEF txnVars
<1>3. Others(c)
  BY <1>2 DEF Others, Same
<1>4. txn_xids(c)' = {} /\ journal(c)' = {} /\ ~ Reading(c)'
  BY <1>1, <1>2 DEF txn_xids, journal, group, Reading, in_transaction
<1>5. Xids(c)' \subseteq Xids(c) \cup (begun' \ begun)
  BY <1>4 DEF Xids
<1>6. ASSUME NEW id \in DOMAIN store PROVE OwnStamps(c, id)
  <2>1. \A x : Keeps(c, id, x)' => store[id].xmax = x
    BY <1>4 DEF Keeps, AutoPhase
  <2>2. \A x : store'[id].xmax = x => Stamp(id, x) \/ x \in Xids(c) \cup (begun' \ begun)
    BY DEF Xids
  <2> QED BY <1>4, <2>1, <2>2 DEF OwnStamps, Stamp
<1>7. SameView(c) /\ BegunOK(c)' /\ Leaves(c) /\ ValidOK(c)'
  BY <1>1, <1>4 DEF SameView, BegunOK, Leaves, ValidOK, AutoPhase
<1>8. Finds(c)
  BY <1>4 DEF Finds, Refs, AutoPhase
<1>9. Calm(c, X, N)
  BY <1>2, <1>3, <1>5, <1>6, <1>7, <1>8, StepIdle DEF Calm
<1> QED BY <1>9, SerialStep

\* A step of a transaction that has its snapshot.
LEMMA TxnSerial ==
    ASSUME Serial, Inv, SInv, NEW c \in Conns, Start(c) \/ Continue(c), Reading(c), Others(c),
           phase'[c] \in TxnPhase \ {"begun"}, NEW X, Effects(X),
           txn_xids(c)' \subseteq txn_xids(c) \cup (begun' \ begun), Leaves(c),
           \A d \in Conns \ {c} : base'[d] = base[d],
           in_transaction(c)' => ctx'[c].snapshot = ctx[c].snapshot /\ base'[c] = base[c],
           \A id \in DOMAIN store \ DOMAIN store' : store[id].xmin \in active,
           NEW N, SameRows(N),
           \A id \in DOMAIN store \cap DOMAIN store' :
               \/ Stamp(id, store'[id].xmax)
               \/ \E e \in journal(c)' : e.id = id /\ e.xid = store'[id].xmax /\ e.xid \in txn_xids(c),
           \A e \in journal(c)' : e \in journal(c) \/ Stamp(e.id, e.previous_xmax),
           phase'[c] = "updating" => buf'[c].old = store[buf'[c].id],
           in_transaction(c)' => \A e \in journal(c) \ journal(c)' :
                                     phase'[c] = "undoing" /\ e.xid \in ToSet(todo'[c]),
           in_transaction(c)' /\ phase[c] = "undoing" =>
               \A x \in ToSet(todo[c]) : \/ x \in aborted'
                                         \/ phase'[c] = "undoing" /\ x \in ToSet(todo'[c]),
           Fresh(c, N), Finds(c), Logs(c), ValidOK(c)'
    PROVE  SInv'
<1>1. phase[c] \in TxnPhase /\ in_transaction(c)
  BY InvFacts DEF PhaseOK, Reading
<1>2. auto_xids(c)' = {} /\ auto_xids(c) = {}
  BY <1>1 DEF auto_xids, TxnPhase
<1>3. Xids(c)' \subseteq Xids(c) \cup (begun' \ begun)
  BY <1>2 DEF Xids
<1>4. ASSUME NEW id \in DOMAIN store \cap DOMAIN store' PROVE OwnStamps(c, id)
  <2>1. ASSUME NEW x \in 0..MaxXid, Keeps(c, id, x)' PROVE Stamp(id, x)
    <3>1. CASE \E e \in journal(c)' : e.id = id /\ e.previous_xmax = x
      BY <3>1 DEF Stamp, Keeps
    <3>2. CASE phase'[c] \in {"updating", "deleting"} /\ buf'[c].id = id /\ buf'[c].old.xmax = x
      BY <3>2 DEF Stamp, TxnPhase
    <3> QED BY <2>1, <3>1, <3>2 DEF Keeps
  <2>2. ASSUME NEW x \in 0..MaxXid, store'[id].xmax = x, ~ Stamp(id, x)
        PROVE  x \in Xids(c) /\ Answers(c, id, x)'
    BY <1>4, <2>2 DEF Xids, Answers
  <2>3. ASSUME NEW x \in 0..MaxXid, Reading(c)', Answers(c, id, x)
        PROVE  Answers(c, id, x)' \/ x \in aborted'
    <3>1. in_transaction(c)' /\ phase[c] # "deleting"
      BY <1>1, <2>3 DEF Reading, TxnPhase
    <3>2. CASE \E e \in journal(c) : e.id = id /\ e.xid = x
      BY <3>1, <3>2 DEF Answers
    <3>3. CASE phase[c] = "undoing" /\ x \in ToSet(todo[c])
      BY <3>1, <3>3 DEF Answers
    <3> QED BY <2>3, <3>1, <3>2, <3>3 DEF Answers
  <2> QED BY <2>1, <2>2, <2>3 DEF OwnStamps
<1>5. SameView(c) /\ BegunOK(c)'
  BY DEF SameView, Reading, BegunOK
<1>6. Calm(c, X, N)
  BY <1>3, <1>4, <1>5, StepIdle DEF Calm
<1> QED BY <1>6, SerialStep

\* The same when the step leaves the store and the journal alone.
LEMMA QuietSerial ==
    ASSUME Serial, Inv, SInv, NEW c \in Conns, Start(c) \/ Continue(c), Reading(c), Others(c),
           phase'[c] \in TxnPhase \ {"begun"}, NEW X, Effects(X),
           store' = store, updates'[c] = updates[c], tombstones'[c] = tombstones[c], wrote' = wrote,
           txn_xids(c)' \subseteq txn_xids(c) \cup (begun' \ begun), Leaves(c),
           \A d \in Conns \ {c} : base'[d] = base[d],
           in_transaction(c)' => ctx'[c].snapshot = ctx[c].snapshot /\ base'[c] = base[c],
           phase'[c] = "updating" => /\ buf'[c].id \in DOMAIN store /\ ~ Late(c, buf'[c].id)
                                     /\ buf'[c].old = store[buf'[c].id],
           in_transaction(c)' /\ phase[c] = "undoing" =>
               \A x \in ToSet(todo[c]) : \/ x \in aborted'
                                         \/ phase'[c] = "undoing" /\ x \in ToSet(todo'[c]),
           ValidOK(c)'
    PROVE  SInv'
<1>1. SameRows({}) /\ DOMAIN store' = DOMAIN store /\ Fresh(c, {}) /\ Logs(c)
  BY DEF SameRows, Fresh, Logs
<1>2. \A id \in DOMAIN store : Stamp(id, store'[id].xmax)
  BY DEF Stamp
<1>3. journal(c)' = journal(c)
  BY DEF journal
<1>4. Finds(c)
  BY <1>3 DEF Finds, Refs, TxnPhase
<1> QED BY <1>1, <1>2, <1>3, <1>4, TxnSerial

-----------------------------------------------------------------------------
(* Statements outside a transaction.                                       *)

\* Such a step when it leaves the store alone.
LEMMA AutoQuietSerial ==
    ASSUME Serial, Inv, SInv, NEW c \in Conns, Start(c) \/ Continue(c), ~ in_transaction(c),
           UNCHANGED <<store, txnVars, todo, base, wrote>>,
           NEW to \in AutoPhase \ {"deleting"}, phase' = [phase EXCEPT ![c] = to],
           \A d \in Conns \ {c} : buf'[d] = buf[d],
           NEW X, Effects(X), auto_xids(c)' \subseteq auto_xids(c) \cup (begun' \ begun)
    PROVE  SInv'
<1>1. SameRows({}) /\ DOMAIN store \subseteq DOMAIN store' /\ Fresh(c, {}) /\ Logs(c)
  BY DEF SameRows, Fresh, Logs
<1>2. \A id \in DOMAIN store : Stamp(id, store'[id].xmax)
  BY DEF Stamp
<1>3. phase \in [Conns -> Phase]
  BY InvFacts DEF TypeOK
<1>4. /\ \A d \in Conns \ {c} : phase'[d] = phase[d] /\ buf'[d] = buf[d]
      /\ phase'[c] \in AutoPhase /\ phase'[c] # "deleting"
      /\ UNCHANGED <<txnVars, todo, base>>
  BY <1>3
<1> QED BY <1>1, <1>2, <1>4, AutoSerial

\* The statement starts or ends.
LEMMA SerialAutoFrame ==
    ASSUME Serial, Inv, SInv, NEW c \in Conns, AutoStart(c) \/ AutoEnd(c)
    PROVE  SInv'
<1>1. /\ P!Inv /\ TypeOK /\ (Start(c) \/ Continue(c))
      /\ UNCHANGED <<store, next_id, txnVars, lock, todo, buf, history>>
      /\ ~ in_transaction(c) \/ phase[c] \notin TxnPhase
  BY InvFacts DEF AutoStart, AutoEnd, Start, Continue, TxnPhase, Ready
<1>2. PICK to \in {"idle", "statement"} : phase' = [phase EXCEPT ![c] = to]
  <2>1. CASE AutoStart(c)
    BY <2>1 DEF AutoStart, Goto
  <2>2. CASE AutoEnd(c)
    BY <2>2 DEF AutoEnd, Goto
  <2> QED BY <2>1, <2>2
<1>3. Effects({})
  <2>1. Manager!fresh_retained_snapshot(c) \/ Manager!drop_retention(c)
    BY DEF AutoStart, AutoEnd
  <2> QED BY <1>1, <2>1, FrameEffects
<1>4. ~ in_transaction(c)
  BY <1>1, AutoFacts
<1>5. phase'[c] = to /\ auto_xids(c)' = {}
  BY <1>1, <1>2 DEF auto_xids, TypeOK
<1>6. /\ to \in AutoPhase \ {"deleting"} /\ UNCHANGED <<store, txnVars, todo, base, wrote>>
      /\ \A d \in Conns \ {c} : buf'[d] = buf[d]
  BY <1>1 DEF AutoPhase, history
<1> QED BY <1>1, <1>2, <1>3, <1>4, <1>5, <1>6, AutoQuietSerial

\* UPDATE clones a version, takes an xid and commits it; INSERT takes a slot.
LEMMA SerialAutoQuiet ==
    ASSUME Serial, Inv, SInv, NEW c \in Conns,
           AutoUpdateRead(c) \/ AutoUpdateBegin(c) \/ AutoUpdateCommit(c) \/ AutoInsert(c)
    PROVE  SInv'
<1>1. /\ P!Inv /\ TypeOK /\ (Start(c) \/ Continue(c)) /\ phase[c] \in {"statement", "read"}
      /\ UNCHANGED <<store, txnVars, lock, todo, history>>
  BY InvFacts DEF AutoUpdateRead, AutoUpdateBegin, AutoUpdateCommit, AutoInsert, Start, Continue
<1>2. ~ in_transaction(c)
  BY <1>1, AutoFacts DEF TxnPhase
<1>3. /\ phase \in [Conns -> Phase] /\ buf \in [Conns -> Buffer] /\ buf[c] \in Buffer
      /\ UNCHANGED <<store, txnVars, todo, base, wrote>>
  BY <1>1 DEF TypeOK, history
<1>4. CASE AutoUpdateRead(c)
  <2>1. PICK id : buf' = [buf EXCEPT ![c] = [id |-> id, new |-> next_id, xid |-> XID_NONE,
                                             old |-> store[id]]]
    BY <1>4 DEF AutoUpdateRead
  <2>2. phase' = [phase EXCEPT ![c] = "read"] /\ Effects({})
    BY <1>1, <1>4, FrameEffects DEF AutoUpdateRead, Goto
  <2>3. auto_xids(c)' = {} /\ \A d \in Conns \ {c} : buf'[d] = buf[d]
    BY <1>3, <2>1 DEF auto_xids
  <2>4. "read" \in AutoPhase \ {"deleting"}
    BY DEF AutoPhase
  <2> QED BY <1>1, <1>2, <1>3, <2>2, <2>3, <2>4, AutoQuietSerial
<1>5. CASE AutoUpdateBegin(c)
  <2>1. /\ buf' = [buf EXCEPT ![c].xid = next_xid] /\ phase' = phase /\ phase[c] = "read"
        /\ Manager!begin
    BY <1>5 DEF AutoUpdateBegin
  <2>2. Effects({}) /\ next_xid \notin begun /\ begun' = begun \cup {next_xid}
    BY <1>1, <2>1, BeginEffects
  <2>3. buf'[c].xid = next_xid /\ \A d \in Conns \ {c} : buf'[d] = buf[d]
    BY <1>3, <2>1 DEF Buffer
  <2>4. auto_xids(c)' \subseteq begun' \ begun
    BY <2>2, <2>3 DEF auto_xids
  <2>5. "read" \in AutoPhase \ {"deleting"} /\ phase' = [phase EXCEPT ![c] = "read"]
    BY <1>3, <2>1 DEF AutoPhase
  <2> QED BY <1>1, <1>2, <1>3, <2>2, <2>3, <2>4, <2>5, AutoQuietSerial
<1>6. CASE AutoUpdateCommit(c)
  <2>1. /\ buf' = buf /\ phase' = [phase EXCEPT ![c] = "stamped"] /\ phase[c] = "read"
        /\ Manager!commit(buf[c].xid)
    BY <1>6 DEF AutoUpdateCommit, Goto
  <2>2. Effects({buf[c].xid})
    BY <1>1, <2>1, EndEffects
  <2>3. auto_xids(c)' \subseteq auto_xids(c)
    BY <1>3, <2>1 DEF auto_xids
  <2>4. "stamped" \in AutoPhase \ {"deleting"} /\ \A d \in Conns \ {c} : buf'[d] = buf[d]
    BY <2>1 DEF AutoPhase
  <2> QED BY <1>1, <1>2, <1>3, <2>1, <2>2, <2>3, <2>4, AutoQuietSerial
<1>7. CASE AutoInsert(c)
  <2>1. /\ buf' = [buf EXCEPT ![c].xid = Manager!allocated_slot] /\ Manager!allocate_committed_xid
        /\ phase' = [phase EXCEPT ![c] = "inserting"]
    BY <1>7 DEF AutoInsert, Goto
  <2>2. Effects({})
    BY <1>1, <2>1, AllocateEffects
  <2>3. auto_xids(c)' = {} /\ \A d \in Conns \ {c} : buf'[d] = buf[d]
    BY <1>3, <2>1 DEF auto_xids
  <2>4. "inserting" \in AutoPhase \ {"deleting"}
    BY DEF AutoPhase
  <2> QED BY <1>1, <1>2, <1>3, <2>1, <2>2, <2>3, <2>4, AutoQuietSerial
<1> QED BY <1>4, <1>5, <1>6, <1>7

\* UPDATE stores its version, and stamps the old one with the xid of its own.
LEMMA SerialAutoUpdatePersist ==
    ASSUME Serial, Inv, SInv, NEW c \in Conns, AutoUpdatePersist(c)
    PROVE  SInv'
<1> DEFINE b == buf[c]
<1>1. /\ P!Inv /\ TypeOK /\ PhaseOK(c) /\ (Start(c) \/ Continue(c)) /\ phase[c] = "stamped"
      /\ Install(b) /\ buf' = [buf EXCEPT ![c] = NoBuf] /\ phase' = [phase EXCEPT ![c] = "done"]
      /\ wrote' = wrote \cup {[row |-> b.old.logical, xid |-> b.xid, kind |-> "update"]}
      /\ UNCHANGED <<managerVars, next_id, txnVars, lock, todo, view, base>>
  BY InvFacts DEF AutoUpdatePersist, Continue, Goto
<1>2. /\ b.xid # XID_NONE /\ Reserves(c) /\ auto_xids(c) = {b.xid} /\ next_id' = next_id
      /\ ~ in_transaction(c) /\ b.xid \notin active \cup aborted
  BY <1>1, AutoFacts, InvFacts DEF PhaseOK, Reserves, auto_xids, TxnPhase, XidOK
<1>3. /\ DOMAIN store \subseteq DOMAIN store' /\ SameRows({b.new}) /\ New(c, b.new)
      /\ b.new \in DOMAIN store' /\ store'[b.new].xmin = b.xid /\ store'[b.new].xmax = XID_NONE
      /\ store'[b.new].logical = b.old.logical
      /\ \A id \in DOMAIN store : store'[id].xmax = IF id = b.id THEN b.xid ELSE store[id].xmax
  BY <1>1, <1>2, InstallFacts
<1>4. Effects({})
  BY <1>1, FrameEffects
<1>5. /\ \A d \in Conns \ {c} : phase'[d] = phase[d] /\ buf'[d] = buf[d]
      /\ phase'[c] = "done" /\ auto_xids(c)' = {} /\ UNCHANGED <<txnVars, todo, base>>
  BY <1>1 DEF auto_xids, TypeOK
<1>6. \A id \in DOMAIN store : Stamp(id, store'[id].xmax) \/ store'[id].xmax \in auto_xids(c)
  BY <1>2, <1>3 DEF Stamp
<1>m. active' = active /\ aborted' = aborted
  BY <1>1 DEF managerVars
<1>7. Fresh(c, {b.new})
  BY <1>2, <1>3, <1>m DEF Fresh
<1>8. Logs(c)
  <2>1. ~ Reading(c)' /\ b.xid \in Xids(c)
    BY <1>2, <1>5 DEF Reading, in_transaction, txnVars, Xids
  <2>2. \A w : w.row = b.old.logical => Left(c, w)
    BY <1>2, <1>3, <1>m, <2>1 DEF Left
  <2> HIDE DEF b
  <2> QED BY <1>1, <1>2, <1>m, <2>1, <2>2 DEF Logs
<1>9. phase'[c] \in AutoPhase /\ phase'[c] # "deleting"
  BY <1>5 DEF AutoPhase
<1> HIDE DEF b
<1> QED BY <1>1, <1>2, <1>3, <1>4, <1>5, <1>6, <1>7, <1>8, <1>9, AutoSerial

\* INSERT stores its version.
LEMMA SerialAutoInsertPersist ==
    ASSUME Serial, Inv, SInv, NEW c \in Conns, AutoInsertPersist(c)
    PROVE  SInv'
<1> DEFINE n0 == next_id
           x0 == buf[c].xid
<1>1. /\ P!Inv /\ TypeOK /\ IdInv /\ (Start(c) \/ Continue(c)) /\ phase[c] = "inserting"
      /\ next_id' = n0 + 1 /\ store' = with_version(store, n0, n0, x0)
      /\ buf' = [buf EXCEPT ![c] = NoBuf] /\ phase' = [phase EXCEPT ![c] = "done"]
      /\ UNCHANGED <<managerVars, txnVars, lock, todo, view, base, wrote>>
  BY InvFacts DEF AutoInsertPersist, Continue, Goto, TakeId, Inv, StateInv
<1>2. ~ in_transaction(c)
  BY <1>1, AutoFacts DEF TxnPhase
<1>3. New(c, n0) /\ n0 \notin DOMAIN store
  BY <1>1, FreshIds DEF New
<1> HIDE DEF n0, x0
<1>4. /\ DOMAIN store \subseteq DOMAIN store' /\ SameRows({n0})
      /\ \A id \in DOMAIN store : Stamp(id, store'[id].xmax)
  <2>1. DOMAIN store' = DOMAIN store \cup {n0} /\ \A id \in DOMAIN store : store'[id] = store[id]
    BY <1>1, <1>3 DEF with_version
  <2> QED BY <2>1 DEF SameRows, Stamp
<1>5. Effects({}) /\ active' = active
  BY <1>1, FrameEffects DEF managerVars
<1>6. /\ \A d \in Conns \ {c} : phase'[d] = phase[d] /\ buf'[d] = buf[d]
      /\ phase'[c] = "done" /\ auto_xids(c)' = {} /\ UNCHANGED <<txnVars, todo, base>>
      /\ phase'[c] \in AutoPhase /\ phase'[c] # "deleting"
  BY <1>1 DEF auto_xids, TypeOK, AutoPhase
<1>7. Fresh(c, {n0}) /\ Logs(c)
  <2>1. store'[n0].xmin = x0 /\ store'[n0].xmax = XID_NONE
    BY <1>1 DEF with_version
  <2>2. x0 \notin active
    BY <1>1, InvFacts, ManagerFacts DEF XidOK, x0
  <2> QED BY <1>1, <1>3, <1>5, <2>1, <2>2 DEF Fresh, Logs
<1> QED BY <1>1, <1>2, <1>4, <1>5, <1>6, <1>7, AutoSerial

\* DELETE stamps a version with a new xid.
LEMMA SerialAutoDelete ==
    ASSUME Serial, Inv, SInv, NEW c \in Conns, AutoDelete(c)
    PROVE  SInv'
<1>1. /\ P!Inv /\ TypeOK /\ (Start(c) \/ Continue(c)) /\ phase[c] = "statement" /\ Manager!begin
      /\ phase' = [phase EXCEPT ![c] = "deleting"]
      /\ UNCHANGED <<next_id, txnVars, todo, history>>
  BY InvFacts DEF AutoDelete, Start, Goto
<1>i. PICK i \in fresh_scan :
          /\ store' = [store EXCEPT ![i].xmax = next_xid]
          /\ buf' = [buf EXCEPT ![c] = [id |-> i, new |-> 0, xid |-> next_xid, old |-> store[i]]]
  BY DEF AutoDelete
<1>x. PICK x0 : x0 = next_xid
  OBVIOUS
<1>2. i \in DOMAIN store /\ ~ in_transaction(c)
  BY <1>1, FreshScanFacts, AutoFacts DEF TxnPhase
<1>3. Effects({}) /\ x0 \in begun' \ begun
  BY <1>1, <1>x, BeginEffects
<1>4. /\ store \in [DOMAIN store -> Version] /\ buf \in [Conns -> Buffer] /\ phase \in [Conns -> Phase]
  BY <1>1 DEF TypeOK
<1>5. /\ DOMAIN store' = DOMAIN store /\ SameRows({})
      /\ store'[i].xmax = x0 /\ \A j \in DOMAIN store : j # i => store'[j] = store[j]
  <2>1. store'[i] = [store[i] EXCEPT !.xmax = x0] /\ store[i] \in Version
    BY <1>i, <1>x, <1>2, <1>4
  <2>2. /\ store'[i].xmax = x0 /\ store'[i].xmin = store[i].xmin /\ store'[i].logical = store[i].logical
    BY <2>1 DEF Version
  <2>3. DOMAIN store' = DOMAIN store /\ \A j \in DOMAIN store : j # i => store'[j] = store[j]
    BY <1>i
  <2> QED BY <2>2, <2>3 DEF SameRows
<1>6. /\ buf'[c].id = i /\ buf'[c].xid = x0 /\ buf'[c].old = store[i]
      /\ \A d \in Conns \ {c} : phase'[d] = phase[d] /\ buf'[d] = buf[d]
      /\ phase'[c] = "deleting"
  BY <1>1, <1>i, <1>x, <1>4
<1>7. auto_xids(c)' \subseteq auto_xids(c) \cup (begun' \ begun)
  BY <1>3, <1>6 DEF auto_xids
<1>8. \A id \in DOMAIN store : Stamp(id, store'[id].xmax) \/ store'[id].xmax \in begun' \ begun
  BY <1>3, <1>5 DEF Stamp
<1>9. /\ UNCHANGED <<txnVars, todo, base>> /\ DOMAIN store \subseteq DOMAIN store'
      /\ phase'[c] \in AutoPhase /\ Fresh(c, {}) /\ Logs(c)
  BY <1>1, <1>5, <1>6 DEF history, AutoPhase, Fresh, Logs
<1> QED BY <1>1, <1>2, <1>3, <1>5, <1>6, <1>7, <1>8, <1>9, AutoSerial

\* It commits its xid, or puts the old stamp back and aborts it.
LEMMA SerialAutoDeleteEnd ==
    ASSUME Serial, Inv, SInv, NEW c \in Conns, AutoDeleteCommit(c) \/ AutoDeleteAbort(c)
    PROVE  SInv'
<1>b. PICK b : b = buf[c]
  OBVIOUS
<1>1. /\ P!Inv /\ TypeOK /\ PhaseOK(c) /\ (Start(c) \/ Continue(c)) /\ phase[c] = "deleting"
      /\ Manager!commit(b.xid) \/ Manager!rollback(b.xid)
      /\ \/ store' = store
         \/ store' = [store EXCEPT ![b.id] = b.old]
      /\ buf' = [buf EXCEPT ![c] = NoBuf] /\ phase' = [phase EXCEPT ![c] = "done"]
      /\ wrote' \subseteq wrote \cup {[row |-> b.old.logical, xid |-> b.xid, kind |-> "delete"]}
      /\ UNCHANGED <<txnVars, todo, base>>
  BY <1>b, InvFacts DEF AutoDeleteCommit, AutoDeleteAbort, Continue, Goto, history
<1>2. ~ in_transaction(c) /\ Reads(c) /\ b.xid \in Xids(c)
  BY <1>1, <1>b, AutoFacts DEF Reads, TxnPhase, PhaseOK, Xids, auto_xids
<1>3. Effects({b.xid}) /\ b.xid \notin active'
  BY <1>1, EndEffects
<1>4. b.id \in DOMAIN store => store[b.id].logical = b.old.logical /\ store[b.id].xmin = b.old.xmin
  BY <1>2, <1>b DEF Inv, StateInv, IdInv, CloneOK
<1>5. /\ DOMAIN store' = DOMAIN store
      /\ \A id \in DOMAIN store : store'[id] = store[id] \/ (id = b.id /\ store'[id] = b.old)
  BY <1>1
<1>6. SameRows({}) /\ DOMAIN store \subseteq DOMAIN store'
  BY <1>4, <1>5 DEF SameRows
<1>7. \A id \in DOMAIN store : Stamp(id, store'[id].xmax)
  BY <1>1, <1>b, <1>5 DEF Stamp, Keeps
<1>8. /\ \A d \in Conns \ {c} : phase'[d] = phase[d] /\ buf'[d] = buf[d]
      /\ phase'[c] = "done" /\ auto_xids(c)' = {}
      /\ phase'[c] \in AutoPhase /\ phase'[c] # "deleting"
  BY <1>1 DEF auto_xids, TypeOK, AutoPhase
<1>9. Fresh(c, {}) /\ Logs(c)
  <2>1. ~ Reading(c)'
    BY <1>1, <1>2 DEF Reading, in_transaction, txnVars
  <2>2. \A w \in wrote' : w \in wrote \/ (w.xid = b.xid /\ w.kind = "delete")
    BY <1>1
  <2>3. "delete" # "update"
    OBVIOUS
  <2> QED BY <1>2, <1>3, <2>1, <2>2, <2>3 DEF Fresh, Logs
<1> QED BY <1>1, <1>2, <1>3, <1>6, <1>7, <1>8, <1>9, AutoSerial

-----------------------------------------------------------------------------
(* Statements of a transaction.                                            *)

\* A transaction's scan returns no late version.
LEMMA ScanNotLate ==
    ASSUME Inv, NEW c \in Conns, Reading(c), NEW id \in transaction_scan(c)
    PROVE  id \in DOMAIN store /\ ~ Late(c, id)
<1> DEFINE x == store[id].xmin
<1>1. P!Inv /\ TypeOK
  BY InvFacts
<1>2. id \in DOMAIN store /\ visible(ctx[c].snapshot, own_xids(c), store[id])
  BY DEF transaction_scan, scan
<1>3. x \in own_xids(c) \/ x = 0 \/ sees(ctx[c].snapshot, x)
  BY <1>2 DEF visible, Manager!visibility_check, Manager!is_visible, Manager!XID_NONE, sees
<1>4. own_xids(c) \subseteq txn_xids(c) /\ 0 \notin begun
  BY <1>1, ContextFacts, ManagerFacts DEF txn_xids
<1> HIDE DEF x
<1>5. ~ Foreign(c, x)
  BY <1>3, <1>4 DEF Foreign
<1> QED BY <1>2, <1>5 DEF Late, x

\* A write of a transaction.
LEMMA SerialWrite ==
    ASSUME Serial, Inv, SInv, NEW c \in Conns, UpdatePersist(c) \/ Delete(c) \/ Insert(c)
    PROVE  SInv'
<1>1. PICK N : Writes(c, N)
  BY UpdatePersistWrites, DeleteWrites, InsertWrites
<1>2. /\ P!Inv /\ TypeOK /\ (Start(c) \/ Continue(c)) /\ Reading(c) /\ Others(c)
      /\ UNCHANGED <<managerVars, ctx, lock, todo, history>>
      /\ phase' = [phase EXCEPT ![c] = "idle"] /\ SameRows(N) /\ DOMAIN store \subseteq DOMAIN store'
      /\ \A n \in N : /\ New(c, n) /\ store'[n].xmin \in group(ctx[c]) /\ store'[n].xmax = XID_NONE
  BY <1>1, InvFacts DEF Writes, Start, Continue, Reading
<1>3. Effects({})
  BY <1>2, FrameEffects
<1>4. /\ phase'[c] = "idle" /\ phase'[c] \in TxnPhase \ {"begun"} /\ txn_xids(c)' = txn_xids(c)
      /\ ctx' = ctx /\ base' = base /\ wrote' = wrote
  BY <1>2 DEF TypeOK, TxnPhase, txn_xids, history
<1>5. /\ \A id \in DOMAIN store : \/ store'[id].xmax = store[id].xmax
                                  \/ \E e \in journal(c)' : e.id = id /\ e.xid = store'[id].xmax
      /\ \A e \in journal(c)' : \/ e \in journal(c)
                                \/ /\ e.xid \in group(ctx[c]) /\ Stamp(e.id, e.previous_xmax)
                                   /\ e.id \in DOMAIN store
                                   /\ \/ e.id \in transaction_scan(c)
                                      \/ phase[c] = "updating" /\ e.id = buf[c].id
      /\ journal(c) \subseteq journal(c)' /\ phase[c] # "undoing"
  BY <1>1 DEF Writes
<1>6. \A e \in journal(c)' : e.xid \in txn_xids(c)
  BY <1>5, InvFacts DEF JournalOK, txn_xids
<1>7. \A id \in DOMAIN store :
          \/ Stamp(id, store'[id].xmax)
          \/ \E e \in journal(c)' : e.id = id /\ e.xid = store'[id].xmax /\ e.xid \in txn_xids(c)
  BY <1>5, <1>6 DEF Stamp
<1>8. Leaves(c) /\ Fresh(c, N) /\ Logs(c) /\ ValidOK(c)'
  BY <1>2, <1>4 DEF Leaves, Fresh, Logs, ValidOK, txn_xids
<1>9. Finds(c)
  <2> SUFFICES ASSUME NEW e \in journal(c)', e.id \notin Refs(c)
               PROVE  e.id \in DOMAIN store /\ ~ Late(c, e.id)
    BY <1>4 DEF Finds, Refs
  <2>1. e \notin journal(c) /\ ~ (phase[c] = "updating" /\ e.id = buf[c].id)
    BY DEF Refs
  <2>2. e.id \in transaction_scan(c)
    BY <1>5, <2>1
  <2> QED BY <1>2, <2>2, ScanNotLate
<1> QED BY <1>2, <1>3, <1>4, <1>5, <1>7, <1>8, <1>9, TxnSerial

\* A step of an undo.
LEMMA SerialUndo ==
    ASSUME Serial, Inv, SInv, NEW c \in Conns, UndoUpdate(c) \/ UndoTombstone(c)
    PROVE  SInv'
<1>1. PICK e, gone : Undoes(c, e, gone)
  BY UndoUpdateUndoes, UndoTombstoneUndoes
<1>2. /\ P!Inv /\ TypeOK /\ XidOK(c) /\ JournalOK(c) /\ (Start(c) \/ Continue(c))
      /\ phase[c] = "undoing" /\ e \in journal(c) /\ e.xid \in ToSet(todo[c])
      /\ UNCHANGED <<managerVars, next_id, ctx, stmtVars, history>>
      /\ \A id \in gone \cap DOMAIN store : store[id].xmin = e.xid
      /\ journal(c)' \subseteq journal(c) /\ journal(c) \subseteq journal(c)' \cup {e}
      /\ \A d \in Conns \ {c} : updates'[d] = updates[d] /\ tombstones'[d] = tombstones[d]
  BY <1>1, InvFacts DEF Undoes, Continue
<1>3. Reading(c)
  BY <1>2, UndoFacts DEF Reading
<1>4. Effects({})
  BY <1>2, FrameEffects
<1>5. /\ ctx' = ctx /\ phase' = phase /\ todo' = todo /\ buf' = buf /\ base' = base /\ Others(c)
      /\ txn_xids(c)' = txn_xids(c)
  BY <1>2 DEF Others, Same, stmtVars, history, txn_xids
<1>6. /\ DOMAIN store' = DOMAIN store \ gone
      /\ \A id \in DOMAIN store' :
            /\ store'[id].logical = store[id].logical /\ store'[id].xmin = store[id].xmin
            /\ \/ store'[id].xmax = store[id].xmax
               \/ id = e.id /\ store'[id].xmax = e.previous_xmax
  BY <1>1, <1>2, ReviveFacts
<1>7. SameRows({})
  BY <1>6 DEF SameRows
<1>8. e.xid \in active
  BY <1>2 DEF XidOK, JournalOK
<1>9. \A id \in DOMAIN store \ DOMAIN store' : store[id].xmin \in active
  BY <1>2, <1>6, <1>8
<1>10. \A id \in DOMAIN store' : Stamp(id, store'[id].xmax)
  BY <1>2, <1>6 DEF Stamp, Keeps
<1>11. phase'[c] \in TxnPhase \ {"begun"} /\ phase'[c] = "undoing" /\ wrote' = wrote
  BY <1>2, <1>5 DEF TxnPhase, history
<1>12. Leaves(c) /\ Fresh(c, {}) /\ Logs(c) /\ ValidOK(c)'
  BY <1>5, <1>11 DEF Leaves, Fresh, Logs, ValidOK
<1>13. Finds(c)
  BY <1>2, <1>11 DEF Finds, Refs
<1> QED BY <1>2, <1>3, <1>4, <1>5, <1>7, <1>9, <1>10, <1>11, <1>12, <1>13, TxnSerial

\* COMMIT puts its stamps back.
LEMMA SerialPublish ==
    ASSUME Serial, Inv, SInv, NEW c \in Conns, Publish(c)
    PROVE  SInv'
<1>1. /\ P!Inv /\ TypeOK /\ PhaseOK(c) /\ JournalOK(c) /\ (Start(c) \/ Continue(c))
      /\ phase[c] = "validated" /\ store' = restored_stamps(c)
      /\ UNCHANGED <<managerVars, next_id, txnVars, todo, buf, history>>
  BY InvFacts DEF Publish, Continue
<1>p. PICK to \in {"publishing", "undoing"} : phase' = [phase EXCEPT ![c] = to]
  <2>1. CASE lock' = c /\ Goto(c, "publishing")
    BY <2>1 DEF Goto
  <2>2. CASE Goto(c, "undoing") /\ UNCHANGED lock
    BY <2>2 DEF Goto
  <2> QED BY <2>1, <2>2 DEF Publish
<1>2. Effects({})
  BY <1>1, FrameEffects
<1>3. Reading(c)
  BY <1>1 DEF PhaseOK, AutoPhase, Reading
<1>4. /\ ctx' = ctx /\ updates' = updates /\ tombstones' = tombstones /\ todo' = todo /\ buf' = buf
      /\ base' = base /\ phase'[c] = to /\ Others(c) /\ phase'[c] \in TxnPhase \ {"begun"}
      /\ wrote' = wrote
      /\ txn_xids(c)' = txn_xids(c) /\ journal(c)' = journal(c)
  BY <1>1, <1>p DEF Others, Same, txnVars, history, TypeOK, TxnPhase, txn_xids, journal
<1>5. /\ DOMAIN store' = DOMAIN store
      /\ \A id \in DOMAIN store :
            /\ store'[id].logical = store[id].logical /\ store'[id].xmin = store[id].xmin
            /\ \/ store'[id].xmax = store[id].xmax
               \/ \E e \in journal(c) : e.id = id /\ store'[id].xmax = e.xid
  BY <1>1, RestoredFacts
<1>6. SameRows({})
  BY <1>5 DEF SameRows
<1>7. \A id \in DOMAIN store :
          \/ Stamp(id, store'[id].xmax)
          \/ \E e \in journal(c)' : e.id = id /\ e.xid = store'[id].xmax /\ e.xid \in txn_xids(c)
  BY <1>1, <1>4, <1>5 DEF Stamp, JournalOK
<1>8. Leaves(c) /\ Fresh(c, {}) /\ Logs(c) /\ Finds(c)
  BY <1>4 DEF Leaves, Fresh, Logs, Finds, Refs
<1>9. ValidOK(c)'
  <2>1. ValidOK(c)
    BY DEF SInv, UpdateInv
  <2> QED BY <1>1, <1>4, <1>5, <2>1 DEF ValidOK, sees
<1> QED BY <1>1, <1>2, <1>3, <1>4, <1>5, <1>6, <1>7, <1>8, <1>9, TxnSerial

\* BEGIN: the transaction does not read yet.
LEMMA SerialBegin ==
    ASSUME Serial, Inv, SInv, NEW c \in Conns, Begin(c)
    PROVE  SInv'
<1>1. /\ P!Inv /\ TypeOK /\ PhaseOK(c) /\ (Start(c) \/ Continue(c)) /\ Ready(c) /\ ~ in_transaction(c)
      /\ Manager!begin /\ ctx' = [ctx EXCEPT ![c].xid = next_xid]
      /\ phase' = [phase EXCEPT ![c] = "begun"]
      /\ UNCHANGED <<store, next_id, updates, tombstones, lock, todo, buf, history>>
  BY InvFacts DEF Begin, Goto, Start
<1>2. /\ Effects({}) /\ next_xid \notin begun /\ begun' = begun \cup {next_xid}
      /\ next_xid' = next_xid + 1
  BY <1>1, BeginEffects
<1>3. /\ ctx \in [Conns -> Context] /\ phase \in [Conns -> Phase] /\ ctx[c] \in Context
      /\ ctx[c].savepoints = <<>> /\ ctx[c].released = <<>>
      /\ updates[c] = <<>> /\ tombstones[c] = <<>> /\ todo[c] = <<>>
  BY <1>1 DEF TypeOK, PhaseOK, Ready, EndPhase
<1>4. /\ ctx'[c].xid = next_xid /\ ctx'[c].savepoints = <<>> /\ ctx'[c].released = <<>>
      /\ phase'[c] = "begun" /\ Others(c) /\ base' = base /\ wrote' = wrote
  <2>1. ctx'[c] = [ctx[c] EXCEPT !.xid = next_xid]
    BY <1>1, <1>3
  <2>2. ctx'[c].xid = next_xid /\ ctx'[c].savepoints = <<>> /\ ctx'[c].released = <<>>
    BY <1>3, <2>1 DEF Context
  <2>3. phase'[c] = "begun" /\ Others(c) /\ base' = base /\ wrote' = wrote
    BY <1>1, <1>3 DEF Others, Same, history
  <2> QED BY <2>2, <2>3
<1>5. Xids(c)' \subseteq {next_xid} /\ journal(c)' = {} /\ ~ Reading(c)'
  BY <1>1, <1>3, <1>4, ToSetEmpty DEF Xids, txn_xids, group, auto_xids, journal, Reading
<1>6. ASSUME NEW id \in DOMAIN store PROVE OwnStamps(c, id)
  <2>1. \A x : ~ Keeps(c, id, x)'
    BY <1>4, <1>5 DEF Keeps
  <2>2. store'[id].xmax = store[id].xmax
    BY <1>1
  <2> QED BY <1>5, <2>1, <2>2 DEF OwnStamps, Stamp
<1>7. SameView(c)
  BY <1>5 DEF SameView
<1>8. SameRows({}) /\ DOMAIN store' = DOMAIN store
  BY <1>1 DEF SameRows
<1>9. Xids(c)' \subseteq Xids(c) \cup (begun' \ begun)
  BY <1>2, <1>5
<1>10. BegunOK(c)' /\ ValidOK(c)' /\ Fresh(c, {}) /\ Logs(c)
  BY <1>2, <1>4 DEF BegunOK, ValidOK, Fresh, Logs
<1>11. Leaves(c) /\ Finds(c)
  <2>1. txn_xids(c) = {} /\ Refs(c)' = {}
    BY <1>1, <1>3, <1>4, <1>5, ToSetEmpty DEF txn_xids, group, in_transaction, Refs
  <2> QED BY <2>1 DEF Leaves, Finds
<1>12. Calm(c, {}, {})
  BY <1>1, <1>2, <1>4, <1>6, <1>7, <1>8, <1>9, <1>10, <1>11, StepIdle DEF Calm
<1> QED BY <1>12, SerialStep

\* SAVEPOINT takes a new xid.
LEMMA SerialSavepoint ==
    ASSUME Serial, Inv, SInv, NEW c \in Conns, Savepoint(c)
    PROVE  SInv'
<1> DEFINE stack == Append(ctx[c].savepoints, next_xid)
<1>1. /\ P!Inv /\ TypeOK /\ PhaseOK(c) /\ (Start(c) \/ Continue(c)) /\ phase[c] = "idle"
      /\ in_transaction(c) /\ Manager!begin /\ ctx' = [ctx EXCEPT ![c].savepoints = stack]
      /\ UNCHANGED <<store, next_id, updates, tombstones, stmtVars, history>>
  BY InvFacts DEF Savepoint, ReadyInTransaction, Ready, Start
<1>2. /\ Effects({}) /\ next_xid \in 1..MaxXid /\ next_xid \notin begun
      /\ begun' = begun \cup {next_xid}
  BY <1>1, BeginEffects
<1>3. /\ ctx \in [Conns -> Context] /\ ctx[c] \in Context /\ ctx[c].savepoints \in Seq(1..MaxXid)
  BY <1>1 DEF TypeOK, Context
<1>4. ToSet(stack) = ToSet(ctx[c].savepoints) \cup {next_xid}
  <2> DEFINE S == 1..MaxXid
  <2>1. ctx[c].savepoints \in Seq(S) /\ next_xid \in S
    BY <1>2, <1>3
  <2> HIDE DEF S
  <2> QED BY <2>1, ToSetAppend
<1> HIDE DEF stack
<1>5. /\ ctx'[c].xid = ctx[c].xid /\ ctx'[c].savepoints = stack
      /\ ctx'[c].released = ctx[c].released /\ ctx'[c].snapshot = ctx[c].snapshot
  <2>1. ctx'[c] = [ctx[c] EXCEPT !.savepoints = stack]
    BY <1>1, <1>3
  <2> QED BY <1>3, <2>1 DEF Context
<1>6. /\ Others(c) /\ phase'[c] = "idle" /\ phase'[c] \in TxnPhase \ {"begun"}
      /\ base' = base /\ wrote' = wrote /\ ValidOK(c)'
  BY <1>1, <1>3 DEF Others, Same, stmtVars, history, TxnPhase, ValidOK
<1>7. txn_xids(c)' \subseteq txn_xids(c) \cup (begun' \ begun) /\ txn_xids(c) \subseteq txn_xids(c)'
  BY <1>1, <1>2, <1>4, <1>5 DEF group, txn_xids, in_transaction, stmtVars
<1>8. Reading(c) /\ Leaves(c)
  BY <1>1, <1>7 DEF Reading, Leaves
<1> QED BY <1>1, <1>2, <1>5, <1>6, <1>7, <1>8, QuietSerial

\* RELEASE and ROLLBACK TO keep the transaction's xids.
LEMMA SerialCut ==
    ASSUME Serial, Inv, SInv, NEW c \in Conns, Release(c) \/ RollbackTo(c)
    PROVE  SInv'
<1>1. /\ P!Inv /\ TypeOK /\ PhaseOK(c) /\ (Start(c) \/ Continue(c)) /\ phase[c] = "idle"
      /\ in_transaction(c)
      /\ UNCHANGED <<managerVars, store, next_id, updates, tombstones, buf, history>>
  BY InvFacts DEF Release, RollbackTo, ReadyInTransaction, Ready, Start, stmtVars
<1>2. /\ ctx \in [Conns -> Context] /\ ctx[c] \in Context /\ ctx[c].savepoints \in Seq(1..MaxXid)
      /\ ctx[c].released \in Seq(1..MaxXid) /\ todo[c] = <<>>
      /\ phase \in [Conns -> Phase] /\ todo \in [Conns -> Seq(1..MaxXid)]
  BY <1>1 DEF TypeOK, Context, PhaseOK, EndPhase
<1>i. PICK i \in 1..Len(ctx[c].savepoints) :
          LET p == SubSeq(ctx[c].savepoints, 1, i - 1)
              q == SubSeq(ctx[c].savepoints, i, Len(ctx[c].savepoints))
          IN  \/ /\ ctx' = [ctx EXCEPT ![c].savepoints = p, ![c].released = @ \o q]
                 /\ phase' = phase /\ todo' = todo
              \/ /\ ctx' = [ctx EXCEPT ![c].savepoints = p]
                 /\ phase' = [phase EXCEPT ![c] = "undoing"] /\ todo' = [todo EXCEPT ![c] = q]
  <2>1. CASE Release(c)
    BY <2>1 DEF Release, stmtVars
  <2>2. CASE RollbackTo(c)
    BY <2>2 DEF RollbackTo, Goto
  <2> QED BY <2>1, <2>2
<1> DEFINE p == SubSeq(ctx[c].savepoints, 1, i - 1)
           q == SubSeq(ctx[c].savepoints, i, Len(ctx[c].savepoints))
           r == ctx[c].released \o q
<1>3. Effects({})
  BY <1>1, FrameEffects
<1>4. /\ ToSet(ctx[c].savepoints) = ToSet(p) \cup ToSet(q)
      /\ ToSet(r) = ToSet(ctx[c].released) \cup ToSet(q)
  <2> DEFINE S == 1..MaxXid
  <2>1. ctx[c].savepoints \in Seq(S) /\ ctx[c].released \in Seq(S)
    BY <1>2
  <2> HIDE DEF S
  <2>2. q \in Seq(S) /\ ToSet(ctx[c].savepoints) = ToSet(p) \cup ToSet(q)
    BY <2>1, ToSetCut
  <2> HIDE DEF q
  <2> QED BY <2>1, <2>2, ToSetConcat
<1>i2. \/ /\ ctx' = [ctx EXCEPT ![c].savepoints = p, ![c].released = r]
          /\ phase' = phase /\ todo' = todo
       \/ /\ ctx' = [ctx EXCEPT ![c].savepoints = p]
          /\ phase' = [phase EXCEPT ![c] = "undoing"] /\ todo' = [todo EXCEPT ![c] = q]
  BY <1>i, <1>2
<1> HIDE DEF p, q, r
<1>5. /\ ctx'[c].xid = ctx[c].xid /\ ctx'[c].snapshot = ctx[c].snapshot /\ ctx'[c].savepoints = p
      /\ \/ ctx'[c].released = r /\ todo'[c] = todo[c]
         \/ ctx'[c].released = ctx[c].released /\ todo'[c] = q
  <2>1. CASE /\ ctx' = [ctx EXCEPT ![c].savepoints = p, ![c].released = r]
             /\ phase' = phase /\ todo' = todo
    <3>1. ctx'[c] = [ctx[c] EXCEPT !.savepoints = p, !.released = r]
      BY <1>2, <2>1
    <3> QED BY <1>2, <2>1, <3>1 DEF Context
  <2>2. CASE /\ ctx' = [ctx EXCEPT ![c].savepoints = p]
             /\ phase' = [phase EXCEPT ![c] = "undoing"] /\ todo' = [todo EXCEPT ![c] = q]
    <3>1. ctx'[c] = [ctx[c] EXCEPT !.savepoints = p] /\ todo'[c] = q
      BY <1>2, <2>2
    <3> QED BY <1>2, <3>1 DEF Context
  <2> QED BY <1>i2, <2>1, <2>2
<1>6. /\ Others(c) /\ phase'[c] \in {"idle", "undoing"} /\ phase'[c] \in TxnPhase \ {"begun"}
      /\ base' = base /\ wrote' = wrote /\ ValidOK(c)'
  BY <1>1, <1>2, <1>i2 DEF Others, Same, history, TxnPhase, ValidOK
<1>7. txn_xids(c)' = txn_xids(c)
  BY <1>1, <1>2, <1>4, <1>5, ToSetEmpty DEF group, txn_xids, in_transaction
<1>8. Reading(c) /\ Leaves(c)
  BY <1>1, <1>7 DEF Reading, Leaves
<1> QED BY <1>1, <1>3, <1>5, <1>6, <1>7, <1>8, QuietSerial

\* The conflict check finds a committed update that the snapshot does not show:
\* the version it has left is one of others, so no entry excludes it.
LEMMA CheckFinds ==
    ASSUME Inv, SInv, NEW c \in Conns, Reading(c), ~ check_table_row_write_conflicts(c),
           NEW w \in wrote, w.kind = "update", NEW e \in journal(c), e.id \in DOMAIN store,
           store[e.id].logical = w.row
    PROVE  sees(ctx[c].snapshot, w.xid)
<1> SUFFICES ASSUME ~ sees(ctx[c].snapshot, w.xid) PROVE FALSE
  OBVIOUS
<1>1. P!Inv /\ TypeOK /\ JournalOK(c) /\ LateOK(c) /\ WroteOK(c)
  BY InvFacts DEF SInv, UpdateInv
<1>2. PICK id \in DOMAIN store :
          store[id].logical = w.row /\ Late(c, id) /\ store[id].xmin \notin active
  BY <1>1 DEF WroteOK, Trace
<1>x. PICK x : x = store[id].xmin
  OBVIOUS
<1>3. x \in begun /\ x \notin txn_xids(c) /\ ~ sees(ctx[c].snapshot, x) /\ x \notin aborted
  BY <1>2, <1>x DEF Late, Foreign
<1>4. conflicting(c, x)
  <2>1. x \in Nat /\ x # 0
    BY <1>1, <1>3, ManagerFacts
  <2>2. x \notin own_xids(c)
    BY <1>1, <1>3, ContextFacts DEF txn_xids
  <2>3. ctx[c].snapshot.xid \in Nat
    BY SnapshotFacts
  <2>4. x > ctx[c].snapshot.xid \/ x \in ctx[c].snapshot.in_progress
    BY <1>3, <2>1, <2>3 DEF sees
  <2> QED BY <1>2, <1>3, <1>x, <2>1, <2>2, <2>4 DEF conflicting, XID_NONE
<1>5. id # e.id
  <2>1. e.id \in Refs(c)
    BY DEF Refs
  <2> QED BY <1>1, <1>2, <2>1 DEF LateOK
<1>6. CASE e \in ToSet(updates[c])
  <2>1. store[e.new].xmin \in txn_xids(c)
    BY <1>1, <1>6 DEF JournalOK
  <2>2. id \notin {e.id, e.new}
    BY <1>3, <1>5, <1>x, <2>1
  <2>3. entry_conflicts(c, e, {e.id, e.new})
    BY <1>2, <1>4, <1>x, <2>2 DEF entry_conflicts
  <2> QED BY <1>6, <2>3 DEF check_table_row_write_conflicts
<1>7. CASE e \in ToSet(tombstones[c])
  <2>1. entry_conflicts(c, e, {e.id})
    BY <1>2, <1>4, <1>5, <1>x DEF entry_conflicts
  <2> QED BY <1>7, <2>1 DEF check_table_row_write_conflicts
<1> QED BY <1>6, <1>7 DEF journal

\* ROLLBACK and COMMIT set out to end the transaction; UPDATE clones a version.
LEMMA SerialEnding ==
    ASSUME Serial, Inv, SInv, NEW c \in Conns, Rollback(c) \/ Validate(c) \/ UpdateRead(c)
    PROVE  SInv'
<1>1. /\ P!Inv /\ TypeOK /\ PhaseOK(c) /\ OrderOK(c) /\ (Start(c) \/ Continue(c)) /\ phase[c] = "idle"
      /\ in_transaction(c) /\ UNCHANGED <<managerVars, store, txnVars, lock, history>>
  BY InvFacts DEF Rollback, Validate, UpdateRead, ReadyInTransaction, Ready, Start
<1>2. /\ phase \in [Conns -> Phase] /\ todo \in [Conns -> Seq(1..MaxXid)] /\ todo[c] = <<>>
      /\ buf \in [Conns -> Buffer] /\ Effects({}) /\ Reading(c)
  BY <1>1, FrameEffects DEF TypeOK, PhaseOK, EndPhase, Reading
<1>3. CASE Rollback(c) \/ Validate(c)
  <2>1. todo' = [todo EXCEPT ![c] = ending_xids(c)] /\ buf' = buf
    BY <1>3 DEF Rollback, Validate
  <2>2. PICK to \in {"undoing", "validated"} : phase' = [phase EXCEPT ![c] = to]
    BY <1>3 DEF Rollback, Validate, Goto
  <2>3. ToSet(ending_xids(c)) = group(ctx[c])
    BY <1>1, EndingFacts
  <2>4. /\ ctx' = ctx /\ todo'[c] = ending_xids(c) /\ phase'[c] = to
        /\ phase'[c] \in TxnPhase \ {"begun"} /\ wrote' = wrote
        /\ Others(c) /\ base' = base /\ updates' = updates /\ tombstones' = tombstones
    BY <1>1, <1>2, <2>1, <2>2 DEF Others, Same, txnVars, history, TxnPhase
  <2>5. txn_xids(c)' = txn_xids(c) /\ Leaves(c)
    <3>1. txn_xids(c) = group(ctx[c]) /\ txn_xids(c)' = group(ctx[c])
      BY <1>2, <2>3, <2>4, ToSetEmpty DEF txn_xids
    <3> QED BY <3>1 DEF Leaves
  <2>6. ValidOK(c)'
    <3>1. CASE phase'[c] = "undoing"
      BY <3>1 DEF ValidOK
    <3>2. CASE phase'[c] # "undoing"
      <4>1. ~ check_table_row_write_conflicts(c)
        BY <1>2, <1>3, <3>2 DEF Rollback, Validate, Goto
      <4>2. store' = store /\ journal(c)' = journal(c)
        BY <1>1, <2>4 DEF journal
      <4> QED BY <1>2, <2>4, <4>1, <4>2, CheckFinds DEF ValidOK, sees
    <3> QED BY <3>1, <3>2
  <2> QED BY <1>1, <1>2, <2>4, <2>5, <2>6, QuietSerial
<1>4. CASE UpdateRead(c)
  <2>1. PICK id \in transaction_scan(c) :
            buf' = [buf EXCEPT ![c] = [id |-> id, new |-> next_id, xid |-> writer_xid(c),
                                       old |-> store[id]]]
    BY <1>4 DEF UpdateRead
  <2>2. todo' = todo /\ phase' = [phase EXCEPT ![c] = "updating"]
    BY <1>4 DEF UpdateRead, Goto
  <2>3. /\ ctx' = ctx /\ phase'[c] \in TxnPhase \ {"begun"} /\ Others(c) /\ base' = base
        /\ buf'[c].old = store[buf'[c].id] /\ updates' = updates /\ tombstones' = tombstones
        /\ buf'[c].id = id /\ phase'[c] = "updating" /\ wrote' = wrote
    BY <1>1, <1>2, <2>1, <2>2 DEF Others, Same, txnVars, history, TxnPhase
  <2>4. txn_xids(c)' = txn_xids(c) /\ Leaves(c) /\ ValidOK(c)'
    BY <2>2, <2>3 DEF txn_xids, Leaves, ValidOK
  <2>5. buf'[c].id \in DOMAIN store /\ ~ Late(c, buf'[c].id)
    BY <1>2, <2>1, <2>3, ScanNotLate
  <2> QED BY <1>1, <1>2, <2>3, <2>4, <2>5, QuietSerial
<1> QED BY <1>3, <1>4

\* ROLLBACK aborts an xid when nothing of it is left to undo.
LEMMA SerialAbortXid ==
    ASSUME Serial, Inv, SInv, NEW c \in Conns, AbortXid(c)
    PROVE  SInv'
<1> DEFINE x == Head(todo[c])
           t == Tail(todo[c])
<1>1. /\ P!Inv /\ TypeOK /\ (Start(c) \/ Continue(c)) /\ phase[c] = "undoing" /\ Manager!rollback(x)
      /\ todo' = [todo EXCEPT ![c] = t]
      /\ phase' = [phase EXCEPT ![c] = IF t = <<>> THEN "idle" ELSE "undoing"]
      /\ \/ ctx' = ctx /\ base' = base
         \/ /\ ctx' = [ctx EXCEPT ![c] = NoContext] /\ base' = [base EXCEPT ![c] = {}]
            /\ x = ctx[c].xid
      /\ UNCHANGED <<store, next_id, updates, tombstones, lock, buf, latest, wrote>>
  BY InvFacts DEF AbortXid, Goto, Continue, ForgetView
<1>2. Effects({x}) /\ aborted' = aborted \cup {x} /\ active' = active \ {x}
  BY <1>1, EndEffects
<1>3. /\ ctx \in [Conns -> Context] /\ phase \in [Conns -> Phase] /\ todo \in [Conns -> Seq(1..MaxXid)]
      /\ base \in [Conns -> SUBSET Ids]
  BY <1>1 DEF TypeOK
<1>4. todo[c] # <<>> /\ in_transaction(c)
  BY <1>1, UndoFacts
<1>5. ToSet(todo[c]) = {x} \cup ToSet(t)
  BY <1>1, <1>4, TodoFacts
<1>a. x = ctx[c].xid => txn_xids(c) \subseteq {x} \cup aborted
  <2> SUFFICES ASSUME x = ctx[c].xid PROVE txn_xids(c) \subseteq {x} \cup aborted
    OBVIOUS
  <2>1. x \in group(ctx[c]) /\ x \in ToSet(todo[c]) /\ x \in Nat
    BY <1>1, <1>4, <1>5, ContextFacts
  <2>2. Whole(c) /\ group(ctx[c]) \subseteq ToSet(todo[c]) \cup aborted
    <3>1. OrderOK(c)
      BY InvFacts
    <3>2. ~ Part(c)
      <4> HIDE DEF x
      <4>1. ~ (x < x)
        BY <2>1
      <4> QED BY <2>1, <4>1 DEF Part
    <3> QED BY <1>1, <1>4, <3>1, <3>2 DEF OrderOK
  <2>3. t = <<>>
    BY <1>1, <1>4, <2>2, TodoFacts
  <2> HIDE DEF t, x
  <2> QED BY <1>5, <2>2, <2>3, ToSetEmpty DEF txn_xids
<1> HIDE DEF x, t
<1>6. /\ todo'[c] = t /\ phase'[c] \in TxnPhase \ {"begun"} /\ Others(c)
      /\ phase'[c] = IF t = <<>> THEN "idle" ELSE "undoing"
      /\ \A d \in Conns \ {c} : base'[d] = base[d]
      /\ (ctx' = ctx /\ base' = base) \/ (ctx'[c] = NoContext /\ x = ctx[c].xid)
  BY <1>1, <1>3 DEF Others, Same, TxnPhase
<1>7. /\ txn_xids(c)' \subseteq txn_xids(c)
      /\ in_transaction(c)' => ctx' = ctx /\ base' = base
  BY <1>5, <1>6 DEF txn_xids, group, in_transaction, NoContext, XID_NONE
<1>8. \A y \in ToSet(todo[c]) : y \in aborted' \/ (phase'[c] = "undoing" /\ y \in ToSet(todo'[c]))
  BY <1>2, <1>5, <1>6, ToSetEmpty
<1>9. Reading(c) /\ phase'[c] # "updating" /\ ValidOK(c)'
  BY <1>1, <1>4, <1>6 DEF Reading, ValidOK
<1>10. Leaves(c)
  <2>1. CASE ctx' = ctx
    BY <1>2, <1>5, <1>6, <2>1 DEF Leaves, txn_xids
  <2>2. CASE ctx'[c] = NoContext /\ x = ctx[c].xid
    <3>1. ~ Reading(c)'
      BY <2>2 DEF Reading, in_transaction, NoContext
    <3> QED BY <1>1, <1>2, <1>a, <2>2, <3>1, ManagerFacts DEF Leaves
  <2> QED BY <1>6, <2>1, <2>2
<1> QED BY <1>1, <1>2, <1>6, <1>7, <1>8, <1>9, <1>10, QuietSerial

\* COMMIT commits an xid; with the parent's the transaction is over.
LEMMA SerialCommitXid ==
    ASSUME Serial, Inv, SInv, NEW c \in Conns, CommitXid(c)
    PROVE  SInv'
<1> DEFINE x == Head(todo[c])
           t == Tail(todo[c])
<1>1. /\ P!Inv /\ TypeOK /\ (Start(c) \/ Continue(c)) /\ phase[c] = "publishing" /\ Manager!commit(x)
      /\ todo' = [todo EXCEPT ![c] = t] /\ UNCHANGED <<store, next_id, buf>>
      /\ \/ UNCHANGED <<phase, txnVars, history>>
         \/ /\ phase' = [phase EXCEPT ![c] = "idle"] /\ ctx' = [ctx EXCEPT ![c] = NoContext]
            /\ updates' = [updates EXCEPT ![c] = <<>>] /\ tombstones' = [tombstones EXCEPT ![c] = <<>>]
            /\ base' = [base EXCEPT ![c] = {}] /\ x = ctx[c].xid
            /\ wrote' = wrote \cup [row : updated_rows(c), xid : {x}, kind : {"update"}]
                              \cup [row : deleted_rows(c), xid : {x}, kind : {"delete"}]
  BY InvFacts DEF CommitXid, Goto, Continue, ForgetView
<1>2. Effects({x}) /\ active' = active \ {x} /\ aborted' = aborted
  BY <1>1, EndEffects
<1>3. /\ ctx \in [Conns -> Context] /\ phase \in [Conns -> Phase] /\ todo \in [Conns -> Seq(1..MaxXid)]
      /\ base \in [Conns -> SUBSET Ids] /\ updates \in [Conns -> Seq(Update)]
      /\ tombstones \in [Conns -> Seq(Tombstone)]
  BY <1>1 DEF TypeOK
<1>4. /\ in_transaction(c) /\ ToSet(todo[c]) = {x} \cup ToSet(t)
      /\ x = ctx[c].xid => t = <<>>
      /\ txn_xids(c) = group(ctx[c])
  BY <1>1, PublishingFacts
<1>5. Reading(c)
  BY <1>1, <1>4 DEF Reading
<1> HIDE DEF x, t
<1>6. CASE UNCHANGED <<phase, txnVars, history>>
  <2>1. /\ todo'[c] = t /\ phase'[c] = "publishing" /\ phase'[c] \in TxnPhase \ {"begun"} /\ Others(c)
        /\ ctx' = ctx /\ base' = base /\ updates' = updates /\ tombstones' = tombstones
        /\ wrote' = wrote
    BY <1>1, <1>3, <1>6 DEF Others, Same, TxnPhase, txnVars, history
  <2>2. txn_xids(c)' \subseteq txn_xids(c)
    BY <1>4, <2>1 DEF txn_xids
  <2>3. Leaves(c)
    <3>1. txn_xids(c) \subseteq txn_xids(c)'
      BY <1>4, <2>1 DEF txn_xids
    <3> QED BY <3>1 DEF Leaves
  <2>4. ValidOK(c)'
    <3>1. ValidOK(c) /\ journal(c)' = journal(c) /\ store' = store
      BY <1>1, <2>1 DEF SInv, UpdateInv, journal
    <3> QED BY <1>1, <2>1, <3>1 DEF ValidOK, sees
  <2> QED BY <1>1, <1>2, <1>5, <2>1, <2>2, <2>3, <2>4, QuietSerial
<1>7. CASE /\ phase' = [phase EXCEPT ![c] = "idle"] /\ ctx' = [ctx EXCEPT ![c] = NoContext]
           /\ updates' = [updates EXCEPT ![c] = <<>>] /\ tombstones' = [tombstones EXCEPT ![c] = <<>>]
           /\ base' = [base EXCEPT ![c] = {}] /\ x = ctx[c].xid
           /\ wrote' = wrote \cup [row : updated_rows(c), xid : {x}, kind : {"update"}]
                             \cup [row : deleted_rows(c), xid : {x}, kind : {"delete"}]
  <2>1. /\ todo'[c] = <<>> /\ phase'[c] = "idle" /\ phase'[c] \in TxnPhase \ {"begun"} /\ Others(c)
        /\ ctx'[c] = NoContext /\ updates'[c] = <<>> /\ tombstones'[c] = <<>>
        /\ \A d \in Conns \ {c} : base'[d] = base[d]
    BY <1>1, <1>3, <1>4, <1>7 DEF Others, Same, TxnPhase
  <2>2. journal(c)' = {} /\ txn_xids(c)' = {} /\ ~ in_transaction(c)'
    BY <2>1, ToSetEmpty DEF journal, txn_xids, group, in_transaction, NoContext, XID_NONE
  <2>3. SameRows({}) /\ DOMAIN store' = DOMAIN store
    BY <1>1 DEF SameRows
  <2>4. \A id \in DOMAIN store : Stamp(id, store'[id].xmax)
    BY <1>1 DEF Stamp
  <2>5. ~ Reading(c)' /\ Fresh(c, {}) /\ Finds(c) /\ ValidOK(c)'
    BY <2>1, <2>2 DEF Reading, Fresh, Finds, Refs, ValidOK
  <2>6. \A y \in txn_xids(c) : y \notin active' \cup aborted'
    <3>1. ToSet(todo[c]) = {x}
      BY <1>4, <1>7, ToSetEmpty
    <3> QED BY <1>1, <1>2, <1>4, <3>1, InvFacts DEF XidOK
  <2>7. Leaves(c)
    BY <2>5, <2>6 DEF Leaves
  <2>8. Logs(c)
    <3>1. x \in Xids(c) \ active'
      BY <1>2, <1>4 DEF Xids, txn_xids
    <3>2. ASSUME NEW w \in wrote', w \notin wrote PROVE w.xid = x /\ (w.kind = "update" => Left(c, w))
      <4>1. CASE w \in [row : updated_rows(c), xid : {x}, kind : {"update"}]
        <5>1. w.xid = x /\ w.row \in updated_rows(c)
          BY <4>1
        <5>2. PICK e \in ToSet(updates[c]) : w.row = store[e.new].logical
          BY <5>1 DEF updated_rows
        <5>3. e.new \in DOMAIN store /\ store[e.new].xmin \in txn_xids(c)
          BY InvFacts DEF JournalOK, journal
        <5>4. Left(c, w)
          BY <1>1, <2>6, <5>2, <5>3 DEF Left, Xids
        <5> QED BY <5>1, <5>4
      <4>2. CASE w \in [row : deleted_rows(c), xid : {x}, kind : {"delete"}]
        <5>1. w.xid = x /\ w.kind = "delete"
          BY <4>2
        <5> QED BY <5>1
      <4> QED BY <1>7, <3>2, <4>1, <4>2
    <3> QED BY <2>5, <3>1, <3>2 DEF Logs
  <2> QED BY <1>1, <1>2, <1>5, <2>1, <2>2, <2>3, <2>4, <2>5, <2>7, <2>8, TxnSerial
<1> QED BY <1>1, <1>6, <1>7

\* BEGIN takes its snapshot.  What the others have open is in progress in it,
\* and the last committed versions carry no stamps but those of aborted and of
\* open transactions.
LEMMA SerialCapture ==
    ASSUME Serial, Inv, SInv, NEW c \in Conns, Capture(c)
    PROVE  SInv'
<1>s. PICK s : s = Manager!captured_snapshot(ctx[c].xid)
  OBVIOUS
<1>1. /\ P!Inv /\ TypeOK /\ PhaseOK(c) /\ XidOK(c) /\ (Start(c) \/ Continue(c)) /\ phase[c] = "begun"
      /\ Manager!snapshot(ctx[c].xid) /\ ctx' = [ctx EXCEPT ![c].snapshot = s]
      /\ phase' = [phase EXCEPT ![c] = "idle"]
      /\ UNCHANGED <<store, next_id, updates, tombstones, lock, todo, buf, latest, wrote>>
  BY <1>s, InvFacts DEF Capture, Goto, Continue
<1>2. /\ Effects({}) /\ active' = active /\ aborted' = aborted /\ begun' = begun
  BY <1>1, CaptureEffects
<1>3. /\ ctx \in [Conns -> Context] /\ ctx[c] \in Context /\ phase \in [Conns -> Phase]
      /\ view \in [Conns -> SUBSET Ids] /\ base \in [Conns -> SUBSET Ids]
      /\ updates[c] = <<>> /\ tombstones[c] = <<>>
  BY <1>1 DEF TypeOK, PhaseOK
<1>4. /\ ctx'[c].xid = ctx[c].xid /\ ctx'[c].savepoints = ctx[c].savepoints
      /\ ctx'[c].released = ctx[c].released /\ ctx'[c].snapshot = s
      /\ phase'[c] = "idle" /\ Others(c)
  <2>1. ctx'[c] = [ctx[c] EXCEPT !.snapshot = s]
    BY <1>1, <1>3
  <2>2. /\ ctx'[c].xid = ctx[c].xid /\ ctx'[c].savepoints = ctx[c].savepoints
        /\ ctx'[c].released = ctx[c].released /\ ctx'[c].snapshot = s
    BY <1>3, <2>1 DEF Context
  <2>3. phase'[c] = "idle" /\ Others(c)
    BY <1>1, <1>3 DEF Others, Same
  <2> QED BY <2>2, <2>3
<1>5. /\ txn_xids(c)' = txn_xids(c) /\ auto_xids(c)' = {} /\ Xids(c)' \subseteq Xids(c)
      /\ journal(c) = {} /\ journal(c)' = {} /\ ctx[c].xid \in Xids(c)
  <2>1. ctx[c].xid # XID_NONE
    BY <1>1 DEF PhaseOK, in_transaction, AutoPhase
  <2> QED BY <1>1, <1>3, <1>4, <2>1, ToSetEmpty DEF txn_xids, Xids, auto_xids, group, journal
<1>6. base'[c] = scan(s, {ctx[c].xid}) \cap {latest[r] : r \in Ids}
      /\ \A d \in Conns \ {c} : base'[d] = base[d]
  <2>1. view'[c] = scan(s, {ctx[c].xid})
    BY <1>s, <1>3 DEF Capture
  <2> QED BY <1>3, <2>1 DEF Capture
\* The others are idle, and their xids are in progress.
<1>d. ASSUME NEW d \in Conns, d # c
      PROVE  /\ Same(d) /\ ctx'[d] = ctx[d] /\ phase[d] = "idle" /\ phase'[d] = "idle"
             /\ Xids(d)' = Xids(d) /\ txn_xids(d)' = txn_xids(d) /\ txn_xids(d) \subseteq Xids(d)
             /\ Reading(d)' <=> Reading(d)
             /\ Xids(d) \subseteq begun /\ Xids(d) \cap Xids(c) = {} /\ Xids(d) \subseteq s.in_progress
             /\ \A id, x : Keeps(d, id, x)' <=> Keeps(d, id, x)
             /\ \A id, x : Answers(d, id, x) => x \in Xids(d)
             /\ Refs(d)' = Refs(d)
  <2>1. Same(d) /\ phase[d] = "idle" /\ XidOK(d) /\ JournalOK(d)
    BY <1>1, <1>4, <1>d, StepIdle, InvFacts DEF Others
  <2>2. /\ Xids(d)' = Xids(d) /\ txn_xids(d)' = txn_xids(d) /\ journal(d)' = journal(d)
        /\ (in_transaction(d)' <=> in_transaction(d))
    BY <2>1, SameFacts
  <2>3. auto_xids(d) = {} /\ txn_xids(d) \subseteq active
    BY <2>1 DEF auto_xids, XidOK
  <2>4. Xids(d) \subseteq active /\ Xids(d) \subseteq begun /\ Xids(d) \cap Xids(c) = {}
    BY <1>d, <2>1, <2>3 DEF Xids, XidOK, Inv, StateInv, OwnerInv
  <2>5. Xids(d) \subseteq s.in_progress
    BY <1>s, <1>5, <2>4 DEF Manager!captured_snapshot
  <2>6. \A id, x : Keeps(d, id, x)' <=> Keeps(d, id, x)
    BY <2>1, <2>2 DEF Keeps, Same
  <2>7. \A id, x : Answers(d, id, x) => x \in Xids(d)
    BY <2>1 DEF Answers, JournalOK, Xids
  <2>8. /\ txn_xids(d) \subseteq Xids(d) /\ ctx'[d] = ctx[d] /\ phase'[d] = "idle"
        /\ Refs(d)' = Refs(d)
    BY <2>1, <2>2 DEF Xids, Same, Refs
  <2> QED BY <2>1, <2>2, <2>4, <2>5, <2>6, <2>7, <2>8 DEF Reading
<1>7. SerialInv'
  BY <1>d DEF SerialInv
<1>8. UnseenInv'
  <2> SUFFICES ASSUME NEW a \in Conns, NEW b \in Conns, a # b, Reading(a)', NEW x \in Xids(b)'
               PROVE  ~ sees(ctx'[a].snapshot, x)
    BY DEF UnseenInv, UnseenOK, sees
  <2>1. CASE a = c
    <3>1. x \in s.in_progress
      BY <1>d, <2>1
    <3> QED BY <1>4, <2>1, <3>1 DEF sees
  <2>2. CASE a # c
    <3>1. Reading(a) /\ ctx'[a] = ctx[a] /\ x \in Xids(b)
      BY <1>5, <1>d, <2>2
    <3> QED BY <3>1 DEF SInv, UnseenInv, UnseenOK
  <2> QED BY <2>1, <2>2
<1>9. \A id, x : Stamp(id, x)' => Stamp(id, x)
  <2>1. \A id, x : ~ Keeps(c, id, x)'
    BY <1>4, <1>5 DEF Keeps
  <2> QED BY <1>1, <1>d, <2>1 DEF Stamp
\* What the others are spared, they stay spared; c is spared the stamps on the
\* versions that are current.
<1>o. ASSUME NEW a \in Conns, a # c, NEW id, StampsSpared(a, id) PROVE StampsSpared(a, id)'
  <2> SUFFICES ASSUME NEW x \in 0..MaxXid, Stamp(id, x)' PROVE Spared(a, id, x)'
    BY DEF StampsSpared
  <2>1. Spared(a, id, x)
    BY <1>9, <1>o DEF StampsSpared
  <2> QED BY <1>2, <1>d, <1>o, <2>1, SparedOther
<1>c. ASSUME NEW id \in DOMAIN store, Current(id) PROVE StampsSpared(c, id)'
  <2> SUFFICES ASSUME NEW x \in 0..MaxXid, Stamp(id, x)' PROVE Spared(c, id, x)'
    BY DEF StampsSpared
  <2>1. Accounted(id, x)
    BY <1>9, <1>c DEF Inv, StateInv, StampInv
  <2>2. CASE x = XID_NONE \/ x \in aborted
    BY <1>2, <2>2 DEF Spared
  <2>3. CASE \E d \in Conns : Answers(d, id, x)
    <3>1. PICK d \in Conns : Answers(d, id, x)
      BY <2>3
    <3>2. d # c
      BY <1>1, <1>5, <3>1 DEF Answers
    <3>3. x \in Xids(d)
      BY <1>d, <3>1, <3>2
    <3>4. x \in begun /\ x \notin txn_xids(c)' /\ x \in s.in_progress
      BY <1>5, <1>d, <3>2, <3>3 DEF Xids
    <3> QED BY <1>2, <1>4, <3>4 DEF Spared, Foreign, sees
  <2> QED BY <2>1, <2>2, <2>3 DEF Accounted
<1>10. ASSUME NEW a \in Conns, a # c, Reading(a)', NEW id \in base'[a] PROVE VersionOK(a, id)'
  <2>1. VersionOK(a, id)
    BY <1>6, <1>d, <1>10 DEF SInv, BaseInv, BaseOK
  <2>2. StampsSpared(a, id)'
    BY <1>10, <1>o, <2>1 DEF VersionOK
  <2>3. id \in DOMAIN store' /\ (store'[id].xmin # XID_NONE =>
           sees(ctx'[a].snapshot, store'[id].xmin) /\ store'[id].xmin \notin active' \cup aborted')
    BY <1>1, <1>2, <1>10, <1>d, <2>1 DEF VersionOK
  <2> QED BY <2>2, <2>3 DEF VersionOK, sees
<1>11. ASSUME NEW id \in base'[c] PROVE VersionOK(c, id)'
  <2>1. PICK r \in Ids : latest[r] = id
    BY <1>6, <1>11
  <2>2. id \in DOMAIN store /\ visible(s, {ctx[c].xid}, store[id]) /\ id # 0
    <3>1. id \in scan(s, {ctx[c].xid})
      BY <1>6, <1>11
    <3>2. id \in DOMAIN store /\ visible(s, {ctx[c].xid}, store[id])
      BY <3>1 DEF scan
    <3> QED BY <1>1, <3>2, TypeFacts DEF Ids
  <2>3. Settled(store[id].xmin) /\ Current(id)
    BY <2>1, <2>2 DEF Inv, StateInv, LatestInv, LatestOK, Current
  <2>4. store[id].xmin # XID_NONE =>
           sees(s, store[id].xmin) /\ store[id].xmin \notin active \cup aborted
    <3> SUFFICES ASSUME store[id].xmin # XID_NONE
                 PROVE  sees(s, store[id].xmin) /\ store[id].xmin \notin active \cup aborted
      OBVIOUS
    <3>1. store[id].xmin \notin active \cup aborted
      BY <2>3 DEF Settled
    <3>2. ctx[c].xid \in active
      BY <1>1, CaptureEffects
    <3> QED BY <2>2, <3>1, <3>2 DEF visible, Manager!visibility_check, Manager!is_visible,
                                    Manager!XID_NONE, XID_NONE, sees
  <2>5. StampsSpared(c, id)'
    BY <1>c, <2>2, <2>3
  <2>6. id \in DOMAIN store' /\ (store'[id].xmin # XID_NONE =>
           sees(ctx'[c].snapshot, store'[id].xmin) /\ store'[id].xmin \notin active' \cup aborted')
    BY <1>1, <1>2, <1>4, <2>2, <2>4
  <2> QED BY <2>5, <2>6 DEF VersionOK, sees
<1>12. BaseInv'
  BY <1>10, <1>11 DEF BaseInv, BaseOK
<1>13. /\ UpdateInv /\ BegunOK(c) /\ DoneInv /\ OwnedInv /\ wrote' = wrote /\ store' = store
  BY <1>1 DEF SInv, UpdateInv, Capture
\* The snapshot shows every xid that is not active: nobody has begun since c.
<1>14. ASSUME NEW x \in begun, ~ sees(s, x) PROVE x \in active
  <2>1. /\ s.xid = ctx[c].xid /\ s.in_progress \subseteq active \cup Manager!pool_slots
    BY <1>s DEF Manager!captured_snapshot
  <2>2. x \in Nat /\ x < next_xid /\ x \notin Manager!pool_slots
    BY <1>1, <1>14, ManagerFacts
  <2>3. next_xid = ctx[c].xid + 1 /\ ctx[c].xid \in Nat
    BY <1>1, <1>13, ContextFacts DEF BegunOK
  <2>4. x <= s.xid
    BY <2>1, <2>2, <2>3
  <2> QED BY <1>14, <2>1, <2>2, <2>4 DEF sees
<1>15. LateOK(c)' /\ WroteOK(c)'
  <2>1. Refs(c)' = {}
    BY <1>4, <1>5 DEF Refs
  <2>2. ASSUME NEW id \in DOMAIN store', Late(c, id)' PROVE StampsSpared(c, id)'
    <3>1. store[id].xmin \in begun /\ ~ sees(s, store[id].xmin)
      BY <1>2, <1>4, <1>13, <2>2 DEF Late, Foreign, sees
    <3>2. store[id].xmin \in active
      BY <1>14, <3>1
    <3>3. Current(id)
      BY <1>13, <3>2 DEF OwnedInv, Current
    <3> QED BY <1>13, <1>c, <3>3
  <2>3. ASSUME NEW w \in wrote' PROVE sees(s, w.xid)
    BY <1>13, <1>14 DEF DoneInv
  <2>4. LateOK(c)'
    BY <2>1, <2>2 DEF LateOK
  <2>5. WroteOK(c)'
    BY <1>4, <2>3 DEF WroteOK, sees
  <2> QED BY <2>4, <2>5
<1>16. ASSUME NEW a \in Conns, a # c PROVE LateOK(a)' /\ WroteOK(a)'
  <2>1. /\ ctx'[a] = ctx[a] /\ txn_xids(a)' = txn_xids(a) /\ (Reading(a)' <=> Reading(a))
        /\ Refs(a)' = Refs(a) /\ LateOK(a) /\ WroteOK(a)
    BY <1>13, <1>16, <1>d DEF UpdateInv
  <2>2. \A id : Late(a, id)' <=> Late(a, id)
    BY <1>2, <1>13, <2>1 DEF Late, Foreign, sees
  <2>3. LateOK(a)'
    BY <1>13, <1>16, <1>o, <2>1, <2>2 DEF LateOK
  <2>4. WroteOK(a)'
    BY <1>2, <1>13, <2>1, <2>2 DEF WroteOK, Trace, sees
  <2> QED BY <2>3, <2>4
<1>17. ASSUME NEW a \in Conns PROVE ValidOK(a)' /\ BegunOK(a)'
  BY <1>4, <1>d DEF ValidOK, BegunOK
<1>18. DoneInv' /\ OwnedInv'
  <2>1. \A d \in Conns : txn_xids(d)' = txn_xids(d)
    BY <1>5, <1>d
  <2> QED BY <1>2, <1>13, <2>1 DEF DoneInv, OwnedInv
<1>19. UpdateInv'
  BY <1>15, <1>16, <1>17, <1>18 DEF UpdateInv
<1> QED BY <1>7, <1>8, <1>12, <1>19 DEF SInv

-----------------------------------------------------------------------------
(* The reclaimer.                                                          *)

\* A version of a writer that has not aborted is not reclaimed while an open
\* transaction is spared its stamp: one that its snapshot does not show is not
\* below the cutoff.
LEMMA SparedNotReclaimable ==
    ASSUME Inv, lock = NoConn, NEW c \in Conns, Reading(c), NEW k \in DOMAIN store,
           store[k].xmin \notin aborted, StampsSpared(c, k)
    PROVE  ~ Manager!reclaimable(cutoff_xid, store[k].xmin, store[k].xmax)
<1> DEFINE x == store[k].xmax
           s == ctx[c].snapshot
           h == snapshot_horizons[ctx[c].xid]
<1>1. P!Inv /\ TypeOK
  BY InvFacts
<1>2. x \in 0..MaxXid /\ x \in Nat
  BY <1>1, TypeFacts
<1>4. Spared(c, k, x)
  BY <1>1, <1>2 DEF StampsSpared, Stamp
<1>5. /\ s.xid = ctx[c].xid /\ ctx[c].xid \in Nat /\ ctx[c].xid \in 1..MaxXid
      /\ h \in Nat /\ h > 0 /\ h <= ctx[c].xid /\ \A y \in s.in_progress : h <= y
  BY SnapshotFacts
<1>6. cutoff_xid \in Nat /\ cutoff_xid <= h
  <2>1. h \in P!required_xids
    BY <1>5 DEF P!required_xids, P!Xid
  <2> QED BY <1>1, <2>1, CutoffFacts
<1> HIDE DEF x, s, h
<1>7. ASSUME x # XID_NONE, x \notin aborted PROVE ~ (x < cutoff_xid)
  <2>1. CASE ~ sees(s, x)
    <3>1. h <= x
      <4>1. CASE x \in s.in_progress
        BY <1>5, <4>1
      <4>2. CASE ~ (x <= s.xid)
        BY <1>2, <1>5, <4>2
      <4> QED BY <2>1, <4>1, <4>2 DEF sees
    <3> QED BY <1>2, <1>5, <1>6, <3>1
  <2>2. CASE Answers(c, k, x)
    <3>1. x \in active
      BY <1>7, <2>2, AnswersFacts
    <3>2. cutoff_xid <= x
      BY <1>1, <3>1, CutoffFacts DEF P!required_xids
    <3> QED BY <1>2, <1>6, <3>2
  <2> QED BY <1>4, <1>7, <2>1, <2>2 DEF Spared, Foreign, s
<1> QED BY <1>2, <1>7 DEF Manager!reclaimable, Manager!XID_NONE, XID_NONE, x

\* So the reclaimer takes nothing that an open transaction saw.
LEMMA SerialReclaim ==
    ASSUME Inv, SInv, Reclaim
    PROVE  SInv'
<1>1. /\ lock = NoConn /\ UNCHANGED <<managerVars, next_id, txnVars, stmtVars, history>> /\ P!Inv
  BY DEF Reclaim, Discard, Inv
<1>k. PICK k \in DOMAIN store :
          /\ Manager!reclaimable(cutoff_xid, store[k].xmin, store[k].xmax)
          /\ store' = [i \in DOMAIN store \ {k} |-> store[i]]
  BY DEF Reclaim, Discard
<1>2. DOMAIN store' = DOMAIN store \ {k} /\ \A i \in DOMAIN store' : store'[i] = store[i]
  BY <1>k
<1>3. /\ Effects({}) /\ active' = active /\ aborted' = aborted /\ begun' = begun
  BY <1>1, FrameEffects
<1>4. /\ base' = base /\ ctx' = ctx /\ phase' = phase /\ wrote' = wrote
      /\ next_xid' = next_xid /\ \A d \in Conns : Same(d)
  BY <1>1 DEF Same, txnVars, stmtVars, history, managerVars
<1>5. ASSUME NEW d \in Conns
      PROVE  /\ Xids(d)' = Xids(d) /\ txn_xids(d)' = txn_xids(d) /\ journal(d)' = journal(d)
             /\ Refs(d)' = Refs(d) /\ (Reading(d)' <=> Reading(d))
             /\ \A id, x : Keeps(d, id, x)' <=> Keeps(d, id, x)
  <2>1. /\ Same(d) /\ Xids(d)' = Xids(d) /\ txn_xids(d)' = txn_xids(d) /\ journal(d)' = journal(d)
        /\ (in_transaction(d)' <=> in_transaction(d))
    BY <1>4, SameFacts
  <2> QED BY <2>1 DEF Reading, Keeps, Same, Refs
<1>6. SerialInv' /\ UnseenInv'
  BY <1>4, <1>5 DEF SInv, SerialInv, UnseenInv, UnseenOK, sees
<1>s. ASSUME NEW c \in Conns, NEW id \in DOMAIN store', StampsSpared(c, id)
      PROVE  StampsSpared(c, id)'
  <2> SUFFICES ASSUME NEW x \in 0..MaxXid, Stamp(id, x)' PROVE Spared(c, id, x)'
    BY DEF StampsSpared
  <2>1. Stamp(id, x)
    BY <1>2, <1>5 DEF Stamp
  <2> QED BY <1>3, <1>4, <1>s, <2>1, SparedOther DEF StampsSpared
<1>7. ASSUME NEW c \in Conns, Reading(c)', NEW id \in base'[c] PROVE VersionOK(c, id)'
  <2>1. Reading(c) /\ id \in base[c] /\ VersionOK(c, id)
    BY <1>4, <1>5, <1>7 DEF SInv, BaseInv, BaseOK
  <2>2. id \in DOMAIN store' /\ store'[id] = store[id]
    <3>1. id \in DOMAIN store /\ store[id].xmin \notin aborted /\ StampsSpared(c, id)
      BY <1>1, <2>1, ManagerFacts DEF VersionOK, XID_NONE
    <3> QED BY <1>1, <1>k, <1>2, <2>1, <3>1, SparedNotReclaimable
  <2>3. StampsSpared(c, id)'
    BY <1>s, <2>1, <2>2 DEF VersionOK
  <2>4. store'[id].xmin # XID_NONE =>
           sees(ctx'[c].snapshot, store'[id].xmin) /\ store'[id].xmin \notin active' \cup aborted'
    BY <1>3, <1>4, <2>1, <2>2 DEF VersionOK
  <2> QED BY <2>2, <2>3, <2>4 DEF VersionOK, sees
<1>8. BaseInv'
  BY <1>7 DEF BaseInv, BaseOK
<1>9. ASSUME NEW a \in Conns PROVE LateOK(a)' /\ WroteOK(a)' /\ ValidOK(a)' /\ BegunOK(a)'
  <2>1. LateOK(a) /\ WroteOK(a) /\ ValidOK(a) /\ BegunOK(a)
    BY DEF SInv, UpdateInv
  <2>2. \A id \in DOMAIN store' : Late(a, id)' <=> Late(a, id)
    BY <1>2, <1>3, <1>4, <1>5 DEF Late, Foreign, sees
  <2>3. LateOK(a)'
    BY <1>2, <1>5, <1>s, <2>1, <2>2 DEF LateOK
  <2>4. WroteOK(a)'
    <3> SUFFICES ASSUME Reading(a)', NEW w \in wrote', w.kind = "update",
                        ~ sees(ctx'[a].snapshot, w.xid)
                 PROVE  Trace(a, w)'
      BY DEF WroteOK, sees
    <3>1. PICK id \in DOMAIN store :
              store[id].logical = w.row /\ Late(a, id) /\ store[id].xmin \notin active
      BY <1>4, <1>5, <2>1 DEF WroteOK, Trace
    <3>2. Reading(a) /\ StampsSpared(a, id) /\ store[id].xmin \notin aborted
      BY <1>5, <2>1, <3>1 DEF LateOK, Late
    <3>3. id \in DOMAIN store'
      BY <1>1, <1>k, <1>2, <3>2, SparedNotReclaimable
    <3> QED BY <1>2, <1>3, <2>2, <3>1, <3>3 DEF Trace
  <2>5. ValidOK(a)'
    BY <1>2, <1>4, <1>5, <2>1 DEF ValidOK, sees
  <2> QED BY <1>4, <2>1, <2>3, <2>4, <2>5 DEF BegunOK
<1>10. DoneInv' /\ OwnedInv'
  BY <1>2, <1>3, <1>4, <1>5 DEF SInv, UpdateInv, DoneInv, OwnedInv
<1>11. UpdateInv'
  BY <1>9, <1>10 DEF UpdateInv
<1> QED BY <1>6, <1>8, <1>11 DEF SInv

-----------------------------------------------------------------------------
(* The invariant holds initially and is preserved.                         *)

\* Nobody is in a transaction.
LEMMA SerialInit == Init => SInv
<1> SUFFICES ASSUME Init PROVE SInv
  OBVIOUS
<1>1. \A c \in Conns : phase[c] = "idle" /\ ~ in_transaction(c)
  BY DEF Init, in_transaction, NoContext
<1>2. wrote = {} /\ active = {}
  BY DEF Init, Manager!Init
<1>3. UpdateInv
  BY <1>1, <1>2 DEF UpdateInv, LateOK, WroteOK, ValidOK, BegunOK, DoneInv, OwnedInv, Reading
<1> QED BY <1>1, <1>3 DEF SInv, SerialInv, UnseenInv, UnseenOK, BaseInv, BaseOK, Reading

\* Every step preserves it.
LEMMA SerialNext == Serial /\ Inv /\ SInv /\ [Next]_vars => SInv'
<1> SUFFICES ASSUME Serial, Inv, SInv, [Next]_vars PROVE SInv'
  OBVIOUS
<1>1. ASSUME NEW c \in Conns, Start(c) PROVE SInv'
  BY <1>1, SerialBegin, SerialSavepoint, SerialCut, SerialEnding, SerialWrite, SerialAutoFrame,
     SerialAutoQuiet, SerialAutoDelete DEF Start
<1>2. ASSUME NEW c \in Conns, Continue(c) PROVE SInv'
  BY <1>2, SerialCapture, SerialUndo, SerialAbortXid, SerialPublish, SerialCommitXid, SerialWrite,
     SerialAutoQuiet, SerialAutoUpdatePersist, SerialAutoDeleteEnd, SerialAutoInsertPersist,
     SerialAutoFrame DEF Continue
<1>3. CASE Reclaim
  BY <1>3, SerialReclaim
<1>4. CASE UNCHANGED vars
  <2>1. SInv' <=> SInv
    BY <1>4 DEF vars, managerVars, txnVars, stmtVars, history, SInv, SerialInv, UnseenInv, UnseenOK,
         BaseInv, BaseOK, Reading, VersionOK, StampsSpared, Spared, Foreign, Stamp, Keeps, Answers,
         journal, in_transaction, Xids, txn_xids, auto_xids, UpdateInv, LateOK, Late, Refs, WroteOK,
         Trace, ValidOK, BegunOK, DoneInv, OwnedInv
  <2> QED BY <2>1
<1> QED BY <1>1, <1>2, <1>3, <1>4 DEF Next

-----------------------------------------------------------------------------
(* The theorem.                                                            *)

\* Between and inside its statements a transaction sees what it saw at BEGIN:
\* a stamp is hidden by the snapshot, or it is on a row that it has written.
LEMMA SerialVisible == Inv /\ SInv => CapturedStaysVisible
<1> SUFFICES ASSUME Inv, SInv, NEW c \in Conns, in_transaction(c), phase[c] \in {"idle", "updating"},
                    NEW id \in base[c]
             PROVE  /\ id \in DOMAIN store
                    /\ store[id].logical \in touched(c) \/ id \in transaction_scan(c)
  BY DEF CapturedStaysVisible
<1> DEFINE s == ctx[c].snapshot
           x == store[id].xmin
           y == store[id].xmax
<1>1. P!Inv /\ TypeOK /\ JournalOK(c) /\ XidOK(c) /\ VersionOK(c, id)
  BY InvFacts DEF SInv, BaseInv, BaseOK, Reading
<1>2. id \in DOMAIN store /\ x \in Nat /\ y \in 0..MaxXid /\ y \in Nat
  BY <1>1, TypeFacts DEF VersionOK
<1>3. /\ x # XID_NONE => sees(s, x) /\ x \notin active \cup aborted
      /\ Spared(c, id, y)
  BY <1>1, <1>2 DEF VersionOK, StampsSpared, Stamp
<1>4. own_xids(c) = group(ctx[c]) /\ group(ctx[c]) \subseteq txn_xids(c) /\ 0 \notin own_xids(c)
      /\ 0 \notin aborted
  BY <1>1, ContextFacts, ManagerFacts DEF txn_xids
<1>5. ASSUME Answers(c, id, y) PROVE store[id].logical \in touched(c)
  <2>1. PICK e \in journal(c) : e.id = id /\ e.xid = y
    BY <1>5 DEF Answers
  <2>2. CASE e \in ToSet(updates[c])
    BY <1>1, <1>2, <2>1, <2>2 DEF JournalOK, touched, updated_rows
  <2>3. CASE e \in ToSet(tombstones[c])
    BY <1>2, <2>1, <2>3 DEF touched, deleted_rows
  <2> QED BY <2>1, <2>2, <2>3 DEF journal
<1>6. ASSUME ~ Answers(c, id, y) PROVE visible(s, own_xids(c), store[id])
  <2>1. y = 0 \/ y \in aborted \/ (y \notin own_xids(c) /\ ~ sees(s, y))
    BY <1>3, <1>4, <1>6 DEF Spared, Foreign, XID_NONE
  <2>2. x \notin aborted /\ (x # 0 => sees(s, x))
    BY <1>3, <1>4 DEF XID_NONE
  <2> HIDE DEF x, y, s
  <2>3. Manager!visibility_check(s, own_xids(c), x, y)
    BY <1>4, <2>1, <2>2 DEF Manager!visibility_check, Manager!is_visible, Manager!XID_NONE, sees
  <2> QED BY <2>3 DEF visible, x, y
<1> QED BY <1>2, <1>5, <1>6 DEF transaction_scan, scan

\* A transaction that publishes has passed the conflict check, and nobody has
\* committed since.
LEMMA SerialUpdates == Inv /\ SInv => NoLostUpdate
<1> SUFFICES ASSUME SInv, NEW c \in Conns, phase[c] = "publishing", NEW w \in wrote,
                    w.kind = "update", w.row \in checked_rows(c)
             PROVE  sees(ctx[c].snapshot, w.xid)
  BY DEF NoLostUpdate
<1>1. PICK e \in journal(c) : e.id \in DOMAIN store /\ store[e.id].logical = w.row
  BY DEF checked_rows, deleted_rows, journal
<1> QED BY <1>1 DEF SInv, UpdateInv, ValidOK

\* When statements do not overlap and no client rolls back to a savepoint
\* around one that it has released, an open transaction keeps seeing, but for
\* the rows that it writes itself, every committed version that it saw at
\* BEGIN: no write, commit or rollback of others and no pass of the reclaimer
\* takes one away.
THEOREM CapturedVisible ==
    Serial /\ ~ RollsBackReleased => (Spec => []CapturedStaysVisible)
<1> SUFFICES ASSUME Serial, ~ RollsBackReleased PROVE Spec => []CapturedStaysVisible
  OBVIOUS
<1>1. Init => Inv /\ SInv
  BY InitInv, SerialInit
<1>2. Inv /\ SInv /\ [Next]_vars => Inv' /\ SInv'
  BY StepInv, SerialNext
<1>3. Inv /\ SInv => CapturedStaysVisible
  BY SerialVisible
<1> QED BY <1>1, <1>2, <1>3, PTL DEF Spec

\* Under the same conditions a transaction that reaches publication has seen
\* every committed UPDATE of the rows that it has replaced or deleted versions
\* of, as long as those versions are still there: of two overlapping writers of
\* a row, check_table_row_write_conflicts stops the later.
THEOREM UpdatesNotLost ==
    Serial /\ ~ RollsBackReleased => (Spec => []NoLostUpdate)
<1> SUFFICES ASSUME Serial, ~ RollsBackReleased PROVE Spec => []NoLostUpdate
  OBVIOUS
<1>1. Init => Inv /\ SInv
  BY InitInv, SerialInit
<1>2. Inv /\ SInv /\ [Next]_vars => Inv' /\ SInv'
  BY StepInv, SerialNext
<1>3. Inv /\ SInv => NoLostUpdate
  BY SerialUpdates
<1> QED BY <1>1, <1>2, <1>3, PTL DEF Spec
=============================================================================
