---------------------------- MODULE MvccInvariant ----------------------------
(***************************************************************************)
(* Proofs about Mvcc, for any connections, rows, xids and statements, when *)
(* no client rolls back to a savepoint around one that it has released     *)
(* (~ RollsBackReleased).                                                  *)
(*                                                                         *)
(* CommittedStaysReadable needs to know who can still put which stamp on a *)
(* version.  The heart of the inductive invariant is StampInv: on every    *)
(* version that is current, a stamp that is there, or that somebody keeps  *)
(* in order to put it back, has been set by a transaction that has aborted *)
(* or by one that still answers for it.  The other conjuncts say why an    *)
(* undo, a commit or the reclaimer cannot break that: xids have one owner  *)
(* and are active until it ends them, entity ids are used once, and nobody *)
(* stamps the versions of somebody else's open transaction.                *)
(***************************************************************************)
EXTENDS Mvcc, SequenceTheorems, FiniteSetTheorems, TLAPS

\* SnapshotManager's theorems, about the manager inside Mvcc.
P == INSTANCE SnapshotManagerProofs WITH Frames <- Conns

-----------------------------------------------------------------------------
(* The inductive invariant.                                                *)

\* The xids of a context.
group(k) ==
    IF k.xid = XID_NONE THEN {}
    ELSE {k.xid} \cup ToSet(k.savepoints) \cup ToSet(k.released)

\* The xids that the transaction of c may still write under, commit or abort,
\* and the one that its autocommit statement writes under.
txn_xids(c) == group(ctx[c]) \cup ToSet(todo[c])
auto_xids(c) ==
    IF phase[c] \in {"read", "stamped", "deleting"} /\ buf[c].xid # XID_NONE
    THEN {buf[c].xid} ELSE {}
Xids(c) == txn_xids(c) \cup auto_xids(c)

\* c's undo journal.
journal(c) == ToSet(updates[c]) \cup ToSet(tombstones[c])

\* c's statement uses the version it has cloned, or has an id put aside.
Reads(c) == phase[c] \in {"updating", "read", "stamped", "deleting"}
Reserves(c) == phase[c] \in {"updating", "read", "stamped"}

TxnPhase == {"idle", "begun", "updating", "undoing", "validated", "publishing"}
AutoPhase == {"idle", "statement", "read", "stamped", "deleting", "inserting", "done"}
EndPhase == {"undoing", "validated", "publishing"}

\* What the phase of a connection says of its context, journal, list of xids
\* and buffer.
PhaseOK(c) ==
    /\ in_transaction(c) => phase[c] \in TxnPhase
    /\ ~ in_transaction(c) => /\ phase[c] \in AutoPhase
                              /\ ctx[c].savepoints = <<>> /\ ctx[c].released = <<>>
                              /\ updates[c] = <<>> /\ tombstones[c] = <<>>
    /\ phase[c] \in EndPhase <=> todo[c] # <<>>
    /\ phase[c] = "begun" => /\ ctx[c].savepoints = <<>> /\ ctx[c].released = <<>>
                             /\ updates[c] = <<>> /\ tombstones[c] = <<>>
    /\ Reads(c) => buf[c].id \in Ids /\ buf[c].old \in Version
    /\ Reserves(c) => buf[c].new \in Ids
    /\ phase[c] = "updating" => buf[c].xid \in group(ctx[c])
    /\ phase[c] \in {"stamped", "deleting", "inserting"} => buf[c].xid # XID_NONE

\* q ends in x and has it nowhere else.
EndsIn(q, x) == q # <<>> /\ \A i \in 1..Len(q) : q[i] = x <=> i = Len(q)

\* c is ending its whole transaction, or the part above a savepoint.
Whole(c) == EndsIn(todo[c], ctx[c].xid) /\ ToSet(todo[c]) \subseteq group(ctx[c])
Part(c) == \A x \in group(ctx[c]), y \in ToSet(todo[c]) : x < y

\* A transaction's xids are in the order of their savepoints, and commit and
\* rollback come to the parent's last.
Increasing(q) == \A i, j \in 1..Len(q) : i < j => q[i] < q[j]
OrderOK(c) == in_transaction(c) =>
    /\ Increasing(ctx[c].savepoints)
    /\ \A x \in ToSet(ctx[c].savepoints) \cup ToSet(ctx[c].released) : ctx[c].xid < x
    /\ phase[c] = "validated" => Whole(c) /\ group(ctx[c]) \subseteq ToSet(todo[c])
    /\ phase[c] = "publishing" => Whole(c)
    /\ phase[c] = "undoing" =>
          \/ Whole(c) /\ group(ctx[c]) \subseteq ToSet(todo[c]) \cup aborted
          \/ Part(c) /\ group(ctx[c]) \subseteq active

\* Which xids of a connection are active.
XidOK(c) ==
    /\ Xids(c) \subseteq begun
    /\ phase[c] \notin {"undoing", "publishing"} => txn_xids(c) \subseteq active
    /\ phase[c] = "undoing" => txn_xids(c) \subseteq active \cup aborted
    /\ phase[c] = "publishing" =>
          \A x \in group(ctx[c]) : x \notin aborted /\ (x \in ToSet(todo[c]) \/ x \notin active)
    /\ phase[c] \in {"read", "deleting"} => auto_xids(c) \subseteq active
    /\ phase[c] = "stamped" => buf[c].xid \notin active \cup aborted
    /\ phase[c] = "inserting" => /\ buf[c].xid \notin begun
                                 /\ buf[c].xid < next_xid
                                 /\ buf[c].xid \notin Manager!pool_slots

\* A transaction reads with a snapshot that the manager holds for it.
SnapshotOK(c) ==
    in_transaction(c) /\ phase[c] # "begun" => ctx[c].snapshot \in held[ctx[c].xid]

LocalOK(c) == PhaseOK(c) /\ OrderOK(c) /\ XidOK(c) /\ SnapshotOK(c)
LocalInv == \A c \in Conns : LocalOK(c)

\* No two connections share an xid.
OwnerInv == \A c, d \in Conns : c # d => Xids(c) \cap Xids(d) = {}

\* No entity id is used twice, and a version keeps its row and its writer.
StoreOK == \A id \in DOMAIN store : id < next_id /\ store[id].xmin < next_xid
CloneOK(c) == Reads(c) =>
    /\ buf[c].id < next_id
    /\ buf[c].id \in DOMAIN store => /\ store[buf[c].id].logical = buf[c].old.logical
                                     /\ store[buf[c].id].xmin = buf[c].old.xmin
EntriesOK(c) == \A e \in journal(c) : e.id < next_id
Unused(n) == n < next_id /\ n \notin DOMAIN store
Apart(c, d) == Reserves(c) =>
    /\ Reads(d) => buf[d].id # buf[c].new
    /\ Reserves(d) /\ c # d => buf[d].new # buf[c].new
    /\ \A e \in journal(d) : e.id # buf[c].new
IdInv ==
    /\ StoreOK
    /\ \A c \in Conns : CloneOK(c) /\ EntriesOK(c)
    /\ \A c \in Conns : Reserves(c) => Unused(buf[c].new)
    /\ \A c, d \in Conns : Apart(c, d)

\* An undo entry belongs to an xid of its transaction that has not aborted,
\* and an update's entry to a version that the transaction has written.
JournalOK(c) ==
    /\ \A e \in journal(c) : e.xid \in txn_xids(c) /\ e.xid \notin aborted
    /\ \A e \in ToSet(updates[c]) :
          /\ e.new \in DOMAIN store
          /\ store[e.new].xmin = e.xid
          /\ e.id \in DOMAIN store => store[e.id].logical = store[e.new].logical
    /\ \A i, j \in 1..Len(updates[c]) : updates[c][i].new = updates[c][j].new => i = j
JournalInv == \A c \in Conns : JournalOK(c)

\* Nobody has stamped a version of somebody else's open transaction.  A clone
\* of one can be had while its transaction publishes, xid by xid.
Isolated(c, d) ==
    /\ \A e \in journal(d) : e.id \in DOMAIN store => store[e.id].xmin \notin txn_xids(c)
    /\ Reads(d) /\ buf[d].id \in DOMAIN store /\ store[buf[d].id].xmin \in txn_xids(c)
          => phase[c] = "publishing" /\ buf[d].old.xmax = store[buf[d].id].xmax
IsolationInv == \A c, d \in Conns : c # d => Isolated(c, d)

\* x is the xmax of version id, or somebody has it to put back there.
Keeps(c, id, x) ==
    \/ \E e \in journal(c) : e.id = id /\ e.previous_xmax = x
    \/ phase[c] \in {"updating", "deleting"} /\ buf[c].id = id /\ buf[c].old.xmax = x
Stamp(id, x) == store[id].xmax = x \/ \E c \in Conns : Keeps(c, id, x)

\* c answers for the stamp x of version id: it has an entry for it, is about
\* to abort x, or is about to end the autocommit DELETE that set it.
Answers(c, id, x) ==
    \/ \E e \in journal(c) : e.id = id /\ e.xid = x
    \/ phase[c] = "undoing" /\ x \in ToSet(todo[c])
    \/ phase[c] = "deleting" /\ buf[c].id = id /\ buf[c].xid = x

\* A committed version that nobody has replaced, or one of an open transaction.
Current(id) ==
    \/ \E r \in Ids : latest[r] = id
    \/ \E c \in Conns : store[id].xmin \in txn_xids(c)

\* On such a version there are no stamps but those of aborted transactions and
\* those that a connection answers for.
Accounted(id, x) == x = XID_NONE \/ x \in aborted \/ \E c \in Conns : Answers(c, id, x)
StampInv == \A id \in DOMAIN store : Current(id) =>
    \A x \in 0..MaxXid : Stamp(id, x) => Accounted(id, x)

\* The last committed version of a row is in the store, and its writer is done.
Settled(x) == x # XID_NONE => x \notin active \cup aborted /\ x \notin Manager!pool_slots
LatestOK(r) == latest[r] # 0 =>
    latest[r] \in DOMAIN store /\ store[latest[r]].logical = r /\ Settled(store[latest[r]].xmin)
LatestInv == \A r \in Ids : LatestOK(r)

StateInv == /\ LocalInv /\ OwnerInv /\ IdInv /\ JournalInv /\ IsolationInv
            /\ StampInv /\ LatestInv
Inv == P!Inv /\ TypeOK /\ StateInv

-----------------------------------------------------------------------------
(* Sequences, minima and maxima.                                           *)

\* The elements of a sequence over S are in S; a sequence without any is empty.
LEMMA ToSetIn ==
    ASSUME NEW S, NEW s \in Seq(S)
    PROVE  /\ ToSet(s) \subseteq S
           /\ ToSet(s) = {s[i] : i \in 1..Len(s)}
           /\ ToSet(s) = {} <=> s = <<>>
<1>1. DOMAIN s = 1..Len(s) /\ Len(s) \in Nat /\ \A i \in 1..Len(s) : s[i] \in S
  BY LenProperties
<1>2. ToSet(s) = {s[i] : i \in 1..Len(s)}
  BY <1>1 DEF ToSet
<1>3. s # <<>> => Len(s) \in Nat \ {0}
  BY EmptySeq
<1>4. s = <<>> => ToSet(s) = {}
  BY DEF ToSet
<1>5. s # <<>> => s[1] \in ToSet(s)
  BY <1>2, <1>3
<1> QED BY <1>1, <1>2, <1>4, <1>5

\* The empty sequence has no elements.
LEMMA ToSetEmpty == ToSet(<<>>) = {}
  BY DEF ToSet

\* Append adds its argument.
LEMMA ToSetAppend ==
    ASSUME NEW S, NEW s \in Seq(S), NEW e \in S
    PROVE  /\ Append(s, e) \in Seq(S)
           /\ ToSet(Append(s, e)) = ToSet(s) \cup {e}
<1> DEFINE u == Append(s, e)
<1>1. /\ u \in Seq(S) /\ Len(u) = Len(s) + 1
      /\ \A i \in 1..Len(s) : u[i] = s[i]
      /\ u[Len(s) + 1] = e
  BY AppendProperties
<1>2. Len(s) \in Nat
  BY LenProperties
<1> HIDE DEF u
<1>3. ToSet(u) = {u[i] : i \in 1..Len(s) + 1} /\ ToSet(s) = {s[i] : i \in 1..Len(s)}
  BY <1>1, ToSetIn
<1>4. ASSUME NEW i \in 1..Len(s) PROVE s[i] \in ToSet(u)
  BY <1>1, <1>2, <1>3
<1>5. ASSUME NEW i \in 1..Len(s) + 1 PROVE u[i] \in ToSet(s) \cup {e}
  BY <1>1, <1>2, <1>3
<1>6. e \in ToSet(u)
  BY <1>1, <1>2, <1>3
<1> QED BY <1>1, <1>3, <1>4, <1>5, <1>6 DEF u

\* A concatenation has the elements of both parts.
LEMMA ToSetConcat ==
    ASSUME NEW S, NEW s \in Seq(S), NEW t \in Seq(S)
    PROVE  ToSet(s \o t) = ToSet(s) \cup ToSet(t)
<1> DEFINE u == s \o t
<1>1. /\ u \in Seq(S)
      /\ Len(u) = Len(s) + Len(t)
      /\ \A i \in 1..Len(s) + Len(t) : u[i] = IF i <= Len(s) THEN s[i] ELSE t[i - Len(s)]
  BY ConcatProperties
<1>2. Len(s) \in Nat /\ Len(t) \in Nat
  BY LenProperties
<1> HIDE DEF u
<1>3. /\ ToSet(u) = {u[i] : i \in 1..Len(s) + Len(t)}
      /\ ToSet(s) = {s[i] : i \in 1..Len(s)}
      /\ ToSet(t) = {t[i] : i \in 1..Len(t)}
  BY <1>1, ToSetIn
<1>4. ASSUME NEW i \in 1..Len(s) PROVE s[i] \in ToSet(u)
  <2>1. i \in 1..Len(s) + Len(t) /\ u[i] = s[i]
    BY <1>1, <1>2
  <2> QED BY <2>1, <1>3
<1>5. ASSUME NEW i \in 1..Len(t) PROVE t[i] \in ToSet(u)
  <2>1. Len(s) + i \in 1..Len(s) + Len(t) /\ ~ (Len(s) + i <= Len(s)) /\ (Len(s) + i) - Len(s) = i
    BY <1>2
  <2>2. u[Len(s) + i] = t[(Len(s) + i) - Len(s)]
    BY <1>1, <2>1
  <2> QED BY <2>1, <2>2, <1>3
<1>6. ASSUME NEW i \in 1..Len(s) + Len(t) PROVE u[i] \in ToSet(s) \cup ToSet(t)
  BY <1>1, <1>2, <1>3
<1> QED BY <1>3, <1>4, <1>5, <1>6 DEF u

\* A sequence is its head and its tail.
LEMMA ToSetTail ==
    ASSUME NEW S, NEW s \in Seq(S), s # <<>>
    PROVE  /\ Head(s) \in ToSet(s) /\ Tail(s) \in Seq(S)
           /\ ToSet(s) = {Head(s)} \cup ToSet(Tail(s))
<1> DEFINE t == Tail(s)
<1>1. t \in Seq(S) /\ Len(t) = Len(s) - 1 /\ (\A i \in 1..Len(t) : t[i] = s[i + 1])
  BY HeadTailProperties
<1>2. Len(s) \in Nat /\ Len(s) > 0 /\ Head(s) = s[1]
  BY EmptySeq, LenProperties
<1> HIDE DEF t
<1>3. /\ ToSet(s) = {s[i] : i \in 1..Len(s)}
      /\ ToSet(t) = {t[i] : i \in 1..Len(t)}
  BY <1>1, ToSetIn
<1>4. ASSUME NEW i \in 1..Len(t) PROVE t[i] \in ToSet(s)
  BY <1>1, <1>2, <1>3
<1>5. ASSUME NEW i \in 1..Len(s) PROVE s[i] = Head(s) \/ s[i] \in ToSet(t)
  <2>1. i = 1 \/ (i - 1 \in 1..Len(t) /\ t[i - 1] = s[i])
    BY <1>1, <1>2
  <2> QED BY <2>1, <1>2, <1>3
<1>6. Head(s) \in ToSet(s)
  BY <1>2, <1>3
<1> QED BY <1>1, <1>3, <1>4, <1>5, <1>6 DEF t

\* A sequence cut at position i has the elements of its two parts.
LEMMA ToSetCut ==
    ASSUME NEW S, NEW s \in Seq(S), NEW i \in 1..Len(s)
    PROVE  LET p == SubSeq(s, 1, i - 1)
               q == SubSeq(s, i, Len(s))
           IN  /\ p \in Seq(S) /\ q \in Seq(S) /\ q # <<>>
               /\ Len(p) = i - 1 /\ \A k \in 1..i - 1 : p[k] = s[k]
               /\ Len(q) = Len(s) - i + 1 /\ \A k \in 1..Len(q) : q[k] = s[i + k - 1]
               /\ ToSet(s) = ToSet(p) \cup ToSet(q)
<1> DEFINE p == SubSeq(s, 1, i - 1)
           q == SubSeq(s, i, Len(s))
<1>1. Len(s) \in Nat /\ (\A k \in 1..Len(s) : s[k] \in S) /\ i \in Nat /\ i >= 1 /\ i <= Len(s)
  BY LenProperties
<1>2. /\ p \in Seq(S) /\ Len(p) = i - 1
      /\ \A k \in 1..i - 1 : p[k] = s[k]
  <2>1. \A k \in 1..i - 1 : s[k] \in S
    BY <1>1
  <2>2. 1 \in Int /\ i - 1 \in Int
    BY <1>1
  <2>3. /\ p \in Seq(S) /\ Len(p) = IF 1 <= i - 1 THEN i - 1 - 1 + 1 ELSE 0
        /\ \A k \in 1..i - 1 - 1 + 1 : p[k] = s[1 + k - 1]
    BY <2>1, <2>2, SubSeqProperties
  <2> HIDE DEF p
  <2>4. Len(p) = i - 1
    BY <1>1, <2>3
  <2>5. ASSUME NEW k \in 1..i - 1 PROVE p[k] = s[k]
    BY <1>1, <2>3
  <2> QED BY <2>3, <2>4, <2>5
<1>3. /\ q \in Seq(S) /\ Len(q) = Len(s) - i + 1
      /\ \A k \in 1..Len(s) - i + 1 : q[k] = s[i + k - 1]
  <2>1. \A k \in i..Len(s) : s[k] \in S
    BY <1>1
  <2>2. Len(s) \in Int /\ i \in Int
    BY <1>1
  <2>3. /\ q \in Seq(S) /\ Len(q) = IF i <= Len(s) THEN Len(s) - i + 1 ELSE 0
        /\ \A k \in 1..Len(s) - i + 1 : q[k] = s[i + k - 1]
    BY <2>1, <2>2, SubSeqProperties
  <2> HIDE DEF q
  <2> QED BY <1>1, <2>3
<1> HIDE DEF p, q
<1>4. q # <<>>
  <2>1. Len(q) # 0
    BY <1>1, <1>3
  <2> QED BY <2>1
<1>5. /\ ToSet(s) = {s[k] : k \in 1..Len(s)}
      /\ ToSet(p) = {p[k] : k \in 1..Len(p)}
      /\ ToSet(q) = {q[k] : k \in 1..Len(q)}
  BY <1>2, <1>3, ToSetIn
<1>6. ASSUME NEW k \in 1..Len(p) PROVE p[k] \in ToSet(s)
  BY <1>1, <1>2, <1>5
<1>7. ASSUME NEW k \in 1..Len(q) PROVE q[k] \in ToSet(s)
  <2>1. i + k - 1 \in 1..Len(s) /\ q[k] = s[i + k - 1]
    BY <1>1, <1>3
  <2> QED BY <2>1, <1>5
<1>8. ASSUME NEW k \in 1..Len(s) PROVE s[k] \in ToSet(p) \cup ToSet(q)
  <2>1. CASE k <= i - 1
    <3>1. k \in 1..Len(p) /\ p[k] = s[k]
      BY <1>1, <1>2, <2>1
    <3> QED BY <3>1, <1>5
  <2>2. CASE ~ (k <= i - 1)
    <3>1. k - i + 1 \in 1..Len(q) /\ i + (k - i + 1) - 1 = k
      BY <1>1, <1>3, <2>2
    <3>2. q[k - i + 1] = s[i + (k - i + 1) - 1]
      BY <1>1, <1>3, <3>1
    <3> QED BY <3>1, <3>2, <1>5
  <2> QED BY <2>1, <2>2
<1>9. ToSet(s) = ToSet(p) \cup ToSet(q)
  BY <1>5, <1>6, <1>7, <1>8
<1> QED BY <1>2, <1>3, <1>4, <1>9 DEF p, q

\* RemoveAt takes one element out and keeps the others in order.
LEMMA RemoveAtFacts ==
    ASSUME NEW S, NEW s \in Seq(S), NEW i \in 1..Len(s)
    PROVE  /\ RemoveAt(s, i) \in Seq(S)
           /\ Len(RemoveAt(s, i)) = Len(s) - 1
           /\ \A k \in 1..Len(s) - 1 : RemoveAt(s, i)[k] = IF k < i THEN s[k] ELSE s[k + 1]
           /\ ToSet(RemoveAt(s, i)) \subseteq ToSet(s)
           /\ ToSet(s) \subseteq ToSet(RemoveAt(s, i)) \cup {s[i]}
<1> DEFINE p == SubSeq(s, 1, i - 1)
           q == SubSeq(s, i + 1, Len(s))
           u == p \o q
<1>1. Len(s) \in Nat /\ (\A k \in 1..Len(s) : s[k] \in S) /\ i \in Nat /\ i >= 1 /\ i <= Len(s)
  BY LenProperties
<1>2. p \in Seq(S) /\ Len(p) = i - 1 /\ \A k \in 1..i - 1 : p[k] = s[k]
  BY ToSetCut
<1>3. /\ q \in Seq(S) /\ Len(q) = Len(s) - i
      /\ \A k \in 1..Len(s) - i : q[k] = s[i + k]
  <2>1. \A k \in i + 1..Len(s) : s[k] \in S
    BY <1>1
  <2>2. Len(s) \in Int /\ i + 1 \in Int
    BY <1>1
  <2>3. /\ q \in Seq(S) /\ Len(q) = IF i + 1 <= Len(s) THEN Len(s) - (i + 1) + 1 ELSE 0
        /\ \A k \in 1..Len(s) - (i + 1) + 1 : q[k] = s[i + 1 + k - 1]
    BY <2>1, <2>2, SubSeqProperties
  <2> HIDE DEF q
  <2>4. ASSUME NEW k \in 1..Len(s) - i PROVE q[k] = s[i + k]
    <3>1. k \in 1..Len(s) - (i + 1) + 1 /\ i + 1 + k - 1 = i + k
      BY <1>1
    <3> QED BY <3>1, <2>3
  <2>5. Len(q) = Len(s) - i
    BY <1>1, <2>3
  <2> QED BY <2>3, <2>4, <2>5
<1> HIDE DEF p, q
<1>4. /\ u \in Seq(S) /\ Len(u) = Len(p) + Len(q)
      /\ \A k \in 1..Len(p) + Len(q) : u[k] = IF k <= Len(p) THEN p[k] ELSE q[k - Len(p)]
  BY <1>2, <1>3, ConcatProperties
<1> HIDE DEF u
<1>5. Len(u) = Len(s) - 1
  BY <1>1, <1>2, <1>3, <1>4
<1>6. ASSUME NEW k \in 1..Len(s) - 1 PROVE u[k] = IF k < i THEN s[k] ELSE s[k + 1]
  <2>1. u[k] = IF k <= i - 1 THEN p[k] ELSE q[k - (i - 1)]
    BY <1>1, <1>2, <1>3, <1>4
  <2>2. CASE k < i
    BY <1>1, <1>2, <2>1, <2>2
  <2>3. CASE ~ (k < i)
    <3>1. k - (i - 1) \in 1..Len(s) - i /\ i + (k - (i - 1)) = k + 1 /\ ~ (k <= i - 1)
      BY <1>1, <2>3
    <3> QED BY <1>3, <2>1, <2>3, <3>1
  <2> QED BY <2>2, <2>3
<1>7. /\ ToSet(s) = {s[k] : k \in 1..Len(s)}
      /\ ToSet(u) = {u[k] : k \in 1..Len(s) - 1}
  BY <1>4, <1>5, ToSetIn
<1>8. ASSUME NEW k \in 1..Len(s) - 1 PROVE u[k] \in ToSet(s)
  <2>1. k \in 1..Len(s) /\ k + 1 \in 1..Len(s)
    BY <1>1
  <2> QED BY <1>6, <1>7, <2>1
<1>9. ASSUME NEW k \in 1..Len(s), k # i PROVE s[k] \in ToSet(u)
  <2>1. CASE k < i
    <3>1. k \in 1..Len(s) - 1 /\ u[k] = s[k]
      BY <1>1, <1>6, <2>1
    <3> QED BY <3>1, <1>7
  <2>2. CASE ~ (k < i)
    <3>1. k - 1 \in 1..Len(s) - 1 /\ ~ (k - 1 < i) /\ k - 1 + 1 = k
      BY <1>1, <2>2, <1>9
    <3>2. u[k - 1] = s[k]
      BY <1>6, <3>1
    <3> QED BY <3>1, <3>2, <1>7
  <2> QED BY <2>1, <2>2
<1>10. ToSet(u) \subseteq ToSet(s) /\ ToSet(s) \subseteq ToSet(u) \cup {s[i]}
  BY <1>7, <1>8, <1>9
<1>11. RemoveAt(s, i) = u
  BY DEF RemoveAt, u, p, q
<1> QED BY <1>4, <1>5, <1>6, <1>10, <1>11

\* A non-empty set of positions has a least and a greatest.
LEMMA Extrema ==
    ASSUME NEW n \in Nat, NEW S, S \subseteq 1..n, S # {}
    PROVE  /\ Min(S) \in S /\ \A y \in S : Min(S) <= y
           /\ Max(S) \in S /\ \A y \in S : y <= Max(S)
<1>1. S \subseteq Nat
  OBVIOUS
<1> DEFINE T == {n - x : x \in S}
<1>h. IsFiniteSet(Conns) <=> P!IsFiniteSet(Conns)
  BY DEF IsFiniteSet, P!IsFiniteSet
<1>m. ASSUME NEW Q, Q \subseteq Nat, Q # {}
      PROVE  P!Min(Q) \in Q /\ \A y \in Q : P!Min(Q) <= y
  BY <1>h, <1>m, P!NatMin, ManagerAssumption, ConnsAssumption
<1>2. Min(S) \in S /\ \A y \in S : Min(S) <= y
  <2>1. Min(S) = P!Min(S)
    BY DEF P!Min, Min
  <2> QED BY <1>1, <1>m, <2>1
<1>3. T \subseteq Nat /\ T # {}
  <2>1. ASSUME NEW x \in S PROVE n - x \in Nat
    <3>1. x \in 1..n
      OBVIOUS
    <3> QED BY <3>1
  <2> QED BY <2>1
<1>4. P!Min(T) \in T /\ \A y \in T : P!Min(T) <= y
  <2> HIDE DEF T
  <2> QED BY <1>3, <1>m
<1>5. PICK m \in S : P!Min(T) = n - m
  BY <1>4
<1>6. ASSUME NEW y \in S PROVE m >= y
  <2>1. n - m <= n - y
    BY <1>4, <1>5
  <2>2. m \in Int /\ y \in Int
    BY <1>1
  <2> QED BY <2>1, <2>2
<1>7. Max(S) \in S /\ \A y \in S : Max(S) >= y
  BY <1>6 DEF Max
<1> QED BY <1>2, <1>7

-----------------------------------------------------------------------------
(* The manager inside Mvcc takes its own steps.                            *)

\* Every step of Mvcc is one of the manager's or leaves it alone.
LEMMA ManagerNext == P!Inv /\ [Next]_vars => [Manager!Next]_managerVars
<1> SUFFICES ASSUME P!Inv, [Next]_vars PROVE [Manager!Next]_managerVars
  OBVIOUS
<1>1. active \subseteq Manager!Xid
  BY DEF P!Inv, P!TypeOK, P!Xid, Manager!Xid
<1>b. Manager!begin => Manager!Next
  BY DEF Manager!Next
<1>s. \A x : Manager!snapshot(x) \/ Manager!commit(x) \/ Manager!rollback(x) => Manager!Next
  <2> SUFFICES ASSUME NEW x, Manager!snapshot(x) \/ Manager!commit(x) \/ Manager!rollback(x)
               PROVE  Manager!Next
    OBVIOUS
  <2>1. x \in active
    BY DEF Manager!snapshot, Manager!commit, Manager!rollback
  <2> QED BY <1>1, <2>1 DEF Manager!Next
<1>f. \A f \in Conns : Manager!fresh_retained_snapshot(f) \/ Manager!drop_retention(f)
                         => Manager!Next
  BY DEF Manager!Next
<1>a. Manager!allocate_committed_xid => Manager!Next
  BY DEF Manager!Next
<1>2. CASE UNCHANGED vars
  BY <1>2 DEF vars, managerVars
<1>3. ASSUME NEW c \in Conns, Start(c) PROVE [Manager!Next]_managerVars
  <2>1. CASE Begin(c) \/ Savepoint(c) \/ AutoDelete(c)
    BY <1>b, <2>1 DEF Begin, Savepoint, AutoDelete
  <2>2. CASE AutoStart(c) \/ AutoInsert(c)
    BY <1>f, <1>a, <2>2 DEF AutoStart, AutoInsert
  <2>3. CASE Release(c) \/ RollbackTo(c) \/ Rollback(c) \/ Validate(c) \/ UpdateRead(c)
               \/ Delete(c) \/ Insert(c) \/ AutoUpdateRead(c)
    BY <2>3 DEF Release, RollbackTo, Rollback, Validate, UpdateRead, Delete, Insert, AutoUpdateRead
  <2> QED BY <1>3, <2>1, <2>2, <2>3 DEF Start
<1>4. ASSUME NEW c \in Conns, Continue(c) PROVE [Manager!Next]_managerVars
  <2>1. CASE Capture(c) \/ AbortXid(c) \/ CommitXid(c) \/ AutoUpdateCommit(c)
               \/ AutoDeleteCommit(c) \/ AutoDeleteAbort(c)
    BY <1>s, <2>1 DEF Capture, AbortXid, CommitXid, AutoUpdateCommit, AutoDeleteCommit, AutoDeleteAbort
  <2>2. CASE AutoUpdateBegin(c) \/ AutoEnd(c)
    BY <1>b, <1>f, <2>2 DEF AutoUpdateBegin, AutoEnd
  <2>3. CASE UndoUpdate(c) \/ UndoTombstone(c) \/ Publish(c) \/ UpdatePersist(c)
               \/ AutoUpdatePersist(c) \/ AutoInsertPersist(c)
    BY <2>3 DEF UndoUpdate, UndoTombstone, Publish, UpdatePersist, AutoUpdatePersist, AutoInsertPersist
  <2> QED BY <1>4, <2>1, <2>2, <2>3 DEF Continue
<1>5. CASE Reclaim
  BY <1>5 DEF Reclaim, Discard
<1> QED BY <1>2, <1>3, <1>4, <1>5 DEF Next

\* So its invariant, proved in SnapshotManagerProofs, holds here.
LEMMA ManagerInv == P!Inv /\ [Next]_vars => P!Inv'
<1>1. IsFiniteSet(Conns) <=> P!IsFiniteSet(Conns)
  BY DEF IsFiniteSet, P!IsFiniteSet
<1>o. /\ Manager!Xid = P!Xid /\ Manager!NoFrame = P!NoFrame /\ Manager!pool_slots = P!pool_slots
      /\ Manager!XID_NONE = P!XID_NONE /\ Manager!required_xids = P!required_xids
      /\ \A a, S : Manager!Lowest(a, S) = P!Lowest(a, S)
      /\ \A S : Manager!Cardinality(S) = P!Cardinality(S)
      /\ \A S : Manager!Min(S) = P!Min(S) /\ Manager!Max(S) = P!Max(S)
  BY DEF Manager!Xid, P!Xid, Manager!NoFrame, P!NoFrame, Manager!pool_slots, P!pool_slots,
         Manager!XID_NONE, P!XID_NONE, Manager!required_xids, P!required_xids,
         Manager!Lowest, P!Lowest, Manager!Cardinality, P!Cardinality,
         Manager!Min, P!Min, Manager!Max, P!Max
<1>p. /\ \A x : Manager!captured_snapshot(x) = P!captured_snapshot(x)
      /\ Manager!fresh_read_snapshot = P!fresh_read_snapshot
      /\ \A n : Manager!mvcc_vacuum_cutoff_xid(n) = P!mvcc_vacuum_cutoff_xid(n)
  BY <1>o DEF Manager!captured_snapshot, P!captured_snapshot,
         Manager!fresh_read_snapshot, P!fresh_read_snapshot,
         Manager!mvcc_vacuum_cutoff_xid, P!mvcc_vacuum_cutoff_xid
<1>q. /\ Manager!begin => P!begin
      /\ Manager!allocate_committed_xid => P!allocate_committed_xid
      /\ \A x : Manager!snapshot(x) => P!snapshot(x)
      /\ \A x : Manager!commit(x) => P!commit(x)
      /\ \A x : Manager!rollback(x) => P!rollback(x)
      /\ \A f : Manager!fresh_retained_snapshot(f) => P!fresh_retained_snapshot(f)
      /\ \A f : Manager!drop_retention(f) => P!drop_retention(f)
  BY <1>o, <1>p DEF Manager!begin, P!begin, Manager!allocate_committed_xid,
         P!allocate_committed_xid, Manager!snapshot, P!snapshot, Manager!commit, P!commit,
         Manager!rollback, P!rollback, Manager!Retain, P!Retain,
         Manager!fresh_retained_snapshot, P!fresh_retained_snapshot,
         Manager!drop_retention, P!drop_retention
<1>r. /\ \A x : Manager!observe_committed_xid(x) => P!observe_committed_xid(x)
      /\ \A x : Manager!pin(x) => P!pin(x)
      /\ \A x : Manager!unpin(x) => P!unpin(x)
      /\ \A f : Manager!retain_transaction_snapshot(f) => P!retain_transaction_snapshot(f)
      /\ \A f : Manager!retain_outer_snapshot(f) => P!retain_outer_snapshot(f)
      /\ \A f : Manager!retain_as_of_snapshot(f) => P!retain_as_of_snapshot(f)
      /\ Manager!vacuum_peek => P!vacuum_peek
      /\ Manager!vacuum_cutoff => P!vacuum_cutoff
      /\ Manager!vacuum_end => P!vacuum_end
  BY <1>o, <1>p DEF Manager!observe_committed_xid, P!observe_committed_xid,
         Manager!pin, P!pin, Manager!unpin, P!unpin, Manager!Retain, P!Retain,
         Manager!retain_transaction_snapshot, P!retain_transaction_snapshot,
         Manager!retain_outer_snapshot, P!retain_outer_snapshot,
         Manager!retain_as_of_snapshot, P!retain_as_of_snapshot,
         Manager!vacuum_peek, P!vacuum_peek, Manager!managerVars, P!managerVars,
         Manager!vacuum_cutoff, P!vacuum_cutoff, Manager!vacuum_end, P!vacuum_end
<1>2. Manager!Next => P!Next
  BY <1>o, <1>q, <1>r DEF Manager!Next, P!Next
<1> QED BY <1>1, <1>2, ManagerNext, P!InvNext, ManagerAssumption, ConnsAssumption
        DEF managerVars, P!vars

\* The manager's xids: those begun, active and aborted, the allocator and the
\* slots of the pool.
LEMMA ManagerFacts ==
    ASSUME P!Inv
    PROVE  /\ MaxXid \in Nat /\ next_xid \in Nat /\ 1 <= next_xid /\ next_xid <= MaxXid + 1
           /\ begun \subseteq 1..MaxXid /\ active \subseteq begun /\ aborted \subseteq begun
           /\ active \cap aborted = {}
           /\ \A x \in begun : x < next_xid /\ x \notin Manager!pool_slots
           /\ \A x \in Manager!pool_slots : x < next_xid
           /\ Manager!TypeOK
<1>1. Manager!TypeOK
  BY DEF P!Inv, P!TypeOK, Manager!TypeOK, P!Xid, Manager!Xid, P!Snapshot, Manager!Snapshot,
         P!Frame, Manager!Frame
<1>2. MaxXid \in Nat /\ next_xid \in 1..MaxXid + 1 /\ pool_next \in Nat /\ pool_end \in Nat
  BY <1>1, ManagerAssumption DEF Manager!TypeOK
<1>3. pool_end <= next_xid
  BY DEF P!Inv, P!AllocInv
<1>4. \A x \in Manager!pool_slots : x < next_xid
  BY <1>2, <1>3 DEF Manager!pool_slots
<1>5. \A x \in begun : x < next_xid /\ x \notin Manager!pool_slots
  BY DEF P!Inv, P!AllocInv, Manager!pool_slots, P!pool_slots
<1>6. begun \subseteq 1..MaxXid /\ active \subseteq begun /\ aborted \subseteq begun \ active
  BY <1>1 DEF Manager!TypeOK, Manager!Xid, P!Inv, P!AllocInv
<1> QED BY <1>1, <1>2, <1>4, <1>5, <1>6

\* What a step of the manager does to the xids outside X: they stay active,
\* do not abort, and keep their snapshots.
Effects(X) ==
    /\ active \ X \subseteq active' /\ active' \subseteq active \cup (begun' \ begun)
    /\ aborted \subseteq aborted' /\ aborted' \subseteq aborted \cup (X \cap active)
    /\ begun \subseteq begun' /\ next_xid' \in Nat /\ next_xid <= next_xid'
    /\ \A x \in begun' \ begun : x >= next_xid
    /\ \A x \in Manager!pool_slots' : x \in Manager!pool_slots \/ x > next_xid
    /\ \A x \in 1..MaxXid : x \notin X => held[x] \subseteq held'[x]

\* begin() hands out a number that nobody has.
LEMMA BeginEffects ==
    ASSUME P!Inv, Manager!begin
    PROVE  /\ Effects({}) /\ next_xid \in 1..MaxXid /\ next_xid \notin begun
           /\ active' = active \cup {next_xid} /\ begun' = begun \cup {next_xid}
           /\ aborted' = aborted /\ next_xid' = next_xid + 1 /\ held' = held
<1> USE ManagerFacts DEF Manager!begin
<1>1. pool_end \in Nat
  BY DEF Manager!TypeOK
<1>2. Manager!pool_slots' = {}
  BY <1>1 DEF Manager!pool_slots
<1> QED BY <1>2 DEF Effects

\* A capture adds to what its transaction holds.
LEMMA CaptureEffects ==
    ASSUME P!Inv, NEW x, Manager!snapshot(x)
    PROVE  /\ Effects({}) /\ x \in active
           /\ active' = active /\ begun' = begun /\ aborted' = aborted /\ next_xid' = next_xid
           /\ Manager!captured_snapshot(x) \in held'[x]
<1> USE ManagerFacts
<1>1. x \in active /\ x \in Manager!Xid /\ x \in 1..MaxXid
  BY DEF Manager!snapshot, Manager!Xid
<1>2. held \in [1..MaxXid -> SUBSET Manager!Snapshot]
  BY DEF Manager!TypeOK, Manager!Xid
<1>3. held' = [held EXCEPT ![x] = @ \cup {Manager!captured_snapshot(x)}]
  BY DEF Manager!snapshot
<1>4. \A y \in 1..MaxXid : held[y] \subseteq held'[y]
  BY <1>1, <1>2, <1>3
<1>5. /\ active' = active /\ begun' = begun /\ aborted' = aborted /\ next_xid' = next_xid
      /\ Manager!pool_slots' = Manager!pool_slots
  BY DEF Manager!snapshot, Manager!pool_slots
<1> QED BY <1>1, <1>2, <1>3, <1>4, <1>5 DEF Effects

\* commit() and rollback() touch one xid.
LEMMA EndEffects ==
    ASSUME P!Inv, NEW x, Manager!commit(x) \/ Manager!rollback(x)
    PROVE  /\ Effects({x}) /\ x \in active /\ active' = active \ {x}
           /\ begun' = begun /\ next_xid' = next_xid
           /\ Manager!commit(x) => aborted' = aborted
           /\ Manager!rollback(x) => aborted' = aborted \cup {x}
           /\ Manager!pool_slots' = Manager!pool_slots
<1> USE ManagerFacts
<1>1. x \in active /\ x \in 1..MaxXid /\ x \notin aborted
  BY DEF Manager!commit, Manager!rollback
<1>2. held \in [1..MaxXid -> SUBSET Manager!Snapshot]
  BY DEF Manager!TypeOK, Manager!Xid
<1>3. held' = [held EXCEPT ![x] = {}]
  BY DEF Manager!commit, Manager!rollback
<1>4. \A y \in 1..MaxXid : y # x => held[y] \subseteq held'[y]
  BY <1>1, <1>2, <1>3
<1>5. /\ active' = active \ {x} /\ begun' = begun /\ next_xid' = next_xid
      /\ Manager!pool_slots' = Manager!pool_slots
  BY DEF Manager!commit, Manager!rollback, Manager!pool_slots
<1>6. /\ Manager!commit(x) => aborted' = aborted
      /\ Manager!rollback(x) => aborted' = aborted \cup {x}
  BY <1>1 DEF Manager!commit, Manager!rollback
<1> QED BY <1>1, <1>4, <1>5, <1>6 DEF Effects

\* The pool hands out a number that begin() has not and will not.
LEMMA AllocateEffects ==
    ASSUME P!Inv, Manager!allocate_committed_xid
    PROVE  /\ Effects({})
           /\ active' = active /\ begun' = begun /\ aborted' = aborted /\ held' = held
           /\ LET x == Manager!allocated_slot
              IN  /\ x \in 1..MaxXid /\ x \notin begun /\ x < next_xid'
                  /\ x \notin Manager!pool_slots'
<1> USE ManagerFacts
<1>1. /\ active' = active /\ begun' = begun /\ aborted' = aborted /\ held' = held
  BY DEF Manager!allocate_committed_xid
<1>2. /\ pool_next \in Nat /\ pool_end \in Nat /\ pool_end <= next_xid
      /\ pool_next = 0 => pool_end = 0
      /\ AutocommitPoolBatch \in Nat \ {0}
  BY ManagerAssumption DEF Manager!TypeOK, P!Inv, P!AllocInv
<1>3. CASE pool_next >= pool_end
  <2>1. /\ next_xid + AutocommitPoolBatch <= MaxXid + 1
        /\ next_xid' = next_xid + AutocommitPoolBatch
        /\ pool_next' = next_xid + 1 /\ pool_end' = next_xid + AutocommitPoolBatch
        /\ Manager!allocated_slot = next_xid
    BY <1>3 DEF Manager!allocate_committed_xid, Manager!allocated_slot
  <2>2. \A x \in Manager!pool_slots' : x > next_xid
    BY <1>2, <2>1 DEF Manager!pool_slots
  <2>3. next_xid \in 1..MaxXid /\ next_xid \notin begun /\ next_xid < next_xid'
    BY <1>2, <2>1
  <2> QED BY <1>1, <1>2, <2>1, <2>2, <2>3 DEF Effects
<1>4. CASE ~ (pool_next >= pool_end)
  <2>1. /\ next_xid' = next_xid /\ pool_next' = pool_next + 1 /\ pool_end' = pool_end
        /\ Manager!allocated_slot = pool_next
    BY <1>4 DEF Manager!allocate_committed_xid, Manager!allocated_slot
  <2>2. pool_next \in Manager!pool_slots /\ pool_next \in 1..MaxXid
    BY <1>2, <1>4 DEF Manager!pool_slots
  <2>3. Manager!pool_slots' \subseteq Manager!pool_slots /\ pool_next \notin Manager!pool_slots'
    BY <1>2, <2>1 DEF Manager!pool_slots
  <2> QED BY <1>1, <1>2, <2>1, <2>2, <2>3 DEF Effects
<1> QED BY <1>3, <1>4

\* Opening and closing a frame, and the steps without the manager.
LEMMA FrameEffects ==
    ASSUME P!Inv, NEW f,
           \/ Manager!fresh_retained_snapshot(f) \/ Manager!drop_retention(f)
           \/ UNCHANGED managerVars
    PROVE  /\ Effects({})
           /\ active' = active /\ begun' = begun /\ aborted' = aborted /\ held' = held
           /\ next_xid' = next_xid
<1>1. /\ active' = active /\ begun' = begun /\ aborted' = aborted /\ held' = held
      /\ next_xid' = next_xid /\ pool_next' = pool_next /\ pool_end' = pool_end
  BY DEF Manager!fresh_retained_snapshot, Manager!drop_retention, Manager!Retain, managerVars
<1>2. Manager!pool_slots' = Manager!pool_slots
  BY <1>1 DEF Manager!pool_slots
<1> QED BY <1>1, <1>2, ManagerFacts DEF Effects

-----------------------------------------------------------------------------
(* What a step of one connection does to the others.                       *)

\* The types of what a step reads.
LEMMA TypeFacts ==
    ASSUME TypeOK
    PROVE  /\ MaxId \in Nat /\ next_id \in Nat /\ 1 <= next_id /\ next_id <= MaxId + 1
           /\ MaxXid \in Nat /\ DOMAIN store \subseteq Ids /\ Ids \subseteq Nat
           /\ \A id \in DOMAIN store :
                 /\ store[id] \in Version /\ store[id].logical \in Ids
                 /\ store[id].xmin \in 0..MaxXid /\ store[id].xmax \in 0..MaxXid
                 /\ store[id].xmin \in Nat /\ store[id].xmax \in Nat
           /\ \A c \in Conns :
                 /\ buf[c].id \in Nat /\ buf[c].new \in Nat
                 /\ buf[c].xid \in Nat /\ buf[c].xid \in 0..MaxXid
                 /\ buf[c].old.xmax \in 0..MaxXid
                 /\ updates[c] \in Seq(Update) /\ tombstones[c] \in Seq(Tombstone)
                 /\ todo[c] \in Seq(1..MaxXid)
                 /\ \A e \in journal(c) : /\ e.id \in Ids /\ e.id \in Nat
                                          /\ e.xid \in 1..MaxXid /\ e.previous_xmax \in 0..MaxXid
                 /\ \A e \in ToSet(updates[c]) : e.new \in Ids /\ e \in journal(c)
                 /\ \A e \in ToSet(tombstones[c]) : e \in journal(c)
<1>1. MaxId \in Nat /\ MaxXid \in Nat
  BY StoreAssumption, ManagerAssumption
<1>2. next_id \in Nat /\ 1 <= next_id /\ next_id <= MaxId + 1
  BY <1>1 DEF TypeOK
<1>3. DOMAIN store \subseteq Ids /\ Ids \subseteq Nat
  BY <1>1 DEF TypeOK, Ids
<1>4. ASSUME NEW id \in DOMAIN store
      PROVE  /\ store[id] \in Version /\ store[id].logical \in Ids
             /\ store[id].xmin \in 0..MaxXid /\ store[id].xmax \in 0..MaxXid
             /\ store[id].xmin \in Nat /\ store[id].xmax \in Nat
  <2>1. store[id] \in Version
    BY DEF TypeOK
  <2> QED BY <1>1, <2>1 DEF Version
<1>5. ASSUME NEW c \in Conns
      PROVE  /\ buf[c].id \in Nat /\ buf[c].new \in Nat
             /\ buf[c].xid \in Nat /\ buf[c].xid \in 0..MaxXid
             /\ buf[c].old.xmax \in 0..MaxXid
             /\ updates[c] \in Seq(Update) /\ tombstones[c] \in Seq(Tombstone)
             /\ todo[c] \in Seq(1..MaxXid)
  <2>1. buf[c] \in Buffer
    BY DEF TypeOK
  <2>2. /\ updates[c] \in Seq(Update) /\ tombstones[c] \in Seq(Tombstone)
        /\ todo[c] \in Seq(1..MaxXid)
    BY DEF TypeOK
  <2> QED BY <1>1, <2>1, <2>2 DEF Buffer
<1>6. ASSUME NEW c \in Conns
      PROVE  /\ \A e \in journal(c) : /\ e.id \in Ids /\ e.id \in Nat
                                      /\ e.xid \in 1..MaxXid /\ e.previous_xmax \in 0..MaxXid
             /\ \A e \in ToSet(updates[c]) : e.new \in Ids /\ e \in journal(c)
             /\ \A e \in ToSet(tombstones[c]) : e \in journal(c)
  <2>1. ToSet(updates[c]) \subseteq Update /\ ToSet(tombstones[c]) \subseteq Tombstone
    BY <1>5, ToSetIn
  <2> QED BY <1>3, <2>1 DEF journal, Update, Tombstone
<1> QED BY <1>1, <1>2, <1>3, <1>4, <1>5, <1>6

\* Nothing of d's own changes.
Same(d) ==
    /\ ctx'[d] = ctx[d] /\ updates'[d] = updates[d] /\ tombstones'[d] = tombstones[d]
    /\ phase'[d] = phase[d] /\ todo'[d] = todo[d] /\ buf'[d] = buf[d]

\* Then what the invariant derives from it does not change either.
LEMMA SameFacts ==
    ASSUME NEW d, Same(d)
    PROVE  /\ in_transaction(d)' <=> in_transaction(d)
           /\ group(ctx[d])' = group(ctx[d]) /\ txn_xids(d)' = txn_xids(d)
           /\ auto_xids(d)' = auto_xids(d) /\ Xids(d)' = Xids(d)
           /\ journal(d)' = journal(d)
           /\ Reads(d)' <=> Reads(d)
           /\ Reserves(d)' <=> Reserves(d)
  BY DEF Same, in_transaction, group, txn_xids, auto_xids, Xids, journal, Reads, Reserves

\* A connection whose xids the manager's step leaves alone keeps its part of
\* the invariant.
LEMMA LocalOther ==
    ASSUME P!Inv, TypeOK, NEW d \in Conns, LocalOK(d), Same(d), NEW X, Effects(X), X \cap Xids(d) = {}
    PROVE  LocalOK(d)'
<1> USE SameFacts
<1>1. PhaseOK(d)'
  BY DEF LocalOK, PhaseOK, Same
<1>2. Xids(d) \subseteq begun /\ begun \subseteq 1..MaxXid
  BY ManagerFacts DEF LocalOK, XidOK
<1>3. group(ctx[d]) \subseteq Xids(d) /\ txn_xids(d) \subseteq Xids(d) /\ auto_xids(d) \subseteq Xids(d)
      /\ ToSet(todo[d]) \subseteq Xids(d)
  BY DEF Xids, txn_xids
<1>4. \A x \in Xids(d) : /\ x \in active' <=> x \in active
                         /\ x \in aborted' <=> x \in aborted
                         /\ held[x] \subseteq held'[x]
  BY <1>2 DEF Effects
<1>5. OrderOK(d)'
  <2>1. Whole(d)' <=> Whole(d)
    BY DEF Whole, Same
  <2>2. Part(d)' <=> Part(d)
    BY DEF Part, Same
  <2>3. SUFFICES ASSUME in_transaction(d), OrderOK(d) PROVE OrderOK(d)'
    BY DEF OrderOK, LocalOK
  <2> QED BY <2>1, <2>2, <2>3, <1>3, <1>4 DEF OrderOK, Same
<1>6. XidOK(d)'
  <2>1. XidOK(d) /\ PhaseOK(d)
    BY DEF LocalOK
  <2>2. Xids(d)' \subseteq begun'
    BY <1>2 DEF Effects
  <2>3. phase[d] = "stamped" => buf[d].xid \in Xids(d)
    BY <2>1 DEF PhaseOK, Xids, auto_xids
  <2>4. phase[d] = "inserting" => /\ buf[d].xid \notin begun'
                                  /\ buf[d].xid < next_xid'
                                  /\ buf[d].xid \notin Manager!pool_slots'
    <3> SUFFICES ASSUME phase[d] = "inserting"
                 PROVE  /\ buf[d].xid \notin begun' /\ buf[d].xid < next_xid'
                        /\ buf[d].xid \notin Manager!pool_slots'
      OBVIOUS
    <3>1. /\ buf[d].xid \notin begun /\ buf[d].xid < next_xid
          /\ buf[d].xid \notin Manager!pool_slots
      BY <2>1 DEF XidOK
    <3>2. next_xid \in Nat /\ next_xid' \in Nat /\ next_xid' >= next_xid
      BY ManagerFacts DEF Effects
    <3>3. buf[d].xid \in Nat
      BY TypeFacts
    <3> QED BY <3>1, <3>2, <3>3 DEF Effects
  <2> QED BY <1>3, <1>4, <2>1, <2>2, <2>3, <2>4 DEF XidOK, Same
<1>7. SnapshotOK(d)'
  <2>1. in_transaction(d) => ctx[d].xid \in Xids(d)
    BY DEF in_transaction, Xids, txn_xids, group
  <2> QED BY <1>4, <2>1 DEF LocalOK, SnapshotOK, Same
<1> QED BY <1>1, <1>5, <1>6, <1>7 DEF LocalOK

\* c takes a step.
Others(c) == \A d \in Conns \ {c} : Same(d)

\* If only c's xids and fresh ones are involved, nobody else is disturbed.
LEMMA LocalStep ==
    ASSUME P!Inv, TypeOK, LocalInv, OwnerInv, NEW c \in Conns, Others(c),
           NEW X, X \subseteq Xids(c), Effects(X),
           LocalOK(c)', Xids(c)' \subseteq Xids(c) \cup (begun' \ begun)
    PROVE  LocalInv' /\ OwnerInv'
<1>1. ASSUME NEW d \in Conns, d # c
      PROVE  LocalOK(d)' /\ Xids(d)' = Xids(d) /\ Xids(c)' \cap Xids(d)' = {}
  <2>1. Same(d) /\ LocalOK(d) /\ Xids(c) \cap Xids(d) = {}
    BY <1>1 DEF Others, LocalInv, OwnerInv
  <2>2. LocalOK(d)' /\ Xids(d)' = Xids(d)
    BY <2>1, LocalOther, SameFacts
  <2>3. Xids(d) \subseteq begun
    BY <2>1 DEF LocalOK, XidOK
  <2> QED BY <2>1, <2>2, <2>3
<1>2. LocalInv'
  BY <1>1 DEF LocalInv
<1>3. ASSUME NEW a \in Conns, NEW b \in Conns, a # b PROVE Xids(a)' \cap Xids(b)' = {}
  <2>1. CASE a # c /\ b # c
    BY <1>1, <1>3, <2>1 DEF OwnerInv
  <2>2. CASE a = c \/ b = c
    BY <1>1, <1>3, <2>2
  <2> QED BY <2>1, <2>2
<1> QED BY <1>2, <1>3 DEF OwnerInv

\* The versions that stay in the store keep their row and their writer; those
\* in N are new.
SameRows(N) ==
    /\ DOMAIN store' \subseteq DOMAIN store \cup N
    /\ \A id \in DOMAIN store \cap DOMAIN store' :
          store'[id].logical = store[id].logical /\ store'[id].xmin = store[id].xmin

\* c may use n as the id of a new version: nobody else has it.
New(c, n) ==
    /\ n \notin DOMAIN store /\ n < next_id'
    /\ \A d \in Conns : /\ Reads(d) => buf[d].id # n
                        /\ Reserves(d) /\ d # c => buf[d].new # n
                        /\ \A e \in journal(d) : e.id # n

\* The next entity id, or the one that c has put aside.
LEMMA FreshIds ==
    ASSUME TypeOK, IdInv, NEW c \in Conns
    PROVE  /\ next_id' = next_id + 1 => New(c, next_id)
           /\ Reserves(c) /\ next_id' = next_id => New(c, buf[c].new)
<1>1. next_id \in Nat
  BY TypeFacts
<1>2. ASSUME next_id' = next_id + 1 PROVE New(c, next_id)
  <2>1. next_id \notin DOMAIN store
    BY <1>1 DEF IdInv, StoreOK
  <2>2. ASSUME NEW d \in Conns
        PROVE  /\ Reads(d) => buf[d].id # next_id
               /\ Reserves(d) => buf[d].new # next_id
               /\ \A e \in journal(d) : e.id # next_id
    <3>1. Reads(d) => buf[d].id < next_id
      BY DEF IdInv, CloneOK
    <3>2. Reserves(d) => buf[d].new < next_id
      BY DEF IdInv, Unused
    <3>3. \A e \in journal(d) : e.id < next_id
      BY DEF IdInv, EntriesOK
    <3> QED BY <1>1, <3>1, <3>2, <3>3
  <2> QED BY <1>1, <1>2, <2>1, <2>2 DEF New
<1>3. ASSUME Reserves(c), next_id' = next_id PROVE New(c, buf[c].new)
  BY <1>3 DEF IdInv, Unused, Apart, New
<1> QED BY <1>2, <1>3

\* c's journal and clone refer to versions of the store, or to what they did
\* before.
Known(c, id) ==
    id \in DOMAIN store \/ (Reads(c) /\ id = buf[c].id) \/ \E e \in journal(c) : e.id = id
SameClone(c) == Reads(c) /\ buf'[c].id = buf[c].id /\ buf'[c].old = buf[c].old

\* Ids stay apart when the new versions have new ids.
LEMMA IdStep ==
    ASSUME P!Inv, TypeOK, IdInv, NEW c \in Conns, Others(c), NEW X, Effects(X),
           next_id' \in Nat, next_id <= next_id',
           NEW N, SameRows(N), N # {} => ~ Reserves(c)',
           \A n \in N : New(c, n) /\ (n \in DOMAIN store' => store'[n].xmin < next_xid'),
           \A e \in journal(c)' : Known(c, e.id),
           Reads(c)' => \/ SameClone(c)
                        \/ buf'[c].id \in DOMAIN store /\ buf'[c].old = store[buf'[c].id],
           Reserves(c)' => \/ Reserves(c) /\ buf'[c].new = buf[c].new
                           \/ buf'[c].new = next_id /\ next_id' = next_id + 1
    PROVE  IdInv'
<1>1. /\ next_id \in Nat /\ next_xid \in Nat /\ next_xid' \in Nat /\ next_xid <= next_xid'
      /\ DOMAIN store \subseteq Ids /\ Ids \subseteq Nat
      /\ \A id \in DOMAIN store : store[id].xmin \in Nat
  BY ManagerFacts, TypeFacts DEF Effects
<1>2. StoreOK'
  <2> SUFFICES ASSUME NEW id \in DOMAIN store'
               PROVE  id < next_id' /\ store'[id].xmin < next_xid'
    BY DEF StoreOK
  <2>1. CASE id \in DOMAIN store
    <3>1. id < next_id /\ store[id].xmin < next_xid /\ store'[id].xmin = store[id].xmin
      BY <2>1 DEF IdInv, StoreOK, SameRows
    <3>2. id \in Nat /\ store[id].xmin \in Nat
      BY <1>1, <2>1
    <3> QED BY <1>1, <3>1, <3>2
  <2>2. CASE id \in N
    BY <2>2 DEF New
  <2> QED BY <2>1, <2>2 DEF SameRows
\* What c refers to is in use, so it is no new id and nobody has put it aside.
<1>3. ASSUME NEW id, Known(c, id)
      PROVE  /\ id < next_id' /\ id \notin N
             /\ \A d \in Conns : Reserves(d) => id # buf[d].new
             /\ id # next_id
  <2>1. id < next_id
    BY <1>3 DEF Known, IdInv, StoreOK, CloneOK, EntriesOK
  <2>2. id \notin N
    BY <1>3 DEF Known, New
  <2>3. \A d \in Conns : Reserves(d) => id # buf[d].new
    BY <1>3 DEF Known, IdInv, Unused, Apart
  <2>4. id < next_id' /\ id # next_id
    <3>1. id \in Nat
      BY <1>1, <1>3, TypeFacts DEF Known
    <3> QED BY <1>1, <2>1, <3>1
  <2> QED BY <2>2, <2>3, <2>4
<1>4. Reads(c)' => Known(c, buf'[c].id)
  BY DEF SameClone, Known
<1>5. EntriesOK(c)'
  BY <1>3 DEF EntriesOK
<1>6. CloneOK(c)'
  <2> SUFFICES ASSUME Reads(c)'
               PROVE  /\ buf'[c].id < next_id'
                      /\ buf'[c].id \in DOMAIN store' =>
                           /\ store'[buf'[c].id].logical = buf'[c].old.logical
                           /\ store'[buf'[c].id].xmin = buf'[c].old.xmin
    BY DEF CloneOK
  <2>1. buf'[c].id < next_id' /\ buf'[c].id \notin N
    BY <1>3, <1>4
  <2>2. buf'[c].id \in DOMAIN store =>
           /\ store[buf'[c].id].logical = buf'[c].old.logical
           /\ store[buf'[c].id].xmin = buf'[c].old.xmin
    BY DEF SameClone, IdInv, CloneOK
  <2> QED BY <2>1, <2>2 DEF SameRows
<1>7. ASSUME NEW d \in Conns, d # c
      PROVE  /\ CloneOK(d)' /\ EntriesOK(d)'
             /\ Reserves(d)' => Unused(buf[d].new)'
  <2>1. Same(d) /\ (Reads(d)' <=> Reads(d)) /\ (Reserves(d)' <=> Reserves(d))
        /\ journal(d)' = journal(d)
    BY <1>7, SameFacts DEF Others
  <2>2. buf[d].id \in Nat /\ buf[d].new \in Nat
    BY TypeFacts
  <2>3. CloneOK(d)'
    <3> SUFFICES ASSUME Reads(d)
                 PROVE  /\ buf[d].id < next_id'
                        /\ buf[d].id \in DOMAIN store' =>
                             /\ store'[buf[d].id].logical = buf[d].old.logical
                             /\ store'[buf[d].id].xmin = buf[d].old.xmin
      BY <2>1 DEF CloneOK, Same
    <3>1. buf[d].id < next_id' /\ buf[d].id \notin N
      BY <1>1, <2>2 DEF IdInv, CloneOK, New
    <3> QED BY <3>1 DEF SameRows, IdInv, CloneOK
  <2>4. EntriesOK(d)'
    <3>1. \A e \in journal(d) : e.id \in Nat /\ e.id < next_id
      BY TypeFacts DEF IdInv, EntriesOK
    <3> QED BY <1>1, <2>1, <3>1 DEF EntriesOK
  <2>5. Reserves(d)' => Unused(buf[d].new)'
    <3> SUFFICES ASSUME Reserves(d) PROVE buf[d].new < next_id' /\ buf[d].new \notin DOMAIN store'
      BY <2>1 DEF Unused, Same
    <3>1. buf[d].new < next_id /\ buf[d].new \notin DOMAIN store
      BY DEF IdInv, Unused
    <3>2. buf[d].new \notin N
      BY <1>7 DEF New
    <3> QED BY <1>1, <2>2, <3>1, <3>2 DEF SameRows
  <2> QED BY <2>3, <2>4, <2>5
<1>8. Reserves(c)' => Unused(buf[c].new)'
  <2> SUFFICES ASSUME Reserves(c)' PROVE buf'[c].new < next_id' /\ buf'[c].new \notin DOMAIN store'
    BY DEF Unused
  <2>1. DOMAIN store' \subseteq DOMAIN store
    BY DEF SameRows
  <2>2. CASE Reserves(c) /\ buf'[c].new = buf[c].new
    <3>1. buf[c].new < next_id /\ buf[c].new \notin DOMAIN store
      BY <2>2 DEF IdInv, Unused
    <3>2. buf[c].new \in Nat
      BY TypeFacts
    <3> QED BY <1>1, <2>1, <2>2, <3>1, <3>2
  <2>3. CASE buf'[c].new = next_id /\ next_id' = next_id + 1
    BY <1>1, <2>1, <2>3 DEF IdInv, StoreOK
  <2> QED BY <2>2, <2>3
<1>9. ASSUME NEW a \in Conns, NEW b \in Conns PROVE Apart(a, b)'
  <2>d. ASSUME NEW d \in Conns, d # c
        PROVE  /\ Same(d) /\ (Reads(d)' <=> Reads(d)) /\ (Reserves(d)' <=> Reserves(d))
               /\ journal(d)' = journal(d)
    BY <2>d, SameFacts DEF Others
  <2>1. CASE a # c /\ b # c
    BY <2>d, <2>1 DEF Apart, IdInv, Same
  <2>2. CASE a # c /\ b = c
    <3> SUFFICES ASSUME Reserves(a)
                 PROVE  /\ Reads(c)' => buf'[c].id # buf[a].new
                        /\ Reserves(c)' => buf'[c].new # buf[a].new
                        /\ \A e \in journal(c)' : e.id # buf[a].new
      BY <2>d, <2>2 DEF Apart, Same
    <3>1. /\ Reads(c)' => buf'[c].id # buf[a].new
          /\ \A e \in journal(c)' : e.id # buf[a].new
      BY <1>3, <1>4
    <3>2. Reserves(c)' => buf'[c].new # buf[a].new
      <4>1. buf[a].new < next_id /\ buf[a].new \in Nat
        BY TypeFacts DEF IdInv, Unused
      <4>2. Reserves(c) => buf[c].new # buf[a].new
        BY <2>2 DEF IdInv, Apart
      <4> QED BY <1>1, <4>1, <4>2
    <3> QED BY <3>1, <3>2
  <2>3. CASE a = c /\ b = c
    <3> SUFFICES ASSUME Reserves(c)'
                 PROVE  /\ Reads(c)' => buf'[c].id # buf'[c].new
                        /\ \A e \in journal(c)' : e.id # buf'[c].new
      BY <2>3 DEF Apart
    <3> QED BY <1>3, <1>4
  <2>4. CASE a = c /\ b # c
    <3> SUFFICES ASSUME Reserves(c)'
                 PROVE  /\ Reads(b) => buf[b].id # buf'[c].new
                        /\ Reserves(b) => buf[b].new # buf'[c].new
                        /\ \A e \in journal(b) : e.id # buf'[c].new
      BY <2>d, <2>4 DEF Apart, Same
    <3>1. CASE Reserves(c) /\ buf'[c].new = buf[c].new
      BY <2>4, <3>1 DEF IdInv, Apart
    <3>2. CASE buf'[c].new = next_id /\ next_id' = next_id + 1
      <4>1. New(c, next_id)
        BY <3>2, FreshIds
      <4> QED BY <2>4, <3>2, <4>1 DEF New
    <3> QED BY <3>1, <3>2
  <2> QED BY <2>1, <2>2, <2>3, <2>4
<1>10. ASSUME NEW d \in Conns PROVE CloneOK(d)' /\ EntriesOK(d)' /\ (Reserves(d)' => Unused(buf[d].new)')
  BY <1>5, <1>6, <1>7, <1>8
<1> QED BY <1>2, <1>9, <1>10 DEF IdInv

\* Nobody's journal loses its versions unless one of an open transaction goes.
LEMMA JournalStep ==
    ASSUME P!Inv, TypeOK, OwnerInv, JournalInv, NEW c \in Conns, Others(c),
           NEW X, X \subseteq Xids(c), Effects(X),
           NEW N, SameRows(N), \A n \in N : New(c, n),
           \A id \in DOMAIN store \ DOMAIN store' : \A d \in Conns \ {c} :
               store[id].xmin \notin txn_xids(d),
           JournalOK(c)'
    PROVE  JournalInv'
<1> SUFFICES ASSUME NEW d \in Conns, d # c PROVE JournalOK(d)'
  BY DEF JournalInv
<1>1. /\ Same(d) /\ txn_xids(d)' = txn_xids(d) /\ journal(d)' = journal(d)
      /\ Xids(c) \cap Xids(d) = {} /\ txn_xids(d) \subseteq Xids(d) /\ JournalOK(d)
  BY SameFacts DEF Others, OwnerInv, Xids, JournalInv
<1>2. ASSUME NEW e \in journal(d) PROVE e.xid \in txn_xids(d)' /\ e.xid \notin aborted'
  BY <1>1 DEF JournalOK, Effects
<1>3. ASSUME NEW e \in ToSet(updates[d])
      PROVE  /\ e.new \in DOMAIN store' /\ store'[e.new].xmin = e.xid
             /\ e.id \in DOMAIN store' => store'[e.id].logical = store'[e.new].logical
  <2>1. /\ e \in journal(d) /\ e.new \in DOMAIN store /\ store[e.new].xmin = e.xid
        /\ e.id \in DOMAIN store => store[e.id].logical = store[e.new].logical
    BY <1>1 DEF JournalOK, journal
  <2>2. e.new \in DOMAIN store'
    BY <1>1, <2>1 DEF JournalOK
  <2>3. e.id \in DOMAIN store' => e.id \in DOMAIN store
    BY <2>1 DEF New, SameRows
  <2> QED BY <2>1, <2>2, <2>3 DEF SameRows
<1> QED BY <1>1, <1>2, <1>3 DEF JournalOK, Same

\* No new entry and no new clone is of a version of somebody's open transaction.
LEMMA IsolationStep ==
    ASSUME P!Inv, TypeOK, IdInv, IsolationInv, NEW c \in Conns, Others(c),
           NEW X, Effects(X), NEW N, SameRows(N), \A n \in N : New(c, n),
           txn_xids(c)' \subseteq txn_xids(c) \cup (begun' \ begun),
           phase[c] = "publishing" =>
               (phase'[c] = "publishing" /\ store' = store) \/ txn_xids(c)' = {},
           \A d \in Conns \ {c} : phase[d] = "publishing" =>
               \A id \in DOMAIN store \cap DOMAIN store' :
                   store[id].xmin \in txn_xids(d) => store'[id].xmax = store[id].xmax,
           \A e \in journal(c)' : \/ e \in journal(c)
                                  \/ \A d \in Conns \ {c} :
                                        e.id \in DOMAIN store => store[e.id].xmin \notin txn_xids(d),
           Reads(c)' => \/ SameClone(c)
                        \/ \A d \in Conns \ {c} :
                              buf'[c].id \in DOMAIN store /\ store[buf'[c].id].xmin \in txn_xids(d)
                              => phase[d] = "publishing" /\ buf'[c].old.xmax = store[buf'[c].id].xmax,
           \A e \in journal(c)' : Known(c, e.id),
           Reads(c)' => Known(c, buf'[c].id)
    PROVE  IsolationInv'
<1>d. ASSUME NEW d \in Conns, d # c
      PROVE  /\ Same(d) /\ txn_xids(d)' = txn_xids(d) /\ journal(d)' = journal(d)
             /\ (Reads(d)' <=> Reads(d)) /\ phase'[d] = phase[d] /\ buf'[d] = buf[d]
  BY <1>d, SameFacts DEF Others, Same
\* What anybody refers to is no new version.
<1>n. ASSUME NEW d \in Conns
      PROVE  /\ \A e \in journal(d) : e.id \notin N
             /\ Reads(d) => buf[d].id \notin N
             /\ \A id : Known(c, id) => id \notin N
  BY DEF New, Known
<1>s. ASSUME NEW id \in DOMAIN store', id \notin N
      PROVE  id \in DOMAIN store /\ store'[id].xmin = store[id].xmin
  BY <1>s DEF SameRows
<1>x. ASSUME NEW id \in DOMAIN store, store[id].xmin \in txn_xids(c)'
      PROVE  store[id].xmin \in txn_xids(c)
  <2>1. store[id].xmin \in Nat /\ next_xid \in Nat /\ store[id].xmin < next_xid
    BY TypeFacts, ManagerFacts DEF IdInv, StoreOK
  <2>2. store[id].xmin \notin begun' \ begun
    BY <2>1 DEF Effects
  <2> QED BY <1>x, <2>2
<1> SUFFICES ASSUME NEW a \in Conns, NEW b \in Conns, a # b PROVE Isolated(a, b)'
  BY DEF IsolationInv
<1>0. Isolated(a, b)
  BY DEF IsolationInv
<1>1. CASE a # c /\ b # c
  <2>1. \A e \in journal(b) : e.id \in DOMAIN store' => store'[e.id].xmin \notin txn_xids(a)
    BY <1>0, <1>n, <1>s DEF Isolated
  <2>2. ASSUME Reads(b), buf[b].id \in DOMAIN store', store'[buf[b].id].xmin \in txn_xids(a)
        PROVE  phase[a] = "publishing" /\ buf[b].old.xmax = store'[buf[b].id].xmax
    <3>1. buf[b].id \in DOMAIN store /\ store'[buf[b].id].xmin = store[buf[b].id].xmin
      BY <1>n, <1>s, <2>2
    <3>2. phase[a] = "publishing" /\ buf[b].old.xmax = store[buf[b].id].xmax
      BY <1>0, <2>2, <3>1 DEF Isolated
    <3> QED BY <1>1, <2>2, <3>1, <3>2
  <2> QED BY <1>1, <1>d, <2>1, <2>2 DEF Isolated
<1>2. CASE a = c /\ b # c
  <2>1. \A e \in journal(b) : e.id \in DOMAIN store' => store'[e.id].xmin \notin txn_xids(c)'
    BY <1>0, <1>2, <1>n, <1>s, <1>x DEF Isolated
  <2>2. ASSUME Reads(b), buf[b].id \in DOMAIN store', store'[buf[b].id].xmin \in txn_xids(c)'
        PROVE  phase'[c] = "publishing" /\ buf[b].old.xmax = store'[buf[b].id].xmax
    <3>1. /\ buf[b].id \in DOMAIN store /\ store'[buf[b].id].xmin = store[buf[b].id].xmin
          /\ store[buf[b].id].xmin \in txn_xids(c)
      BY <1>n, <1>s, <1>x, <2>2
    <3>2. phase[c] = "publishing" /\ buf[b].old.xmax = store[buf[b].id].xmax
      BY <1>0, <1>2, <2>2, <3>1 DEF Isolated
    <3> QED BY <2>2, <3>1, <3>2
  <2> QED BY <1>2, <1>d, <2>1, <2>2 DEF Isolated
<1>3. CASE a # c /\ b = c
  <2>1. ASSUME NEW e \in journal(c)', e.id \in DOMAIN store'
        PROVE  store'[e.id].xmin \notin txn_xids(a)
    <3>1. e.id \in DOMAIN store /\ store'[e.id].xmin = store[e.id].xmin
      BY <1>n, <1>s, <2>1
    <3> QED BY <1>0, <1>3, <3>1 DEF Isolated
  <2>2. ASSUME Reads(c)', buf'[c].id \in DOMAIN store', store'[buf'[c].id].xmin \in txn_xids(a)
        PROVE  phase[a] = "publishing" /\ buf'[c].old.xmax = store'[buf'[c].id].xmax
    <3>1. buf'[c].id \in DOMAIN store /\ store'[buf'[c].id].xmin = store[buf'[c].id].xmin
      BY <1>n, <1>s, <2>2
    <3>2. phase[a] = "publishing" /\ buf'[c].old.xmax = store[buf'[c].id].xmax
      BY <1>0, <1>3, <2>2, <3>1 DEF Isolated, SameClone
    <3> QED BY <1>3, <2>2, <3>1, <3>2
  <2> QED BY <1>3, <1>d, <2>1, <2>2 DEF Isolated
<1> QED BY <1>1, <1>2, <1>3

\* Stamps stay accounted for if what c puts on a version or keeps for one was
\* there, or is its own, and if c answers for what it answered for.
LEMMA StampStep ==
    ASSUME P!Inv, TypeOK, IdInv, StampInv, NEW c \in Conns, Others(c),
           NEW X, Effects(X), NEW N, SameRows(N), \A n \in N : New(c, n),
           txn_xids(c)' \subseteq txn_xids(c) \cup (begun' \ begun),
           \A r \in Ids : latest'[r] \in DOMAIN store => Current(latest'[r]),
           \A n \in N : n \in DOMAIN store' => store'[n].xmax = XID_NONE,
           \A n \in N : \A x : ~ Keeps(c, n, x)',
           \A id \in DOMAIN store \cap DOMAIN store' : Current(id) /\ Current(id)' =>
               \A x \in 0..MaxXid : store'[id].xmax = x => Stamp(id, x) \/ Accounted(id, x)',
           \A id \in DOMAIN store \cap DOMAIN store' : \A x \in 0..MaxXid : Current(id) /\ Current(id)' =>
               /\ Keeps(c, id, x)' => Stamp(id, x)
               /\ Answers(c, id, x) /\ Stamp(id, x)' => Accounted(id, x)'
    PROVE  StampInv'
<1>d. ASSUME NEW d \in Conns, d # c
      PROVE  /\ txn_xids(d)' = txn_xids(d)
             /\ \A id, x : Keeps(d, id, x)' => Keeps(d, id, x)
             /\ \A id, x : Answers(d, id, x) => Answers(d, id, x)'
  <2>1. Same(d) /\ txn_xids(d)' = txn_xids(d) /\ journal(d)' = journal(d)
    BY <1>d, SameFacts DEF Others
  <2> QED BY <2>1 DEF Keeps, Answers, Same
<1> SUFFICES ASSUME NEW id \in DOMAIN store', Current(id)', NEW x \in 0..MaxXid, Stamp(id, x)'
             PROVE  Accounted(id, x)'
  BY DEF StampInv
<1>1. CASE id \in DOMAIN store
  <2>1. Current(id)
    <3>1. CASE \E r \in Ids : latest'[r] = id
      BY <1>1, <3>1
    <3>2. CASE \E d \in Conns : store'[id].xmin \in txn_xids(d)'
      <4>1. PICK d \in Conns : store'[id].xmin \in txn_xids(d)'
        BY <3>2
      <4>2. store'[id].xmin = store[id].xmin
        BY <1>1 DEF SameRows
      <4>3. store[id].xmin \notin begun' \ begun
        <5>1. store[id].xmin \in Nat /\ next_xid \in Nat /\ store[id].xmin < next_xid
          BY <1>1, TypeFacts, ManagerFacts DEF IdInv, StoreOK
        <5> QED BY <5>1 DEF Effects
      <4>4. store[id].xmin \in txn_xids(d)
        BY <1>d, <4>1, <4>2, <4>3
      <4> QED BY <4>4 DEF Current
    <3> QED BY <3>1, <3>2 DEF Current
  <2>2. Stamp(id, x) \/ Accounted(id, x)'
    <3>1. CASE store'[id].xmax = x
      BY <1>1, <2>1, <3>1
    <3>2. CASE \E d \in Conns : Keeps(d, id, x)'
      <4>1. PICK d \in Conns : Keeps(d, id, x)'
        BY <3>2
      <4>2. CASE d = c
        BY <1>1, <2>1, <4>1, <4>2
      <4>3. CASE d # c
        BY <1>d, <4>1, <4>3 DEF Stamp
      <4> QED BY <4>2, <4>3
    <3> QED BY <3>1, <3>2 DEF Stamp
  <2>3. ASSUME Stamp(id, x) PROVE Accounted(id, x)'
    <3>1. Accounted(id, x)
      BY <1>1, <2>1, <2>3 DEF StampInv
    <3>2. CASE x = XID_NONE \/ x \in aborted
      BY <3>2 DEF Accounted, Effects
    <3>3. CASE \E d \in Conns : Answers(d, id, x)
      <4>1. PICK d \in Conns : Answers(d, id, x)
        BY <3>3
      <4>2. CASE d = c
        BY <1>1, <2>1, <4>1, <4>2
      <4>3. CASE d # c
        BY <1>d, <4>1, <4>3 DEF Accounted
      <4> QED BY <4>2, <4>3
    <3> QED BY <3>1, <3>2, <3>3 DEF Accounted
  <2> QED BY <2>2, <2>3
<1>2. CASE id \in N
  <2>1. ASSUME NEW d \in Conns PROVE ~ Keeps(d, id, x)'
    <3>1. CASE d = c
      BY <1>2, <3>1
    <3>2. CASE d # c
      <4>1. ~ Keeps(d, id, x)
        BY <1>2 DEF New, Keeps, Reads
      <4> QED BY <1>d, <3>2, <4>1
    <3> QED BY <3>1, <3>2
  <2>2. store'[id].xmax = XID_NONE
    BY <1>2
  <2> QED BY <2>1, <2>2 DEF Stamp, Accounted
<1> QED BY <1>1, <1>2 DEF SameRows

\* A settled writer stays settled.
LEMMA SettledStep ==
    ASSUME P!Inv, NEW X, Effects(X), NEW x \in Nat, x < next_xid, Settled(x)
    PROVE  Settled(x)'
<1>1. next_xid \in Nat
  BY ManagerFacts
<1>2. x \notin begun' \ begun
  BY <1>1 DEF Effects
<1>3. x \in Manager!pool_slots' => x \in Manager!pool_slots
  BY <1>1 DEF Effects
<1> QED BY <1>2, <1>3 DEF Settled, Effects

\* The last committed versions stay if they are not discarded.
LEMMA LatestStep ==
    ASSUME P!Inv, TypeOK, IdInv, LatestInv, NEW X, Effects(X), NEW N, SameRows(N),
           \A r \in Ids : \/ LatestOK(r)'
                          \/ /\ latest'[r] = latest[r]
                             /\ latest[r] \in DOMAIN store => latest[r] \in DOMAIN store'
    PROVE  LatestInv'
<1> SUFFICES ASSUME NEW r \in Ids, latest'[r] = latest[r], latest[r] # 0,
                    latest[r] \in DOMAIN store => latest[r] \in DOMAIN store'
             PROVE  LatestOK(r)'
  BY DEF LatestInv, LatestOK
<1>1. /\ latest[r] \in DOMAIN store /\ store[latest[r]].logical = r
      /\ Settled(store[latest[r]].xmin)
  BY DEF LatestInv, LatestOK
<1>2. /\ store'[latest[r]].logical = store[latest[r]].logical
      /\ store'[latest[r]].xmin = store[latest[r]].xmin
  BY <1>1 DEF SameRows
<1>3. store[latest[r]].xmin \in Nat /\ store[latest[r]].xmin < next_xid
  BY <1>1, TypeFacts DEF IdInv, StoreOK
<1>4. Settled(store[latest[r]].xmin)'
  BY <1>1, <1>2, <1>3, SettledStep DEF Settled
<1> QED BY <1>1, <1>2, <1>4 DEF LatestOK

\* The steps that leave the store, the journals and the last committed
\* versions alone.
LEMMA QuietStep ==
    ASSUME Inv, NEW c \in Conns, Others(c), NEW X, X \subseteq Xids(c), Effects(X),
           store' = store, latest' = latest, updates' = updates, tombstones' = tombstones,
           next_id' \in Nat, next_id <= next_id', LocalOK(c)',
           txn_xids(c)' \subseteq txn_xids(c) \cup (begun' \ begun),
           auto_xids(c)' \subseteq auto_xids(c) \cup (begun' \ begun),
           \A e \in journal(c) : e.xid \in txn_xids(c)' /\ e.xid \notin aborted',
           phase[c] = "publishing" => phase'[c] = "publishing",
           Reads(c)' => \/ SameClone(c)
                        \/ /\ buf'[c].id \in DOMAIN store /\ buf'[c].old = store[buf'[c].id]
                           /\ \A d \in Conns \ {c} : store[buf'[c].id].xmin \in txn_xids(d)
                                                       => phase[d] = "publishing",
           Reserves(c)' => \/ Reserves(c) /\ buf'[c].new = buf[c].new
                           \/ buf'[c].new = next_id /\ next_id' = next_id + 1,
           phase'[c] \in {"updating", "deleting"} =>
               buf'[c].old = store[buf'[c].id] \/ (phase' = phase /\ buf' = buf),
           \A id, x : Answers(c, id, x) => Answers(c, id, x)' \/ x \in aborted'
    PROVE  StateInv'
<1> USE DEF Inv, StateInv
<1>1. journal(c)' = journal(c)
  BY DEF journal
<1>2. SameRows({}) /\ DOMAIN store' = DOMAIN store
  BY DEF SameRows
<1>3. Xids(c)' \subseteq Xids(c) \cup (begun' \ begun)
  BY DEF Xids
<1>4. LocalInv' /\ OwnerInv'
  BY <1>3, LocalStep
<1>5. \A e \in journal(c)' : Known(c, e.id)
  BY <1>1 DEF Known
<1>6. Reads(c)' => Known(c, buf'[c].id)
  BY DEF SameClone, Known
<1>7. IdInv'
  <2>1. Reads(c)' => SameClone(c) \/ (buf'[c].id \in DOMAIN store /\ buf'[c].old = store[buf'[c].id])
    OBVIOUS
  <2> HIDE DEF Inv, StateInv
  <2>2. P!Inv /\ TypeOK /\ IdInv
    BY DEF Inv, StateInv
  <2> QED BY <1>2, <1>5, <2>1, <2>2, IdStep
<1>8. JournalOK(c)'
  BY <1>1 DEF JournalInv, JournalOK
<1>9. JournalInv'
  BY <1>2, <1>8, JournalStep
<1>10. IsolationInv'
  <2>1. Reads(c)' => \/ SameClone(c)
                     \/ \A d \in Conns \ {c} :
                           buf'[c].id \in DOMAIN store /\ store[buf'[c].id].xmin \in txn_xids(d)
                           => phase[d] = "publishing" /\ buf'[c].old.xmax = store[buf'[c].id].xmax
    OBVIOUS
  <2>2. \A e \in journal(c)' : e \in journal(c)
    BY <1>1
  <2> HIDE DEF Inv, StateInv
  <2>3. P!Inv /\ TypeOK /\ IdInv /\ IsolationInv
    BY DEF Inv, StateInv
  <2> QED BY <1>2, <1>5, <1>6, <2>1, <2>2, <2>3, IsolationStep
<1>11. StampInv'
  <2>1. \A r \in Ids : latest'[r] \in DOMAIN store => Current(latest'[r])
    BY DEF Current
  <2>2. \A id \in DOMAIN store, x \in 0..MaxXid : Keeps(c, id, x)' => Stamp(id, x)
    <3> SUFFICES ASSUME NEW id \in DOMAIN store, NEW x \in 0..MaxXid, Keeps(c, id, x)'
                 PROVE  Stamp(id, x)
      OBVIOUS
    <3>1. CASE \E e \in journal(c)' : e.id = id /\ e.previous_xmax = x
      BY <1>1, <3>1 DEF Stamp, Keeps
    <3>2. CASE phase'[c] \in {"updating", "deleting"} /\ buf'[c].id = id /\ buf'[c].old.xmax = x
      BY <3>2 DEF Stamp, Keeps
    <3> QED BY <3>1, <3>2 DEF Keeps
  <2>3. \A id, x : Answers(c, id, x) => Accounted(id, x)'
    BY DEF Accounted
  <2>4. \A id \in DOMAIN store, x \in 0..MaxXid : store'[id].xmax = x => Stamp(id, x)
    BY DEF Stamp
  <2> HIDE DEF Inv, StateInv
  <2>5. P!Inv /\ TypeOK /\ IdInv /\ StampInv
    BY DEF Inv, StateInv
  <2> QED BY <1>2, <2>1, <2>2, <2>3, <2>4, <2>5, StampStep
<1>12. LatestInv'
  BY <1>2, LatestStep
<1> QED BY <1>4, <1>7, <1>9, <1>10, <1>11, <1>12

-----------------------------------------------------------------------------
(* Contexts.                                                               *)

\* Two sequences and then an element that is in neither.
Ending(a, b, x) == a \o b \o <<x>>
LEMMA EndsInFacts ==
    ASSUME NEW a \in Seq(1..MaxXid), NEW b \in Seq(1..MaxXid), NEW x \in 1..MaxXid
    PROVE  /\ Ending(a, b, x) \in Seq(1..MaxXid)
           /\ Ending(a, b, x) # <<>>
           /\ ToSet(Ending(a, b, x)) = ToSet(a) \cup ToSet(b) \cup {x}
           /\ x \notin ToSet(a) \cup ToSet(b) => EndsIn(Ending(a, b, x), x)
<1> DEFINE S == 1..MaxXid
<1>0. a \in Seq(S) /\ b \in Seq(S) /\ x \in S
  OBVIOUS
<1> HIDE DEF S
<1> DEFINE s == a \o b
           t == <<x>>
           q == s \o t
<1>1. s \in Seq(S) /\ ToSet(s) = ToSet(a) \cup ToSet(b)
  BY <1>0, ToSetConcat, ConcatProperties
<1>2. t \in Seq(S) /\ Len(t) = 1 /\ t[1] = x
  BY <1>0
<1> HIDE DEF s, t
<1>3. ToSet(t) = {x}
  <2>1. ToSet(t) = {t[i] : i \in 1..1}
    BY <1>2, ToSetIn
  <2> QED BY <1>2, <2>1
<1>4. Len(s) \in Nat /\ ToSet(s) = {s[i] : i \in 1..Len(s)}
  BY <1>1, ToSetIn, LenProperties
<1>c. /\ q \in Seq(S) /\ Len(q) = Len(s) + Len(t)
      /\ \A i \in 1..Len(s) + Len(t) : q[i] = IF i <= Len(s) THEN s[i] ELSE t[i - Len(s)]
  BY <1>1, <1>2, ConcatProperties
<1>6. ToSet(q) = ToSet(s) \cup ToSet(t)
  BY <1>1, <1>2, ToSetConcat
<1>e. q = Ending(a, b, x)
  BY DEF Ending, s, t
<1> HIDE DEF q
<1>5. /\ q \in Seq(S) /\ Len(q) = Len(s) + 1
      /\ \A i \in 1..Len(s) + 1 : q[i] = IF i <= Len(s) THEN s[i] ELSE t[i - Len(s)]
  BY <1>2, <1>c
<1>7. q # <<>>
  <2>1. Len(q) # 0
    BY <1>4, <1>5
  <2> QED BY <2>1
<1>8. ASSUME x \notin ToSet(s), NEW i \in 1..Len(q) PROVE q[i] = x <=> i = Len(q)
  <2>1. CASE i <= Len(s)
    <3>1. i \in 1..Len(s) /\ q[i] = s[i] /\ i # Len(q)
      BY <1>4, <1>5, <2>1
    <3> QED BY <1>4, <1>8, <3>1
  <2>2. CASE ~ (i <= Len(s))
    <3>1. i = Len(q) /\ i - Len(s) = 1
      BY <1>4, <1>5, <2>2
    <3> QED BY <1>2, <1>5, <2>2, <3>1
  <2> QED BY <2>1, <2>2
<1> QED BY <1>1, <1>3, <1>5, <1>6, <1>7, <1>8, <1>e DEF EndsIn, S

\* The types of a context, and its xids.
LEMMA ContextFacts ==
    ASSUME TypeOK, NEW c \in Conns
    PROVE  /\ ctx[c] \in Context /\ ctx[c].xid \in 0..MaxXid /\ ctx[c].snapshot \in Manager!Snapshot
           /\ ctx[c].savepoints \in Seq(1..MaxXid) /\ ctx[c].released \in Seq(1..MaxXid)
           /\ group(ctx[c]) \subseteq 1..MaxXid
           /\ own_xids(c) = group(ctx[c])
           /\ in_transaction(c) => ctx[c].xid \in group(ctx[c]) /\ writer_xid(c) \in group(ctx[c])
           /\ ~ in_transaction(c) => group(ctx[c]) = {}
<1>1. /\ ctx[c] \in Context /\ ctx[c].xid \in 0..MaxXid /\ ctx[c].snapshot \in Manager!Snapshot
      /\ ctx[c].savepoints \in Seq(1..MaxXid) /\ ctx[c].released \in Seq(1..MaxXid)
  BY DEF TypeOK, Context
<1>2. /\ ToSet(ctx[c].savepoints) \subseteq 1..MaxXid /\ ToSet(ctx[c].released) \subseteq 1..MaxXid
  BY <1>1, ToSetIn
<1>3. group(ctx[c]) \subseteq 1..MaxXid
  BY <1>1, <1>2, ManagerAssumption DEF group, XID_NONE
<1>4. ASSUME in_transaction(c)
      PROVE  /\ ToSet(ending_xids(c)) = group(ctx[c])
             /\ ctx[c].xid \in group(ctx[c]) /\ writer_xid(c) \in group(ctx[c])
  <2>1. ctx[c].xid \in 1..MaxXid
    BY <1>1, <1>4, ManagerAssumption DEF in_transaction, XID_NONE
  <2>2. ToSet(Ending(ctx[c].savepoints, ctx[c].released, ctx[c].xid))
           = ToSet(ctx[c].savepoints) \cup ToSet(ctx[c].released) \cup {ctx[c].xid}
    BY <1>1, <2>1, EndsInFacts
  <2>3. ToSet(ending_xids(c)) = group(ctx[c])
    <3>1. ending_xids(c) = Ending(ctx[c].savepoints, ctx[c].released, ctx[c].xid)
      BY DEF ending_xids, Ending
    <3> QED BY <1>4, <2>2, <3>1 DEF group, in_transaction
  <2>4. ctx[c].savepoints # <<>> => Last(ctx[c].savepoints) \in ToSet(ctx[c].savepoints)
    <3> SUFFICES ASSUME ctx[c].savepoints # <<>>
                 PROVE  Last(ctx[c].savepoints) \in ToSet(ctx[c].savepoints)
      OBVIOUS
    <3>1. Len(ctx[c].savepoints) \in 1..Len(ctx[c].savepoints)
      BY <1>1, EmptySeq
    <3> QED BY <1>1, <3>1, ToSetIn DEF Last
  <2> QED BY <1>4, <2>3, <2>4 DEF group, writer_xid, in_transaction
<1>5. ~ in_transaction(c) => group(ctx[c]) = {} /\ own_xids(c) = {}
  BY DEF group, own_xids, in_transaction
<1>6. in_transaction(c) => own_xids(c) = group(ctx[c])
  BY <1>4 DEF own_xids
<1> QED BY <1>1, <1>3, <1>4, <1>5, <1>6

\* What commit and rollback go through: all xids, the parent's last.
LEMMA EndingFacts ==
    ASSUME TypeOK, NEW c \in Conns, in_transaction(c), OrderOK(c)
    PROVE  /\ ending_xids(c) \in Seq(1..MaxXid) /\ ending_xids(c) # <<>>
           /\ ToSet(ending_xids(c)) = group(ctx[c])
           /\ EndsIn(ending_xids(c), ctx[c].xid)
<1>1. /\ ctx[c].xid \in 1..MaxXid /\ ctx[c].xid \in Nat
      /\ ctx[c].savepoints \in Seq(1..MaxXid) /\ ctx[c].released \in Seq(1..MaxXid)
  BY ContextFacts, ManagerAssumption DEF in_transaction, XID_NONE
<1>2. ctx[c].xid \notin ToSet(ctx[c].savepoints) \cup ToSet(ctx[c].released)
  <2>1. \A x \in ToSet(ctx[c].savepoints) \cup ToSet(ctx[c].released) : ctx[c].xid < x
    BY DEF OrderOK
  <2> QED BY <1>1, <2>1
<1>3. /\ ending_xids(c) = Ending(ctx[c].savepoints, ctx[c].released, ctx[c].xid)
      /\ group(ctx[c]) = ToSet(ctx[c].savepoints) \cup ToSet(ctx[c].released) \cup {ctx[c].xid}
  BY DEF ending_xids, Ending, group, in_transaction
<1> DEFINE q == Ending(ctx[c].savepoints, ctx[c].released, ctx[c].xid)
<1>4. /\ q \in Seq(1..MaxXid) /\ q # <<>> /\ EndsIn(q, ctx[c].xid)
      /\ ToSet(q) = ToSet(ctx[c].savepoints) \cup ToSet(ctx[c].released) \cup {ctx[c].xid}
  BY <1>1, <1>2, EndsInFacts
<1> HIDE DEF q
<1>5. ending_xids(c) = q
  BY <1>3 DEF q
<1> QED BY <1>3, <1>4, <1>5
=============================================================================
