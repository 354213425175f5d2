------------------------ MODULE SnapshotManagerProofs ------------------------
(***************************************************************************)
(* Proofs about SnapshotManager, for every number of xids, pool size and   *)
(* finite set of frames.  The inductive invariant Inv says of every        *)
(* captured snapshot that the writers it shows have finished (Covers) and  *)
(* that the cutoff in use is below everything it excludes (Spares), and    *)
(* adds what keeps those two true: the allocator and the pool never hand   *)
(* out a number twice, and every snapshot's exclusions are above a         *)
(* horizon that the cutoff is a lower bound of.                            *)
(***************************************************************************)
EXTENDS SnapshotManager, FiniteSetTheorems, WellFoundedInduction, TLAPS

\* Every writer s shows, but its owner, is settled.
Covers(s) ==
    \A y \in Xid : y <= s.xid /\ y \notin s.in_progress => y = s.owner \/ Finished(y)

\* s shows every begun xid below the cutoff in use.
Spares(s) ==
    \A y \in begun : y < vac_cutoff => y <= s.xid /\ y \notin s.in_progress

\* h is a horizon of s: not above bound nor above anything s excludes.
Bounds(h, bound, s) ==
    h <= bound /\ \A y \in s.in_progress : h <= y

\* The window lies below the allocator, and no begun xid is a slot.
AllocInv ==
    /\ pool_next <= pool_end /\ pool_end <= next_xid
    /\ pool_next = 0 => pool_end = 0
    /\ active \subseteq begun
    /\ aborted \subseteq begun \ active
    /\ \A y \in begun : y < next_xid /\ y \notin pool_slots

\* The snapshots transactions hold, and the horizons registered for them.
HeldInv ==
    \A x \in Xid :
        /\ x \notin active => held[x] = {}
        /\ \A s \in held[x] : /\ s.xid = x /\ s.owner = x
                              /\ Covers(s) /\ Spares(s)
                              /\ snapshot_horizons[x] > 0
                              /\ Bounds(snapshot_horizons[x], x, s)

\* The snapshots open frames hold.  An AS OF snapshot is not captured, so it
\* has a horizon but neither of the two guarantees.
FrameInv ==
    \A f \in Frames :
        /\ frame[f].kind # "closed" => Bounds(frame[f].horizon, frame[f].snap.xid + 1, frame[f].snap)
        /\ frame[f].kind = "captured" => Covers(frame[f].snap) /\ Spares(frame[f].snap)

\* The cutoff in use is below the peeked allocator and every active xid.
VacuumInv ==
    /\ vac_next <= next_xid
    /\ vac_cutoff <= vac_next
    /\ \A x \in active : vac_cutoff <= x

\* The inductive invariant.
Inv == TypeOK /\ AllocInv /\ HeldInv /\ FrameInv /\ VacuumInv /\ HorizonsCounted

-----------------------------------------------------------------------------
(* Facts about minima and maxima.                                          *)

\* A non-empty set of naturals has a least element: the intervals 0..x are
\* finite sets, and strict inclusion is well founded on those.
LEMMA NatMin ==
    ASSUME NEW S, S \subseteq Nat, S # {}
    PROVE  /\ Min(S) \in S
           /\ \A y \in S : Min(S) <= y
<1> DEFINE T == {0..x : x \in S}
           R == StrictSubsetOrdering(Nat)
<1>1. IsWellFoundedOn(R, FiniteSubsetsOf(Nat))
  BY FS_StrictSubsetOrderingWellFounded
<1>2. T \subseteq FiniteSubsetsOf(Nat) /\ T # {}
  <2>1. ASSUME NEW x \in S PROVE 0..x \in FiniteSubsetsOf(Nat)
    <3>1. x \in Int /\ 0 \in Int
      OBVIOUS
    <3>2. IsFiniteSet(0..x)
      BY <3>1, FS_Interval
    <3> QED BY <3>2 DEF FiniteSubsetsOf
  <2> QED BY <2>1
<1>3. PICK t \in T : \A u \in T : ~ (<<u, t>> \in R)
  <2> HIDE DEF R, T
  <2> QED BY <1>1, <1>2, WFMin
<1>4. PICK x \in S : t = 0..x
  BY <1>3
<1>5. ASSUME NEW y \in S
      PROVE  x <= y
  <2>1. SUFFICES ASSUME y < x PROVE FALSE
    BY <1>4
  <2>2. 0..y \in T /\ 0..y \subseteq t /\ x \in t /\ x \notin 0..y
    BY <1>4, <2>1
  <2>3. <<0..y, t>> \in R
    BY <1>2, <2>2 DEF StrictSubsetOrdering
  <2> QED BY <1>3, <2>2, <2>3
<1> QED
  BY <1>4, <1>5 DEF Min

\* Lowest is a member of what it ranges over and a lower bound of it.
LEMMA LowestBound ==
    ASSUME NEW bound \in Nat, NEW S, S \subseteq Nat
    PROVE  /\ Lowest(bound, S) \in S \cup {bound}
           /\ Lowest(bound, S) <= bound
           /\ \A y \in S : Lowest(bound, S) <= y
<1>1. S \cup {bound} \subseteq Nat /\ S \cup {bound} # {}
  OBVIOUS
<1> QED BY <1>1, NatMin DEF Lowest

\* Max and Min of two numbers, as observe_committed_xid uses them.
LEMMA MaxMinPair ==
    ASSUME NEW a \in Nat, NEW b \in Nat
    PROVE  /\ Max({a, b}) = IF a >= b THEN a ELSE b
           /\ Min({a, b}) = IF a <= b THEN a ELSE b
  BY DEF Max, Min

-----------------------------------------------------------------------------
(* What a step cannot take away from a snapshot.                           *)

\* A snapshot stays covered as long as finished writers stay finished.
LEMMA CoversKept ==
    ASSUME NEW s, Covers(s), \A y \in Xid : Finished(y) => Finished(y)'
    PROVE  Covers(s)'
  BY DEF Covers, Xid

\* A snapshot stays spared as long as the cutoff stays or is given up and
\* the xids that begin are above it.
LEMMA SparesKept ==
    ASSUME NEW s, Spares(s), TypeOK, TypeOK', VacuumInv,
           vac_cutoff' = vac_cutoff \/ vac_cutoff' = 0,
           begun' = begun \/ begun' = begun \cup {next_xid}
    PROVE  Spares(s)'
  BY DEF Spares, TypeOK, VacuumInv, Xid

\* The actions that neither capture nor give up a snapshot keep HeldInv and
\* FrameInv.
LEMMA SnapshotsKept ==
    ASSUME Inv, TypeOK',
           held' = held, frame' = frame, snapshot_horizons' = snapshot_horizons,
           active \subseteq active',
           \A y \in Xid : Finished(y) => Finished(y)',
           vac_cutoff' = vac_cutoff \/ vac_cutoff' = 0,
           begun' = begun \/ begun' = begun \cup {next_xid}
    PROVE  HeldInv' /\ FrameInv'
<1> USE DEF Inv
<1>1. \A s : Covers(s) => Covers(s)'
  BY CoversKept
<1>2. \A s : Spares(s) => Spares(s)'
  BY SparesKept
<1>3. HeldInv'
  BY <1>1, <1>2 DEF HeldInv, Bounds
<1>4. FrameInv'
  BY <1>1, <1>2 DEF FrameInv, Bounds
<1> QED BY <1>3, <1>4

-----------------------------------------------------------------------------
(* Init and the actions.                                                   *)

\* The invariant holds when SnapshotManager::new returns.
LEMMA InvInit == Init => Inv
<1> SUFFICES ASSUME Init PROVE Inv
  OBVIOUS
<1> USE MaxXidAssumption DEF Init
<1>1. TypeOK
  BY DEF TypeOK, Xid, Frame, NoFrame, Snapshot, XID_NONE
<1>2. AllocInv /\ HeldInv /\ VacuumInv
  BY DEF AllocInv, HeldInv, VacuumInv, Xid
<1>3. FrameInv
  BY DEF FrameInv, NoFrame
<1>4. HorizonsCounted
  <2>1. \A h : {f \in Frames : frame[f].kind # "closed" /\ frame[f].horizon = h} = {}
    BY DEF NoFrame
  <2> QED BY <2>1, FS_EmptySet DEF HorizonsCounted
<1> QED BY <1>1, <1>2, <1>3, <1>4 DEF Inv

\* begin retires the window, so the new xid is above every snapshot but not
\* in the pool, and above every cutoff computed before it.
LEMMA InvBegin == Inv /\ begin => Inv'
<1> SUFFICES ASSUME Inv, begin PROVE Inv'
  OBVIOUS
<1> USE MaxXidAssumption DEF Inv
<1>1. TypeOK'
  BY DEF TypeOK, begin, Xid
<1>2. AllocInv'
  BY DEF TypeOK, AllocInv, begin, pool_slots, Xid
<1>3. \A y \in Xid : Finished(y) => Finished(y)'
  BY DEF TypeOK, AllocInv, begin, pool_slots, Finished, Xid
<1>4. HeldInv' /\ FrameInv'
  BY <1>1, <1>3, SnapshotsKept DEF begin
<1>5. VacuumInv'
  BY DEF TypeOK, VacuumInv, begin, Xid
<1>6. HorizonsCounted'
  BY DEF HorizonsCounted, begin
<1> QED BY <1>1, <1>2, <1>4, <1>5, <1>6

\* allocate_committed_xid moves inside the window or opens one above all that
\* was handed out, so no snapshot's settled writer becomes a slot again.
LEMMA InvAllocate == Inv /\ allocate_committed_xid => Inv'
<1> SUFFICES ASSUME Inv, allocate_committed_xid PROVE Inv'
  OBVIOUS
<1> USE MaxXidAssumption, BatchAssumption DEF Inv
<1>n. /\ MaxXid \in Nat /\ next_xid \in Nat /\ pool_next \in Nat /\ pool_end \in Nat
      /\ AutocommitPoolBatch \in Nat /\ AutocommitPoolBatch > 0
      /\ next_xid <= MaxXid + 1 /\ next_xid > 0 /\ pool_end <= MaxXid + 1
  BY DEF TypeOK
<1>u. /\ active' = active /\ aborted' = aborted /\ begun' = begun
      /\ held' = held /\ frame' = frame /\ pinned' = pinned
      /\ snapshot_horizons' = snapshot_horizons
      /\ statement_horizons' = statement_horizons
      /\ vac_next' = vac_next /\ vac_cutoff' = vac_cutoff
  BY DEF allocate_committed_xid
\* The window after the step: either inside the old one, or freshly reserved.
<1>w. \/ /\ pool_next' = pool_next + 1 /\ pool_next < pool_end
         /\ pool_end' = pool_end /\ next_xid' = next_xid
      \/ /\ pool_next' = next_xid + 1 /\ pool_end' = next_xid + AutocommitPoolBatch
         /\ next_xid' = next_xid + AutocommitPoolBatch
         /\ next_xid + AutocommitPoolBatch <= MaxXid + 1
         /\ pool_next >= pool_end
  BY <1>n DEF allocate_committed_xid
<1>1. TypeOK'
  <2>1. next_xid' \in 1..MaxXid + 1 /\ pool_next' \in 0..MaxXid + 1 /\ pool_end' \in 0..MaxXid + 1
    BY <1>n, <1>w
  <2> QED BY <1>u, <2>1 DEF TypeOK
<1>a. /\ pool_next <= pool_end /\ pool_end <= next_xid
      /\ \A y \in begun : y \in Nat /\ y < next_xid /\ ~ (pool_next <= y /\ y <= pool_end - 1)
  BY <1>n DEF TypeOK, AllocInv, pool_slots, Xid
<1>2. AllocInv'
  <2>1. pool_next' <= pool_end' /\ pool_end' <= next_xid' /\ (pool_next' = 0 => pool_end' = 0)
    BY <1>n, <1>w, <1>a
  <2>2. \A y \in begun : y < next_xid' /\ ~ (pool_next' <= y /\ y <= pool_end' - 1)
    BY <1>n, <1>w, <1>a
  <2> QED BY <1>u, <2>1, <2>2 DEF AllocInv, pool_slots
<1>3. \A y \in Xid : Finished(y) => Finished(y)'
  BY <1>n, <1>w, <1>a, <1>u DEF pool_slots, Finished, Xid
<1>4. HeldInv' /\ FrameInv'
  BY <1>1, <1>3, <1>u, SnapshotsKept
<1>5. VacuumInv'
  BY <1>n, <1>w, <1>u DEF TypeOK, VacuumInv
<1>6. HorizonsCounted'
  BY <1>u DEF HorizonsCounted
<1> QED BY <1>1, <1>2, <1>4, <1>5, <1>6

\* observe_committed_xid only moves the allocator and the window up.
LEMMA InvObserve ==
    ASSUME NEW x \in Xid
    PROVE  Inv /\ observe_committed_xid(x) => Inv'
<1> SUFFICES ASSUME Inv, observe_committed_xid(x) PROVE Inv'
  OBVIOUS
<1> USE MaxXidAssumption DEF Inv
<1>n. /\ x \in Nat /\ x > 0 /\ x <= MaxXid
      /\ MaxXid \in Nat /\ next_xid \in Nat /\ pool_next \in Nat /\ pool_end \in Nat
      /\ next_xid <= MaxXid + 1 /\ next_xid > 0 /\ pool_end <= MaxXid + 1
  BY DEF TypeOK, Xid
<1>u. /\ active' = active /\ aborted' = aborted /\ begun' = begun
      /\ held' = held /\ frame' = frame /\ pinned' = pinned /\ pool_end' = pool_end
      /\ snapshot_horizons' = snapshot_horizons
      /\ statement_horizons' = statement_horizons
      /\ vac_next' = vac_next /\ vac_cutoff' = vac_cutoff
  BY DEF observe_committed_xid
\* The allocator and the window only move up, the window up to its end.
<1>w. /\ next_xid' = IF next_xid >= x + 1 THEN next_xid ELSE x + 1
      /\ pool_next' \in {pool_next, x + 1, pool_end} /\ pool_next' >= pool_next
      /\ pool_next' <= pool_end \/ pool_next' = pool_next
  <2>1. x + 1 \in Nat
    BY <1>n
  <2> DEFINE m == Min({x + 1, pool_end})
  <2>2. m = IF x + 1 <= pool_end THEN x + 1 ELSE pool_end
    BY <1>n, <2>1, MaxMinPair
  <2>3. m \in Nat
    BY <1>n, <2>2
  <2>4. pool_next' = IF pool_next >= m THEN pool_next ELSE m
    <3>1. pool_next' = Max({pool_next, m})
      BY DEF observe_committed_xid
    <3> HIDE DEF m
    <3> QED BY <1>n, <2>3, <3>1, MaxMinPair
  <2>5. next_xid' = IF next_xid >= x + 1 THEN next_xid ELSE x + 1
    BY <1>n, <2>1, MaxMinPair DEF observe_committed_xid
  <2> HIDE DEF m
  <2> QED BY <1>n, <2>2, <2>4, <2>5
<1>1. TypeOK'
  <2>1. next_xid' \in 1..MaxXid + 1 /\ pool_next' \in 0..MaxXid + 1
    BY <1>n, <1>w DEF TypeOK
  <2> QED BY <1>u, <2>1 DEF TypeOK
<1>a. /\ pool_next <= pool_end /\ pool_end <= next_xid /\ (pool_next = 0 => pool_end = 0)
      /\ \A y \in begun : y \in Nat /\ y < next_xid /\ ~ (pool_next <= y /\ y <= pool_end - 1)
  BY <1>n DEF TypeOK, AllocInv, pool_slots, Xid
<1>2. AllocInv'
  <2>1. pool_next' <= pool_end' /\ pool_end' <= next_xid' /\ (pool_next' = 0 => pool_end' = 0)
    BY <1>n, <1>w, <1>a, <1>u
  <2>2. \A y \in begun : y < next_xid' /\ ~ (pool_next' <= y /\ y <= pool_end' - 1)
    BY <1>n, <1>w, <1>a, <1>u
  <2> QED BY <1>u, <2>1, <2>2 DEF AllocInv, pool_slots
<1>3. \A y \in Xid : Finished(y) => Finished(y)'
  BY <1>n, <1>w, <1>a, <1>u DEF pool_slots, Finished, Xid
<1>4. HeldInv' /\ FrameInv'
  BY <1>1, <1>3, <1>u, SnapshotsKept
<1>5. VacuumInv'
  BY <1>n, <1>w, <1>u DEF TypeOK, VacuumInv
<1>6. HorizonsCounted'
  BY <1>u DEF HorizonsCounted
<1> QED BY <1>1, <1>2, <1>4, <1>5, <1>6

\* snapshot captures under the lock: what it leaves out of in_progress is
\* settled, and the horizon it registers is below everything it excludes.
LEMMA InvSnapshot ==
    ASSUME NEW x \in Xid
    PROVE  Inv /\ snapshot(x) => Inv'
<1> SUFFICES ASSUME Inv, snapshot(x) PROVE Inv'
  OBVIOUS
<1> USE MaxXidAssumption DEF Inv
<1> DEFINE inProgress == (active \ {x}) \cup pool_slots
           new == [xid |-> x, in_progress |-> inProgress, owner |-> x]
           horizon == Lowest(x, inProgress)
<1>u. /\ active' = active /\ aborted' = aborted /\ begun' = begun /\ next_xid' = next_xid
      /\ pool_next' = pool_next /\ pool_end' = pool_end /\ frame' = frame /\ pinned' = pinned
      /\ statement_horizons' = statement_horizons
      /\ vac_next' = vac_next /\ vac_cutoff' = vac_cutoff
      /\ x \in active
  BY DEF snapshot, captured_snapshot
<1>p. inProgress \subseteq Xid
  BY DEF TypeOK, AllocInv, pool_slots, Xid
<1>h. /\ horizon \in Xid /\ horizon <= x
      /\ \A y \in inProgress : horizon <= y
  <2>1. x \in Nat /\ inProgress \subseteq Nat
    BY <1>p DEF Xid
  <2> HIDE DEF inProgress
  <2> QED BY <1>p, <2>1, LowestBound
<1>s. /\ held' = [held EXCEPT ![x] = @ \cup {new}]
      /\ snapshot_horizons' = [snapshot_horizons EXCEPT ![x] =
                                  IF @ = 0 THEN horizon ELSE Lowest(horizon, {@})]
  BY DEF snapshot, captured_snapshot
<1>n. new \in Snapshot /\ new.xid = x /\ new.owner = x /\ new.in_progress = inProgress
  BY <1>p DEF Snapshot, Xid
<1> HIDE DEF new, horizon, inProgress
\* The horizon registered for x: not above the new one nor the previous one.
<1>k. /\ snapshot_horizons'[x] \in 1..MaxXid
      /\ snapshot_horizons'[x] <= horizon
      /\ snapshot_horizons[x] > 0 => snapshot_horizons'[x] <= snapshot_horizons[x]
      /\ \A y \in Xid : y # x => snapshot_horizons'[y] = snapshot_horizons[y]
  <2>1. snapshot_horizons[x] \in Nat /\ snapshot_horizons[x] <= MaxXid
        /\ horizon \in Nat /\ horizon > 0 /\ horizon <= MaxXid
    BY <1>h DEF TypeOK, Xid
  <2>2. CASE snapshot_horizons[x] = 0
    BY <1>s, <2>1, <2>2 DEF TypeOK, Xid
  <2>3. CASE snapshot_horizons[x] # 0
    <3>1. snapshot_horizons'[x] = Lowest(horizon, {snapshot_horizons[x]})
      BY <1>s, <2>3 DEF TypeOK
    <3>2. /\ Lowest(horizon, {snapshot_horizons[x]}) \in {snapshot_horizons[x]} \cup {horizon}
          /\ Lowest(horizon, {snapshot_horizons[x]}) <= horizon
          /\ Lowest(horizon, {snapshot_horizons[x]}) <= snapshot_horizons[x]
      BY <2>1, LowestBound
    <3>3. \A y \in Xid : y # x => snapshot_horizons'[y] = snapshot_horizons[y]
      BY <1>s DEF TypeOK
    <3> QED BY <2>1, <2>3, <3>1, <3>2, <3>3
  <2> QED BY <2>2, <2>3
<1>e. /\ held'[x] = held[x] \cup {new}
      /\ \A y \in Xid : y # x => held'[y] = held[y]
  BY <1>s DEF TypeOK
<1>1. TypeOK'
  <2>1. held' \in [Xid -> SUBSET Snapshot]
    BY <1>s, <1>n DEF TypeOK
  <2>2. snapshot_horizons' \in [Xid -> 0..MaxXid]
    BY <1>s, <1>k DEF TypeOK
  <2> QED BY <1>u, <2>1, <2>2 DEF TypeOK
<1>2. AllocInv'
  BY <1>u DEF AllocInv, pool_slots
<1>c. \A s : (Covers(s) <=> Covers(s)') /\ (Spares(s) <=> Spares(s)')
  BY <1>u DEF Covers, Spares, Finished, pool_slots
<1>v. Covers(new)
  BY <1>n, <1>u DEF Covers, Finished, TypeOK, AllocInv, inProgress, Xid
<1>w. Spares(new)
  BY <1>n, <1>u DEF Spares, TypeOK, AllocInv, VacuumInv, inProgress, Xid
<1>3. HeldInv'
  <2> SUFFICES ASSUME NEW y \in Xid
               PROVE  /\ y \notin active' => held'[y] = {}
                      /\ \A s \in held'[y] :
                            /\ s.xid = y /\ s.owner = y
                            /\ Covers(s)' /\ Spares(s)'
                            /\ snapshot_horizons'[y] > 0
                            /\ Bounds(snapshot_horizons'[y], y, s)
    BY DEF HeldInv, Bounds
  <2>1. CASE y # x
    BY <1>u, <1>e, <1>k, <1>c, <2>1 DEF HeldInv
  <2>2. CASE y = x
    <3>1. ASSUME NEW s \in held[x]
          PROVE  /\ s.xid = x /\ s.owner = x /\ Covers(s) /\ Spares(s)
                 /\ Bounds(snapshot_horizons'[x], x, s)
      <4>1. /\ s.xid = x /\ s.owner = x /\ Covers(s) /\ Spares(s)
            /\ snapshot_horizons[x] > 0 /\ Bounds(snapshot_horizons[x], x, s)
        BY DEF HeldInv
      <4>2. s.in_progress \subseteq Nat /\ x \in Nat /\ snapshot_horizons[x] \in Nat
        BY DEF TypeOK, Snapshot, Xid
      <4> QED BY <4>1, <4>2, <1>k DEF Bounds
    <3>2. Bounds(snapshot_horizons'[x], x, new)
      <4>1. /\ snapshot_horizons'[x] \in Int /\ horizon \in Int /\ x \in Int
            /\ snapshot_horizons'[x] <= horizon
        BY <1>k, <1>h DEF Xid
      <4>2. \A z \in inProgress : z \in Int /\ horizon <= z
        BY <1>h, <1>p DEF Xid
      <4>3. \A z \in inProgress : snapshot_horizons'[x] <= z
        BY <4>1, <4>2
      <4> QED BY <4>1, <4>3, <1>h, <1>n DEF Bounds
    <3> QED BY <1>u, <1>e, <1>k, <1>c, <1>n, <1>v, <1>w, <2>2, <3>1, <3>2
  <2> QED BY <2>1, <2>2
<1>4. FrameInv'
  BY <1>u, <1>c DEF FrameInv, Bounds
<1>5. VacuumInv' /\ HorizonsCounted'
  BY <1>u DEF VacuumInv, HorizonsCounted
<1> QED BY <1>1, <1>2, <1>3, <1>4, <1>5

\* commit and rollback differ only in what becomes of aborted.
LEMMA InvEnd ==
    ASSUME NEW x \in Xid
    PROVE  Inv /\ (commit(x) \/ rollback(x)) => Inv'
<1> SUFFICES ASSUME Inv, commit(x) \/ rollback(x) PROVE Inv'
  OBVIOUS
<1> USE MaxXidAssumption DEF Inv
<1>u. /\ begun' = begun /\ next_xid' = next_xid
      /\ pool_next' = pool_next /\ pool_end' = pool_end /\ frame' = frame /\ pinned' = pinned
      /\ statement_horizons' = statement_horizons
      /\ vac_next' = vac_next /\ vac_cutoff' = vac_cutoff
      /\ x \in active /\ active' = active \ {x}
      /\ aborted' = aborted \ {x} \/ aborted' = aborted \cup {x}
      /\ snapshot_horizons' = [snapshot_horizons EXCEPT ![x] = 0]
      /\ held' = [held EXCEPT ![x] = {}]
  BY DEF commit, rollback
<1>1. TypeOK'
  BY <1>u DEF TypeOK
<1>2. AllocInv'
  BY <1>u DEF AllocInv, pool_slots
<1>3. \A y \in Xid : Finished(y) => Finished(y)'
  BY <1>u DEF Finished, pool_slots
<1>c. \A s : (Covers(s) => Covers(s)') /\ (Spares(s) => Spares(s)')
  BY <1>3, <1>u, CoversKept DEF Spares
<1>4. HeldInv'
  <2>1. /\ held'[x] = {}
        /\ \A y \in Xid : y # x => held'[y] = held[y] /\ snapshot_horizons'[y] = snapshot_horizons[y]
    BY <1>u DEF TypeOK
  <2> QED BY <1>u, <1>c, <2>1 DEF HeldInv, Bounds
<1>5. FrameInv'
  BY <1>u, <1>c DEF FrameInv, Bounds
<1>6. VacuumInv' /\ HorizonsCounted'
  BY <1>u DEF VacuumInv, HorizonsCounted
<1> QED BY <1>1, <1>2, <1>4, <1>5, <1>6

-----------------------------------------------------------------------------
(* Statement frames.                                                       *)

\* Opening a frame on a snapshot that is covered and spared, or on any
\* snapshot AS OF a commit, counts one more horizon.
LEMMA InvRetain ==
    ASSUME NEW f \in Frames, NEW kind \in {"captured", "as_of"}, NEW s \in Snapshot,
           kind = "captured" => Covers(s) /\ Spares(s)
    PROVE  Inv /\ Retain(f, kind, s) => Inv'
<1> SUFFICES ASSUME Inv, Retain(f, kind, s) PROVE Inv'
  OBVIOUS
<1> USE MaxXidAssumption DEF Inv
<1> DEFINE horizon == Lowest(s.xid + 1, s.in_progress)
           new == [kind |-> kind, snap |-> s, horizon |-> horizon]
<1>u. /\ active' = active /\ aborted' = aborted /\ begun' = begun /\ next_xid' = next_xid
      /\ pool_next' = pool_next /\ pool_end' = pool_end /\ pinned' = pinned
      /\ held' = held /\ snapshot_horizons' = snapshot_horizons
      /\ vac_next' = vac_next /\ vac_cutoff' = vac_cutoff
      /\ frame[f].kind = "closed"
      /\ statement_horizons' = [statement_horizons EXCEPT ![horizon] = @ + 1]
      /\ frame' = [frame EXCEPT ![f] = new]
  BY DEF Retain
<1>h. horizon \in 1..MaxXid + 1 /\ Bounds(horizon, s.xid + 1, s)
  <2>1. s.xid \in 0..MaxXid /\ s.in_progress \subseteq 1..MaxXid
    BY DEF Snapshot, Xid
  <2>2. s.xid + 1 \in Nat /\ s.in_progress \subseteq Nat /\ s.xid + 1 \in 1..MaxXid + 1
        /\ s.in_progress \subseteq 1..MaxXid + 1
    BY <2>1
  <2> QED BY <2>2, LowestBound DEF Bounds
<1>n. new \in Frame /\ new.kind = kind /\ new.snap = s /\ new.horizon = horizon
      /\ new.kind # "closed"
  BY <1>h DEF Frame
<1> HIDE DEF new, horizon
<1>e. /\ frame'[f] = new
      /\ \A g \in Frames : g # f => frame'[g] = frame[g]
      /\ statement_horizons'[horizon] = statement_horizons[horizon] + 1
      /\ \A h \in 1..MaxXid + 1 : h # horizon => statement_horizons'[h] = statement_horizons[h]
  BY <1>u, <1>h DEF TypeOK
<1>1. TypeOK'
  BY <1>u, <1>h, <1>n DEF TypeOK
<1>2. AllocInv' /\ VacuumInv'
  BY <1>u DEF AllocInv, VacuumInv, pool_slots
<1>c. \A t : (Covers(t) <=> Covers(t)') /\ (Spares(t) <=> Spares(t)')
  BY <1>u DEF Covers, Spares, Finished, pool_slots
<1>3. HeldInv'
  BY <1>u, <1>c DEF HeldInv, Bounds
<1>4. FrameInv'
  BY <1>e, <1>c, <1>h, <1>n DEF FrameInv, Bounds
<1>5. HorizonsCounted'
  <2> SUFFICES ASSUME NEW h \in 1..MaxXid + 1
               PROVE  statement_horizons'[h] =
                        Cardinality({g \in Frames : frame'[g].kind # "closed" /\ frame'[g].horizon = h})
    BY DEF HorizonsCounted
  <2> DEFINE Open == {g \in Frames : frame[g].kind # "closed" /\ frame[g].horizon = h}
             Open2 == {g \in Frames : frame'[g].kind # "closed" /\ frame'[g].horizon = h}
  <2>1. statement_horizons[h] = Cardinality(Open)
    BY DEF HorizonsCounted
  <2>2. CASE h = horizon
    <3>1. Open2 = Open \cup {f} /\ f \notin Open
      BY <1>e, <1>n, <1>u, <2>2
    <3>2. IsFiniteSet(Open)
      BY FramesAssumption, FS_Subset
    <3> HIDE DEF Open, Open2
    <3>3. Cardinality(Open2) = Cardinality(Open) + 1
      BY <3>1, <3>2, FS_AddElement
    <3>4. statement_horizons'[h] = Cardinality(Open2)
      BY <1>e, <2>1, <2>2, <3>3
    <3> QED BY <3>4 DEF Open2
  <2>3. CASE h # horizon
    <3>1. Open2 = Open
      BY <1>e, <1>n, <1>u, <2>3
    <3> QED BY <1>e, <2>1, <2>3, <3>1
  <2> QED BY <2>2, <2>3
<1> QED BY <1>1, <1>2, <1>3, <1>4, <1>5

\* The four ways a statement frame gets its snapshot.
LEMMA InvFrames ==
    ASSUME NEW f \in Frames
    PROVE  Inv /\ (\/ fresh_retained_snapshot(f) \/ retain_transaction_snapshot(f)
                   \/ retain_outer_snapshot(f) \/ retain_as_of_snapshot(f)) => Inv'
<1> SUFFICES ASSUME Inv, \/ fresh_retained_snapshot(f) \/ retain_transaction_snapshot(f)
                         \/ retain_outer_snapshot(f) \/ retain_as_of_snapshot(f)
             PROVE  Inv'
  OBVIOUS
<1> USE MaxXidAssumption DEF Inv
\* A fresh capture excludes everything that is active or unissued, and what
\* has begun below the cutoff is neither.
<1>1. CASE fresh_retained_snapshot(f)
  <2> DEFINE s == [xid |-> next_xid - 1, in_progress |-> active \cup pool_slots, owner |-> XID_NONE]
  <2>1. s \in Snapshot /\ s.xid = next_xid - 1 /\ s.in_progress = active \cup pool_slots
    BY DEF TypeOK, AllocInv, Snapshot, XID_NONE, pool_slots, Xid
  <2> HIDE DEF s
  <2>2. Covers(s)
    BY <2>1 DEF Covers, Finished, TypeOK, Xid
  <2>3. Spares(s)
    <3>1. \A y \in begun : y \in Int /\ y < next_xid /\ y \notin pool_slots
      BY DEF TypeOK, AllocInv, Xid
    <3>2. vac_cutoff \in Int /\ next_xid \in Int /\ \A x \in active : x \in Int /\ vac_cutoff <= x
      BY DEF TypeOK, VacuumInv, Xid
    <3> QED BY <2>1, <3>1, <3>2 DEF Spares
  <2>4. Retain(f, "captured", s)
    BY <1>1 DEF fresh_retained_snapshot, fresh_read_snapshot, s
  <2> QED BY <2>1, <2>2, <2>3, <2>4, InvRetain
<1>2. CASE retain_transaction_snapshot(f)
  <2>1. PICK x \in active : \E s \in held[x] : Retain(f, "captured", s)
    BY <1>2 DEF retain_transaction_snapshot
  <2>2. PICK s \in held[x] : Retain(f, "captured", s)
    BY <2>1
  <2>3. s \in Snapshot /\ Covers(s) /\ Spares(s)
    BY DEF TypeOK, HeldInv
  <2> QED BY <2>2, <2>3, InvRetain
<1>3. CASE retain_outer_snapshot(f)
  <2>1. PICK g \in Frames : frame[g].kind # "closed" /\ Retain(f, frame[g].kind, frame[g].snap)
    BY <1>3 DEF retain_outer_snapshot
  <2>2. frame[g].kind \in {"captured", "as_of"} /\ frame[g].snap \in Snapshot
    BY <2>1 DEF TypeOK, Frame
  <2>3. frame[g].kind = "captured" => Covers(frame[g].snap) /\ Spares(frame[g].snap)
    BY DEF FrameInv
  <2> QED BY <2>1, <2>2, <2>3, InvRetain
<1>4. CASE retain_as_of_snapshot(f)
  <2> DEFINE s(x) == [xid |-> x, in_progress |-> {}, owner |-> XID_NONE]
  <2>1. PICK x \in Xid : Retain(f, "as_of", s(x))
    BY <1>4 DEF retain_as_of_snapshot
  <2>2. s(x) \in Snapshot
    BY DEF Snapshot, XID_NONE, Xid
  <2> HIDE DEF s
  <2> QED BY <2>1, <2>2, InvRetain
<1> QED BY <1>1, <1>2, <1>3, <1>4

\* Dropping a guard takes exactly its own count away.
LEMMA InvDrop ==
    ASSUME NEW f \in Frames
    PROVE  Inv /\ drop_retention(f) => Inv'
<1> SUFFICES ASSUME Inv, drop_retention(f) PROVE Inv'
  OBVIOUS
<1> USE MaxXidAssumption DEF Inv
<1> DEFINE horizon == frame[f].horizon
<1>u. /\ active' = active /\ aborted' = aborted /\ begun' = begun /\ next_xid' = next_xid
      /\ pool_next' = pool_next /\ pool_end' = pool_end /\ pinned' = pinned
      /\ held' = held /\ snapshot_horizons' = snapshot_horizons
      /\ vac_next' = vac_next /\ vac_cutoff' = vac_cutoff
      /\ frame[f].kind # "closed"
      /\ statement_horizons' = [statement_horizons EXCEPT ![horizon] = @ - 1]
      /\ frame' = [frame EXCEPT ![f] = NoFrame]
  BY DEF drop_retention
<1>h. horizon \in 1..MaxXid + 1
  BY DEF TypeOK, Frame
<1>n. NoFrame \in Frame /\ NoFrame.kind = "closed"
  BY DEF NoFrame, Frame, Snapshot, XID_NONE
<1>e. /\ frame'[f] = NoFrame
      /\ \A g \in Frames : g # f => frame'[g] = frame[g]
      /\ statement_horizons'[horizon] = statement_horizons[horizon] - 1
      /\ \A h \in 1..MaxXid + 1 : h # horizon => statement_horizons'[h] = statement_horizons[h]
  BY <1>u, <1>h DEF TypeOK
<1>5. HorizonsCounted' /\ statement_horizons[horizon] > 0
  <2>0. ASSUME NEW h \in 1..MaxXid + 1
        PROVE  /\ statement_horizons'[h] =
                     Cardinality({g \in Frames : frame'[g].kind # "closed" /\ frame'[g].horizon = h})
               /\ h = horizon => statement_horizons[h] > 0
    <3> DEFINE Open == {g \in Frames : frame[g].kind # "closed" /\ frame[g].horizon = h}
               Open2 == {g \in Frames : frame'[g].kind # "closed" /\ frame'[g].horizon = h}
    <3>1. statement_horizons[h] = Cardinality(Open)
      BY DEF HorizonsCounted
    <3>2. CASE h = horizon
      <4>1. Open2 = Open \ {f} /\ f \in Open
        BY <1>e, <1>n, <1>u, <3>2
      <4>2. IsFiniteSet(Open)
        BY FramesAssumption, FS_Subset
      <4> HIDE DEF Open, Open2
      <4>3. Cardinality(Open2) = Cardinality(Open) - 1 /\ Cardinality(Open) \in Nat
            /\ Cardinality(Open2) \in Nat
        <5>1. IsFiniteSet(Open2) /\ Cardinality(Open2) = Cardinality(Open) - 1
          BY <4>1, <4>2, FS_RemoveElement
        <5> QED BY <4>2, <5>1, FS_CardinalityType
      <4>4. statement_horizons'[h] = Cardinality(Open2) /\ statement_horizons[h] > 0
        BY <1>e, <3>1, <3>2, <4>3
      <4> QED BY <4>4 DEF Open2
    <3>3. CASE h # horizon
      <4>1. Open2 = Open
        BY <1>e, <1>n, <1>u, <3>3
      <4> QED BY <1>e, <3>1, <3>3, <4>1
    <3> QED BY <3>2, <3>3
  <2> QED BY <2>0, <1>h DEF HorizonsCounted
<1> HIDE DEF horizon
<1>1. TypeOK'
  <2>1. statement_horizons[horizon] - 1 \in Nat
    BY <1>5, <1>h DEF TypeOK
  <2> QED BY <1>u, <1>h, <1>n, <2>1 DEF TypeOK
<1>2. AllocInv' /\ VacuumInv'
  BY <1>u DEF AllocInv, VacuumInv, pool_slots
<1>c. \A t : (Covers(t) <=> Covers(t)') /\ (Spares(t) <=> Spares(t)')
  BY <1>u DEF Covers, Spares, Finished, pool_slots
<1>3. HeldInv'
  BY <1>u, <1>c DEF HeldInv, Bounds
<1>4. FrameInv'
  BY <1>e, <1>c, <1>n DEF FrameInv, Bounds
<1> QED BY <1>1, <1>2, <1>3, <1>4, <1>5

-----------------------------------------------------------------------------
(* Pins and the vacuum.                                                    *)

\* Pins touch neither snapshots nor the allocator.
LEMMA InvPins ==
    ASSUME NEW x \in Xid
    PROVE  Inv /\ (pin(x) \/ unpin(x)) => Inv'
<1> SUFFICES ASSUME Inv, pin(x) \/ unpin(x) PROVE Inv'
  OBVIOUS
<1> USE DEF Inv
<1>u. UNCHANGED <<next_xid, pool_next, pool_end, active, aborted, held, frame,
                  snapshot_horizons, statement_horizons, vac_next, vac_cutoff, begun>>
  BY DEF pin, unpin
<1>1. TypeOK'
  BY <1>u DEF TypeOK, pin, unpin
<1>2. \A y \in Xid : Finished(y) => Finished(y)'
  BY <1>u DEF Finished, pool_slots
<1>3. HeldInv' /\ FrameInv'
  BY <1>1, <1>2, <1>u, SnapshotsKept
<1>4. AllocInv' /\ VacuumInv' /\ HorizonsCounted'
  BY <1>u DEF AllocInv, VacuumInv, HorizonsCounted, pool_slots
<1> QED BY <1>1, <1>3, <1>4

\* Peeking at the allocator and ending a vacuum lower the cutoff at most.
LEMMA InvPeekEnd == Inv /\ (vacuum_peek \/ vacuum_end) => Inv'
<1> SUFFICES ASSUME Inv, vacuum_peek \/ vacuum_end PROVE Inv'
  OBVIOUS
<1> USE DEF Inv
<1>u. UNCHANGED <<next_xid, pool_next, pool_end, active, aborted, held, frame, pinned,
                  snapshot_horizons, statement_horizons, begun>>
      /\ (vac_cutoff' = vac_cutoff \/ vac_cutoff' = 0)
  BY DEF vacuum_peek, vacuum_end, managerVars
<1>1. TypeOK'
  BY <1>u, MaxXidAssumption DEF TypeOK, vacuum_peek, vacuum_end
<1>2. \A y \in Xid : Finished(y) => Finished(y)'
  BY <1>u DEF Finished, pool_slots
<1>3. HeldInv' /\ FrameInv'
  BY <1>1, <1>2, <1>u, SnapshotsKept
<1>4. AllocInv' /\ HorizonsCounted'
  BY <1>u DEF AllocInv, HorizonsCounted, pool_slots
<1>5. VacuumInv'
  BY <1>u DEF VacuumInv, TypeOK, Xid, vacuum_peek, vacuum_end
<1> QED BY <1>1, <1>3, <1>4, <1>5

\* The cutoff is below the peeked allocator and everything still required;
\* a snapshot's exclusions are above its horizon, and its horizon is one of
\* the required xids.
LEMMA InvCutoff == Inv /\ vacuum_cutoff => Inv'
<1> SUFFICES ASSUME Inv, vacuum_cutoff PROVE Inv'
  OBVIOUS
<1> USE MaxXidAssumption DEF Inv
<1> DEFINE kept == IF vac_next > VacuumRetention THEN vac_next - VacuumRetention ELSE 0
<1>u. UNCHANGED <<next_xid, pool_next, pool_end, active, aborted, held, frame, pinned,
                  snapshot_horizons, statement_horizons, begun, vac_next>>
  BY DEF vacuum_cutoff, managerVars
<1>k. kept \in Nat /\ kept <= vac_next /\ vac_next \in Nat /\ vac_next <= MaxXid + 1
  BY RetentionAssumption DEF TypeOK
<1>d. vac_cutoff' = Lowest(kept, required_xids)
  BY DEF vacuum_cutoff, mvcc_vacuum_cutoff_xid
<1> HIDE DEF kept
<1>r. required_xids \subseteq Nat
  <2>1. active \subseteq Nat /\ {x \in Xid : pinned[x] > 0} \subseteq Nat
    BY DEF TypeOK, Xid
  <2>2. {h \in 1..MaxXid + 1 : statement_horizons[h] > 0} \subseteq Nat
    OBVIOUS
  <2>3. \A y \in Xid : snapshot_horizons[y] \in Nat
    BY DEF TypeOK
  <2> QED BY <2>1, <2>2, <2>3 DEF required_xids
<1>l. vac_cutoff' <= kept /\ vac_cutoff' \in Nat /\ \A y \in required_xids : vac_cutoff' <= y
  BY <1>k, <1>d, <1>r, LowestBound
<1>1. TypeOK'
  <2>1. vac_cutoff' \in 0..MaxXid + 1
    BY <1>k, <1>l
  <2> QED BY <1>u, <2>1 DEF TypeOK
<1>2. AllocInv' /\ HorizonsCounted'
  BY <1>u DEF AllocInv, HorizonsCounted, pool_slots
<1>3. VacuumInv'
  <2>1. vac_cutoff' <= vac_next
    BY <1>k, <1>l
  <2>2. active \subseteq required_xids
    BY DEF required_xids
  <2> QED BY <1>u, <1>l, <2>1, <2>2 DEF VacuumInv
<1>c. \A s : Covers(s) <=> Covers(s)'
  BY <1>u DEF Covers, Finished, pool_slots
<1>s. ASSUME NEW s \in Snapshot, NEW h \in required_xids, Bounds(h, s.xid + 1, s)
      PROVE  Spares(s)'
  <2>1. vac_cutoff' <= h /\ h \in Nat /\ vac_cutoff' \in Nat
    BY <1>l, <1>r
  <2>2. s.xid \in Nat /\ h <= s.xid + 1
    BY <1>s DEF Snapshot, Bounds
  <2>3. \A y \in s.in_progress : y \in Nat /\ h <= y
    BY <1>s DEF Snapshot, Bounds, Xid
  <2>4. begun \subseteq Nat
    BY DEF TypeOK, Xid
  <2>5. ASSUME NEW y \in begun, y < vac_cutoff'
        PROVE  y <= s.xid /\ y \notin s.in_progress
    <3>1. y < h /\ y \in Nat
      BY <2>1, <2>4, <2>5
    <3>2. y <= s.xid
      BY <2>1, <2>2, <3>1
    <3>3. y \notin s.in_progress
      BY <2>1, <2>3, <3>1
    <3> QED BY <3>2, <3>3
  <2> QED BY <1>u, <2>5 DEF Spares
<1>4. HeldInv'
  <2>1. ASSUME NEW x \in Xid, NEW s \in held[x]
        PROVE  Spares(s)'
    <3>1. s.xid = x /\ snapshot_horizons[x] > 0 /\ Bounds(snapshot_horizons[x], x, s)
      BY DEF HeldInv
    <3>2. s \in Snapshot /\ snapshot_horizons[x] \in Nat /\ x \in Nat
      BY DEF TypeOK, Xid
    <3>3. snapshot_horizons[x] \in required_xids
      BY <3>1 DEF required_xids
    <3>4. Bounds(snapshot_horizons[x], s.xid + 1, s)
      BY <3>1, <3>2 DEF Bounds
    <3> QED BY <1>s, <3>2, <3>3, <3>4
  <2> QED BY <1>u, <1>c, <2>1 DEF HeldInv, Bounds
<1>5. FrameInv'
  <2>1. ASSUME NEW f \in Frames, frame[f].kind = "captured"
        PROVE  Spares(frame[f].snap)'
    <3>1. frame[f] \in Frame
      BY DEF TypeOK
    <3>2. frame[f].snap \in Snapshot /\ frame[f].horizon \in 1..MaxXid + 1
      BY <3>1 DEF Frame
    <3>3. statement_horizons[frame[f].horizon] > 0
      <4> DEFINE Open == {g \in Frames : frame[g].kind # "closed" /\ frame[g].horizon = frame[f].horizon}
      <4>1. statement_horizons[frame[f].horizon] = Cardinality(Open)
        BY <3>2 DEF HorizonsCounted
      <4>2. f \in Open /\ IsFiniteSet(Open)
        BY <2>1, FramesAssumption, FS_Subset
      <4> HIDE DEF Open
      <4>3. Cardinality(Open) \in Nat /\ Cardinality(Open) # 0
        BY <4>2, FS_EmptySet, FS_CardinalityType
      <4> QED BY <4>1, <4>3
    <3>4. frame[f].horizon \in required_xids
      BY <3>2, <3>3 DEF required_xids
    <3>5. Bounds(frame[f].horizon, frame[f].snap.xid + 1, frame[f].snap)
      BY <2>1 DEF FrameInv
    <3>6. Spares(frame[f].snap)' <=> \A y \in begun' : y < vac_cutoff' =>
              y <= frame[f].snap.xid /\ y \notin frame[f].snap.in_progress
      BY <1>u DEF Spares
    <3>7. PICK s : s = frame[f].snap
      OBVIOUS
    <3>8. Spares(s)'
      BY <1>s, <3>2, <3>4, <3>5, <3>7
    <3> QED BY <3>6, <3>7, <3>8 DEF Spares
  <2> QED BY <1>u, <1>c, <2>1 DEF FrameInv, Bounds
<1> QED BY <1>1, <1>2, <1>3, <1>4, <1>5

-----------------------------------------------------------------------------
(* The theorems.                                                           *)

\* Every step of the manager keeps the invariant: one case per action.
LEMMA InvNext == Inv /\ [Next]_vars => Inv'
<1> SUFFICES ASSUME Inv, [Next]_vars PROVE Inv'
  OBVIOUS
<1>1. CASE begin
  BY <1>1, InvBegin
<1>2. CASE allocate_committed_xid
  BY <1>2, InvAllocate
<1>3. ASSUME NEW x \in Xid,
             \/ snapshot(x) \/ commit(x) \/ rollback(x)
             \/ observe_committed_xid(x) \/ pin(x) \/ unpin(x)
      PROVE  Inv'
  BY <1>3, InvSnapshot, InvEnd, InvObserve, InvPins
<1>4. ASSUME NEW f \in Frames,
             \/ fresh_retained_snapshot(f) \/ retain_transaction_snapshot(f)
             \/ retain_outer_snapshot(f) \/ retain_as_of_snapshot(f)
             \/ drop_retention(f)
      PROVE  Inv'
  BY <1>4, InvFrames, InvDrop
<1>5. CASE vacuum_peek \/ vacuum_end
  BY <1>5, InvPeekEnd
<1>6. CASE vacuum_cutoff
  BY <1>6, InvCutoff
<1>7. CASE UNCHANGED vars
  BY <1>7 DEF vars, Inv, TypeOK, AllocInv, HeldInv, FrameInv, VacuumInv, HorizonsCounted,
              Covers, Spares, Bounds, Finished, pool_slots
<1> QED BY <1>1, <1>2, <1>3, <1>4, <1>5, <1>6, <1>7 DEF Next

\* The inductive invariant holds in every reachable state of the manager.
THEOREM Invariance == Spec => []Inv
  BY InvInit, InvNext, PTL DEF Spec

\* Every variable of the manager keeps its type, for all constants.
THEOREM TypeCorrect == Spec => []TypeOK
<1>1. Inv => TypeOK
  BY DEF Inv
<1> QED BY <1>1, Invariance, PTL

\* What the invariant says of a snapshot, wherever it is held.
LEMMA CapturedInv ==
    ASSUME Inv, NEW s \in Captured
    PROVE  Covers(s) /\ Spares(s)
<1>1. CASE \E x \in active : s \in held[x]
  <2>1. PICK x \in active : s \in held[x]
    BY <1>1
  <2>2. x \in Xid
    BY DEF Inv, TypeOK
  <2> QED BY <2>1, <2>2 DEF Inv, HeldInv
<1>2. CASE \E f \in Frames : frame[f].kind = "captured" /\ s = frame[f].snap
  <2>1. PICK f \in Frames : frame[f].kind = "captured" /\ s = frame[f].snap
    BY <1>2
  <2>2. Covers(frame[f].snap) /\ Spares(frame[f].snap)
    BY <2>1 DEF Inv, FrameInv
  <2> QED BY <2>1, <2>2
<1> QED BY <1>1, <1>2 DEF Captured

\* begin(), the pool and replay never let a captured snapshot show a writer
\* that is still active or whose number is still to be handed out.
THEOREM NoLateWriter == Spec => []VisibleWritersFinished
<1>1. Inv => VisibleWritersFinished
  <2> SUFFICES ASSUME Inv, NEW s \in Captured, NEW x \in Xid, is_visible(x, XID_NONE, s, {})
               PROVE  x = s.owner \/ Finished(x)
    BY DEF VisibleWritersFinished
  <2>1. Covers(s)
    BY CapturedInv
  <2>2. x <= s.xid /\ x \notin s.in_progress
    BY DEF is_visible, XID_NONE, Xid
  <2> QED BY <2>1, <2>2 DEF Covers
<1> QED BY <1>1, Invariance, PTL

\* The counted horizons are those of the open frames.
THEOREM CountedHorizons == Spec => []HorizonsCounted
<1>1. Inv => HorizonsCounted
  BY DEF Inv
<1> QED BY <1>1, Invariance, PTL

\* A version that reclaimable() gives up, under a cutoff computed at any
\* earlier moment, is invisible to every snapshot captured before or since.
THEOREM VacuumSafe == Spec => []ReclaimedIsInvisible
<1>1. Inv => ReclaimedIsInvisible
  <2> SUFFICES ASSUME Inv, NEW s \in Captured, NEW xmin \in 0..MaxXid,
                      NEW xmax \in begun \cup {XID_NONE},
                      reclaimable(vac_cutoff, xmin, xmax),
                      visibility_check(s, {}, xmin, xmax)
               PROVE  FALSE
    BY DEF ReclaimedIsInvisible
  <2>1. Spares(s)
    BY CapturedInv
  <2>2. xmax # XID_NONE /\ xmax < vac_cutoff /\ xmax \notin aborted
    BY DEF reclaimable, visibility_check
  <2>3. xmax <= s.xid /\ xmax \notin s.in_progress
    BY <2>1, <2>2 DEF Spares
  <2> QED BY <2>2, <2>3 DEF visibility_check, is_visible
<1> QED BY <1>1, Invariance, PTL

\* Only ending a transaction changes what is aborted, and only for that one.
LEMMA AbortedStep ==
    ASSUME Inv, [Next]_vars, NEW x \in Xid, x \notin active
    PROVE  x \in aborted <=> x \in aborted'
<1>1. CASE \E y \in Xid : commit(y) \/ rollback(y)
  BY <1>1 DEF commit, rollback
<1>2. CASE UNCHANGED aborted
  BY <1>2
<1>3. (\E y \in Xid : commit(y) \/ rollback(y)) \/ UNCHANGED aborted
  BY DEF Next, vars, managerVars, begin, allocate_committed_xid, snapshot, observe_committed_xid,
         pin, unpin, Retain, fresh_retained_snapshot, retain_transaction_snapshot,
         retain_outer_snapshot, retain_as_of_snapshot, drop_retention,
         vacuum_peek, vacuum_cutoff, vacuum_end
<1> QED BY <1>1, <1>2, <1>3

\* A captured snapshot's view of the other writers never changes while
\* somebody holds it.
THEOREM FrozenView == Spec => ViewFrozen
<1> DEFINE A == \A s \in Captured \cap Captured' : \A x \in Xid :
                  x # s.owner =>
                    (visibility_check(s, {}, x, XID_NONE) <=> visibility_check(s, {}, x, XID_NONE)')
<1>1. Inv /\ [Next]_vars => [A]_vars
  <2> SUFFICES ASSUME Inv, [Next]_vars, NEW s \in Captured, NEW x \in Xid, x # s.owner
               PROVE  visibility_check(s, {}, x, XID_NONE) <=> visibility_check(s, {}, x, XID_NONE)'
    OBVIOUS
  <2>1. /\ visibility_check(s, {}, x, XID_NONE)
              <=> x \notin aborted /\ x <= s.xid /\ x \notin s.in_progress
        /\ visibility_check(s, {}, x, XID_NONE)'
              <=> x \notin aborted' /\ x <= s.xid /\ x \notin s.in_progress
    BY DEF visibility_check, is_visible, XID_NONE, Xid
  <2>2. x <= s.xid /\ x \notin s.in_progress => x \notin active
    BY CapturedInv DEF Covers, Finished
  <2> QED BY <2>1, <2>2, AbortedStep
<1> QED BY <1>1, Invariance, PTL DEF Spec, ViewFrozen

=============================================================================
