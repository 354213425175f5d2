-------------------------- MODULE WriterLeaseProofs --------------------------
(***************************************************************************)
(* Proofs about the writer lease, for every set of instances, every        *)
(* time-to-live and every bound.                                           *)
(*                                                                         *)
(* The properties speak of what a lifecycle remembers and of the object in *)
(* the backend, which change in different steps.  The strengthening says   *)
(* what each call knows between its read and its conditional write: a      *)
(* contender about to put has seen a lease that is its own or had expired  *)
(* when it read the clock, one that has put finds its own lease or has     *)
(* lost it after it expired, and a refresh or a release that goes on has   *)
(* seen a lease of its own.                                                *)
(***************************************************************************)
EXTENDS WriterLease, TLAPS

\* The clock a call has read is not ahead of the clock.
ClockInv == \A i \in Instances : clock[i] <= now

\* What a contender knows of the lease it has seen and of the one it will put.
PutInv ==
    \A i \in Instances : pc[i] = "put" =>
        /\ next[i].holder = i
        /\ next[i] # NoLease
        /\ seen[i].holder = i \/ isExpired(seen[i], now)
        /\ next[i].term >= seen[i].term
        /\ next[i].generation = seen[i].generation + 1

\* A lease of this process: published as it is, or expired.
Mine(i, lease) ==
    /\ lease.holder = i
    /\ object = lease \/ isExpired(lease, now)
    /\ object.holder = i => object = lease

VerifyInv == \A i \in Instances : pc[i] = "verify" => Mine(i, next[i])

CurrentInv == \A i \in Instances : current[i] # NoLease => Mine(i, current[i])

\* A refresh or a release that goes on has seen a lease of its own.
SeenInv ==
    \A i \in Instances :
        pc[i] \in {"refresh_put", "delete"} => seen[i].holder = i

\* What a call releases is a lease of its own.
ReleaseInv == \A i \in Instances : pc[i] = "release" => next[i].holder = i

LeaseInv ==
    /\ TypeOK
    /\ ClockInv
    /\ PutInv
    /\ VerifyInv
    /\ CurrentInv
    /\ SeenInv
    /\ ReleaseInv

-----------------------------------------------------------------------------
\* No process has started: nothing is remembered and nothing published.
LEMMA InitLeaseInv == Init => LeaseInv
  BY LeaseAssumption, SMT
  DEF Init, LeaseInv, TypeOK, ClockInv, PutInv, VerifyInv, CurrentInv,
      SeenInv, ReleaseInv, acquiring, holding, releasing

\* A process that starts has read the clock and knows nothing yet.
LEMMA BootInv ==
  ASSUME LeaseInv, NEW i \in Instances, Boot(i)
  PROVE  LeaseInv'
<1> USE LeaseAssumption DEF LeaseInv
<1>1. TypeOK'
  <2>1. PICK r \in {"Primary", "Replica"}, t \in 1..MaxTerm :
          /\ role' = [role EXCEPT ![i] = r]
          /\ term' = [term EXCEPT ![i] = t]
          /\ pc' = [pc EXCEPT ![i] = IF r = "Primary" THEN "acquire" ELSE "none"]
    BY DEF Boot
  <2>2. pc'[i] \in {"acquire", "none"} /\ \A j \in Instances \ {i} : pc'[j] = pc[j]
    BY <2>1, SMT DEF TypeOK
  <2>3. current[i] = NoLease
    BY SMT DEF Boot, TypeOK, holding
  <2> QED  BY <2>1, <2>2, <2>3, SMT DEF Boot, TypeOK, acquiring, holding
<1>2. ClockInv'
  BY SMT DEF Boot, ClockInv, TypeOK
<1>3. PutInv'
  BY SMT DEF Boot, PutInv
<1>4. VerifyInv'
  BY SMT DEF Boot, VerifyInv, Mine
<1>5. CurrentInv'
  BY SMT DEF Boot, CurrentInv, Mine
<1>6. SeenInv'
  BY SMT DEF Boot, SeenInv
<1>7. ReleaseInv'
  BY SMT DEF Boot, ReleaseInv
<1> QED  BY <1>1, <1>2, <1>3, <1>4, <1>5, <1>6, <1>7

\* A promotion starts like the acquire of a boot.
LEMMA PromoteInv ==
  ASSUME LeaseInv, NEW i \in Instances, Promote(i)
  PROVE  LeaseInv'
<1> USE LeaseAssumption DEF LeaseInv
<1>1. TypeOK'
  BY SMT DEF Promote, TypeOK, acquiring, holding
<1>2. ClockInv'
  BY SMT DEF Promote, ClockInv, TypeOK
<1>3. PutInv'
  BY SMT DEF Promote, PutInv
<1>4. VerifyInv'
  BY SMT DEF Promote, VerifyInv, Mine
<1>5. CurrentInv'
  BY SMT DEF Promote, CurrentInv, Mine
<1>6. SeenInv'
  BY SMT DEF Promote, SeenInv
<1>7. ReleaseInv'
  BY SMT DEF Promote, ReleaseInv
<1> QED  BY <1>1, <1>2, <1>3, <1>4, <1>5, <1>6, <1>7

\* Draining touches the phase only.
LEMMA DrainInv ==
  ASSUME LeaseInv, NEW i \in Instances, Drain(i)
  PROVE  LeaseInv'
<1> USE LeaseAssumption DEF LeaseInv
<1>1. TypeOK'
  BY SMT DEF Drain, TypeOK
<1>2. ClockInv'
  BY SMT DEF Drain, ClockInv
<1>3. PutInv'
  BY SMT DEF Drain, PutInv
<1>4. VerifyInv'
  BY SMT DEF Drain, VerifyInv, Mine
<1>5. CurrentInv'
  BY SMT DEF Drain, CurrentInv, Mine
<1>6. SeenInv'
  BY SMT DEF Drain, SeenInv
<1>7. ReleaseInv'
  BY SMT DEF Drain, ReleaseInv
<1> QED  BY <1>1, <1>2, <1>3, <1>4, <1>5, <1>6, <1>7

\* A process that ends forgets its lease and the call it was in.
LEMMA ExitInv ==
  ASSUME LeaseInv, NEW i \in Instances, Exit(i)
  PROVE  LeaseInv'
<1> USE LeaseAssumption DEF LeaseInv
<1>1. TypeOK'
  BY SMT DEF Exit, TypeOK, returns, stops, holding
<1>2. ClockInv'
  BY SMT DEF Exit, ClockInv, TypeOK, returns
<1>3. PutInv'
  BY SMT DEF Exit, PutInv, TypeOK, returns
<1>4. VerifyInv'
  BY SMT DEF Exit, VerifyInv, TypeOK, returns, Mine
<1>5. CurrentInv'
  BY SMT DEF Exit, CurrentInv, Mine
<1>6. SeenInv'
  BY SMT DEF Exit, SeenInv, TypeOK, returns
<1>7. ReleaseInv'
  BY SMT DEF Exit, ReleaseInv, TypeOK, returns
<1> QED  BY <1>1, <1>2, <1>3, <1>4, <1>5, <1>6, <1>7

\* The fence and the expiry test establish what a put relies on.
LEMMA AcquireReadInv ==
  ASSUME LeaseInv, NEW i \in Instances, AcquireRead(i)
  PROVE  LeaseInv'
<1> USE LeaseAssumption DEF LeaseInv
<1>1. TypeOK'
  BY SMT DEF AcquireRead, TypeOK, Lease, NoLease, acquiring, holding
<1>2. ClockInv'
  BY SMT DEF AcquireRead, ClockInv
<1>3. PutInv'
  BY SMT DEF AcquireRead, PutInv, ClockInv, TypeOK, fenced, held, isExpired, Lease, NoLease
<1>4. VerifyInv'
  BY SMT DEF AcquireRead, VerifyInv, Mine
<1>5. CurrentInv'
  BY SMT DEF AcquireRead, CurrentInv, Mine
<1>6. SeenInv'
  BY SMT DEF AcquireRead, SeenInv
<1>7. ReleaseInv'
  BY SMT DEF AcquireRead, ReleaseInv
<1> QED  BY <1>1, <1>2, <1>3, <1>4, <1>5, <1>6, <1>7

\* The conditional put replaces what was seen, so that no live lease is lost.
LEMMA AcquirePutInv ==
  ASSUME LeaseInv, NEW i \in Instances, AcquirePut(i)
  PROVE  LeaseInv'
<1> USE LeaseAssumption DEF LeaseInv
<1>1. TypeOK'
  BY SMT DEF AcquirePut, TypeOK, acquiring, holding
<1>2. ClockInv'
  BY SMT DEF AcquirePut, ClockInv
<1>3. PutInv'
  BY SMT DEF AcquirePut, PutInv
<1>4. VerifyInv'
  BY SMT DEF AcquirePut, VerifyInv, PutInv, Mine
<1>5. CurrentInv'
  BY SMT DEF AcquirePut, CurrentInv, PutInv, TypeOK, holding, Mine
<1>6. SeenInv'
  BY SMT DEF AcquirePut, SeenInv
<1>7. ReleaseInv'
  BY SMT DEF AcquirePut, ReleaseInv
<1> QED  BY <1>1, <1>2, <1>3, <1>4, <1>5, <1>6, <1>7

\* What the re-read accepts is the lease that was put.
LEMMA AcquireVerifyInv ==
  ASSUME LeaseInv, NEW i \in Instances, AcquireVerify(i)
  PROVE  LeaseInv'
<1> USE LeaseAssumption DEF LeaseInv
<1>1. TypeOK'
  <2>1. next[i] # NoLease
    BY SMT DEF AcquireVerify, VerifyInv, Mine, NoLease
  <2>2. CASE role[i] = "Primary"
    BY <2>1, <2>2, SMT DEF AcquireVerify, returns, TypeOK, holding
  <2>3. CASE role[i] = "Replica"
    BY <2>3, SMT DEF AcquireVerify, returns, TypeOK, holding, releasing
  <2> QED  BY <2>2, <2>3 DEF TypeOK
<1>2. ClockInv'
  BY SMT DEF AcquireVerify, ClockInv, TypeOK, returns
<1>3. PutInv'
  BY SMT DEF AcquireVerify, PutInv, TypeOK, returns
<1>4. VerifyInv'
  BY SMT DEF AcquireVerify, VerifyInv, TypeOK, returns, Mine
<1>5. CurrentInv'
  BY SMT DEF AcquireVerify, CurrentInv, VerifyInv, TypeOK, Mine
<1>6. SeenInv'
  BY SMT DEF AcquireVerify, SeenInv, TypeOK, returns
<1>7. ReleaseInv'
  BY SMT DEF AcquireVerify, ReleaseInv, VerifyInv, TypeOK, returns, Mine
<1> QED  BY <1>1, <1>2, <1>3, <1>4, <1>5, <1>6, <1>7

\* A failed acquire changes the object at most as its put would have.
LEMMA AcquireFailsInv ==
  ASSUME LeaseInv, NEW i \in Instances, AcquireFails(i)
  PROVE  LeaseInv'
<1> USE LeaseAssumption DEF LeaseInv
<1>1. TypeOK'
  BY SMT DEF AcquireFails, TypeOK, returns, stops, acquiring, holding
<1>2. ClockInv'
  BY SMT DEF AcquireFails, ClockInv, TypeOK, returns
<1>3. PutInv'
  BY SMT DEF AcquireFails, PutInv, TypeOK, returns
<1>4. VerifyInv'
  BY SMT DEF AcquireFails, VerifyInv, PutInv, TypeOK, returns, Mine
<1>5. CurrentInv'
  BY SMT DEF AcquireFails, CurrentInv, PutInv, TypeOK, holding, Mine
<1>6. SeenInv'
  BY SMT DEF AcquireFails, SeenInv, TypeOK, returns
<1>7. ReleaseInv'
  BY SMT DEF AcquireFails, ReleaseInv, TypeOK, returns
<1> QED  BY <1>1, <1>2, <1>3, <1>4, <1>5, <1>6, <1>7

\* A round starts with a new clock, or moves the lease to the release.
LEMMA WakeInv ==
  ASSUME LeaseInv, NEW i \in Instances, Wake(i)
  PROVE  LeaseInv'
<1> USE LeaseAssumption DEF LeaseInv
<1>1. TypeOK'
  <2>1. CASE phase[i] = "Ready"
    BY <2>1, SMT DEF Wake, TypeOK, holding
  <2>2. CASE phase[i] # "Ready"
    BY <2>2, SMT DEF Wake, TypeOK, holding, releasing
  <2> QED  BY <2>1, <2>2
<1>2. ClockInv'
  BY SMT DEF Wake, ClockInv, TypeOK
<1>3. PutInv'
  BY SMT DEF Wake, PutInv, TypeOK
<1>4. VerifyInv'
  BY SMT DEF Wake, VerifyInv, TypeOK, Mine
<1>5. CurrentInv'
  BY SMT DEF Wake, CurrentInv, TypeOK, Mine
<1>6. SeenInv'
  BY SMT DEF Wake, SeenInv, TypeOK
<1>7. ReleaseInv'
  BY SMT DEF Wake, ReleaseInv, CurrentInv, TypeOK, holding, Mine
<1> QED  BY <1>1, <1>2, <1>3, <1>4, <1>5, <1>6, <1>7

\* A refresh goes on with the lease it has found its own.
LEMMA RefreshReadInv ==
  ASSUME LeaseInv, NEW i \in Instances, RefreshRead(i)
  PROVE  LeaseInv'
<1> USE LeaseAssumption DEF LeaseInv
<1>1. TypeOK'
  BY SMT DEF RefreshRead, TypeOK, holding
<1>2. ClockInv'
  BY SMT DEF RefreshRead, ClockInv
<1>3. PutInv'
  BY SMT DEF RefreshRead, PutInv
<1>4. VerifyInv'
  BY SMT DEF RefreshRead, VerifyInv, Mine
<1>5. CurrentInv'
  BY SMT DEF RefreshRead, CurrentInv, Mine
<1>6. SeenInv'
  BY SMT DEF RefreshRead, SeenInv, CurrentInv, TypeOK, matches, holding, Mine
<1>7. ReleaseInv'
  BY SMT DEF RefreshRead, ReleaseInv
<1> QED  BY <1>1, <1>2, <1>3, <1>4, <1>5, <1>6, <1>7

\* The conditional refresh replaces a lease of the same holder.
LEMMA RefreshPutInv ==
  ASSUME LeaseInv, NEW i \in Instances, RefreshPut(i)
  PROVE  LeaseInv'
<1> USE LeaseAssumption DEF LeaseInv
<1>1. TypeOK'
  BY SMT DEF RefreshPut, TypeOK, returns, refreshed, holding, Lease, NoLease
<1>2. ClockInv'
  BY SMT DEF RefreshPut, ClockInv, TypeOK, returns
<1>3. PutInv'
  BY SMT DEF RefreshPut, PutInv, returns
<1>4. VerifyInv'
  BY SMT DEF RefreshPut, VerifyInv, CurrentInv, SeenInv, TypeOK, returns, refreshed, holding, Mine
<1>5. CurrentInv'
  BY SMT DEF RefreshPut, CurrentInv, SeenInv, TypeOK, refreshed, holding, Mine
<1>6. SeenInv'
  BY SMT DEF RefreshPut, SeenInv, TypeOK, returns
<1>7. ReleaseInv'
  BY SMT DEF RefreshPut, ReleaseInv, returns
<1> QED  BY <1>1, <1>2, <1>3, <1>4, <1>5, <1>6, <1>7

\* A lost refresh forgets the lease, whether or not its put was carried out.
LEMMA RefreshLostInv ==
  ASSUME LeaseInv, NEW i \in Instances, RefreshLost(i)
  PROVE  LeaseInv'
<1> USE LeaseAssumption DEF LeaseInv
<1>1. TypeOK'
  BY SMT DEF RefreshLost, TypeOK, returns, refreshed, holding, Lease
<1>2. ClockInv'
  BY SMT DEF RefreshLost, ClockInv, TypeOK, returns
<1>3. PutInv'
  BY SMT DEF RefreshLost, PutInv, returns
<1>4. VerifyInv'
  BY SMT DEF RefreshLost, VerifyInv, CurrentInv, SeenInv, TypeOK, returns, refreshed, holding, Mine, Lease
<1>5. CurrentInv'
  BY SMT DEF RefreshLost, CurrentInv, SeenInv, TypeOK, refreshed, holding, Mine, Lease
<1>6. SeenInv'
  BY SMT DEF RefreshLost, SeenInv, TypeOK, returns
<1>7. ReleaseInv'
  BY SMT DEF RefreshLost, ReleaseInv, returns
<1> QED  BY <1>1, <1>2, <1>3, <1>4, <1>5, <1>6, <1>7

\* A release goes on with the lease it has found its own.
LEMMA ReleaseReadInv ==
  ASSUME LeaseInv, NEW i \in Instances, ReleaseRead(i)
  PROVE  LeaseInv'
<1> USE LeaseAssumption DEF LeaseInv
<1>1. TypeOK'
  BY SMT DEF ReleaseRead, TypeOK, holding, releasing
<1>2. ClockInv'
  BY SMT DEF ReleaseRead, ClockInv
<1>3. PutInv'
  BY SMT DEF ReleaseRead, PutInv
<1>4. VerifyInv'
  BY SMT DEF ReleaseRead, VerifyInv, Mine
<1>5. CurrentInv'
  BY SMT DEF ReleaseRead, CurrentInv, Mine
<1>6. SeenInv'
  BY SMT DEF ReleaseRead, SeenInv, ReleaseInv, TypeOK, matches
<1>7. ReleaseInv'
  BY SMT DEF ReleaseRead, ReleaseInv
<1> QED  BY <1>1, <1>2, <1>3, <1>4, <1>5, <1>6, <1>7

\* The conditional delete removes a lease its holder has let go of.
LEMMA ReleaseDeleteInv ==
  ASSUME LeaseInv, NEW i \in Instances, ReleaseDelete(i)
  PROVE  LeaseInv'
<1> USE LeaseAssumption DEF LeaseInv
<1>1. TypeOK'
  BY SMT DEF ReleaseDelete, TypeOK, holding, releasing
<1>2. ClockInv'
  BY SMT DEF ReleaseDelete, ClockInv
<1>3. PutInv'
  BY SMT DEF ReleaseDelete, PutInv
<1>4. VerifyInv'
  BY SMT DEF ReleaseDelete, VerifyInv, SeenInv, Mine, NoLease
<1>5. CurrentInv'
  BY SMT DEF ReleaseDelete, CurrentInv, SeenInv, TypeOK, holding, Mine, NoLease
<1>6. SeenInv'
  BY SMT DEF ReleaseDelete, SeenInv
<1>7. ReleaseInv'
  BY SMT DEF ReleaseDelete, ReleaseInv
<1> QED  BY <1>1, <1>2, <1>3, <1>4, <1>5, <1>6, <1>7

\* A failed release changes the object at most as its delete would have.
LEMMA ReleaseFailsInv ==
  ASSUME LeaseInv, NEW i \in Instances, ReleaseFails(i)
  PROVE  LeaseInv'
<1> USE LeaseAssumption DEF LeaseInv
<1>1. TypeOK'
  BY SMT DEF ReleaseFails, TypeOK, holding, releasing
<1>2. ClockInv'
  BY SMT DEF ReleaseFails, ClockInv
<1>3. PutInv'
  BY SMT DEF ReleaseFails, PutInv
<1>4. VerifyInv'
  BY SMT DEF ReleaseFails, VerifyInv, SeenInv, Mine, NoLease
<1>5. CurrentInv'
  BY SMT DEF ReleaseFails, CurrentInv, SeenInv, TypeOK, holding, Mine, NoLease
<1>6. SeenInv'
  BY SMT DEF ReleaseFails, SeenInv
<1>7. ReleaseInv'
  BY SMT DEF ReleaseFails, ReleaseInv
<1> QED  BY <1>1, <1>2, <1>3, <1>4, <1>5, <1>6, <1>7

\* Closing the gate ends the call.
LEMMA CloseGateInv ==
  ASSUME LeaseInv, NEW i \in Instances, CloseGate(i)
  PROVE  LeaseInv'
<1> USE LeaseAssumption DEF LeaseInv
<1>1. TypeOK'
  BY SMT DEF CloseGate, TypeOK, returns, holding
<1>2. ClockInv'
  BY SMT DEF CloseGate, ClockInv, TypeOK, returns
<1>3. PutInv'
  BY SMT DEF CloseGate, PutInv, TypeOK, returns
<1>4. VerifyInv'
  BY SMT DEF CloseGate, VerifyInv, TypeOK, returns, Mine
<1>5. CurrentInv'
  BY SMT DEF CloseGate, CurrentInv, Mine
<1>6. SeenInv'
  BY SMT DEF CloseGate, SeenInv, TypeOK, returns
<1>7. ReleaseInv'
  BY SMT DEF CloseGate, ReleaseInv, TypeOK, returns
<1> QED  BY <1>1, <1>2, <1>3, <1>4, <1>5, <1>6, <1>7

\* The clock only moves forward: what had expired stays expired.
LEMMA TickInv ==
  ASSUME LeaseInv, Tick
  PROVE  LeaseInv'
<1> USE LeaseAssumption DEF LeaseInv
<1>1. TypeOK'
  BY SMT DEF Tick, TypeOK
<1>2. now' = now + 1 /\ now \in Nat
  BY SMT DEF Tick, TypeOK
<1>3. \A lease \in Lease \cup {NoLease} : isExpired(lease, now) => isExpired(lease, now')
  BY <1>2, SMT DEF isExpired, Lease, NoLease
<1>4. ClockInv'
  BY <1>2, SMT DEF Tick, ClockInv, TypeOK
<1>5. PutInv'
  BY <1>3, SMT DEF Tick, PutInv, TypeOK
<1>6. VerifyInv' /\ CurrentInv'
  BY <1>3, SMT DEF Tick, VerifyInv, CurrentInv, Mine, TypeOK
<1>7. SeenInv' /\ ReleaseInv'
  BY SMT DEF Tick, SeenInv, ReleaseInv
<1> QED  BY <1>1, <1>4, <1>5, <1>6, <1>7

\* LeaseInv is inductive.
LEMMA StepLeaseInv == LeaseInv /\ [Next]_vars => LeaseInv'
<1> SUFFICES ASSUME LeaseInv, [Next]_vars  PROVE LeaseInv'
  OBVIOUS
<1>1. CASE Tick
  BY <1>1, TickInv
<1>2. CASE \E i \in Instances : Process(i)
  BY <1>2, BootInv, PromoteInv, DrainInv, ExitInv DEF Process
<1>3. CASE \E i \in Instances : Acquire(i)
  BY <1>3, AcquireReadInv, AcquirePutInv, AcquireVerifyInv, AcquireFailsInv DEF Acquire
<1>4. CASE \E i \in Instances : Refresh(i)
  BY <1>4, WakeInv, RefreshReadInv, RefreshPutInv, RefreshLostInv DEF Refresh
<1>5. CASE \E i \in Instances : Release(i)
  BY <1>5, ReleaseReadInv, ReleaseDeleteInv, ReleaseFailsInv, CloseGateInv DEF Release
<1>6. CASE UNCHANGED vars
  BY <1>6, SMT
  DEF vars, LeaseInv, TypeOK, ClockInv, PutInv, VerifyInv, CurrentInv, Mine,
      SeenInv, ReleaseInv, isExpired
<1> QED  BY <1>1, <1>2, <1>3, <1>4, <1>5, <1>6 DEF Next

\* LeaseInv holds in every reachable state.
LEMMA LeaseInvariant == Spec => []LeaseInv
  BY InitLeaseInv, StepLeaseInv, PTL DEF Spec

-----------------------------------------------------------------------------
(***************************************************************************)
(* Type correctness; in particular a lifecycle has a lease exactly while   *)
(* its refresh thread works on it.                                         *)
(***************************************************************************)
THEOREM TypeCorrect == Spec => []TypeOK
<1>1. LeaseInv => TypeOK
  BY DEF LeaseInv
<1> QED  BY <1>1, LeaseInvariant, PTL

(***************************************************************************)
(* A lease in a lifecycle's memory that has not expired is the one the     *)
(* backend names, whatever requests fail and whatever answers are lost.    *)
(***************************************************************************)
THEOREM LiveLeasePublished == Spec => []LiveLeaseIsPublished
<1>1. LeaseInv => LiveLeaseIsPublished
  BY DEF LeaseInv, CurrentInv, Mine, LiveLeaseIsPublished
<1> QED  BY <1>1, LeaseInvariant, PTL

(***************************************************************************)
(* Two instances never write at the same time with leases that have not    *)
(* expired: both would be the holder the backend names.                    *)
(***************************************************************************)
THEOREM SingleLiveWriter == Spec => []OneLiveWriter
<1>1. ASSUME LeaseInv  PROVE OneLiveWriter
  <2> SUFFICES ASSUME NEW i \in Instances, NEW j \in Instances,
                      current[i] # NoLease, ~isExpired(current[i], now),
                      current[j] # NoLease, ~isExpired(current[j], now)
               PROVE  i = j
    BY DEF OneLiveWriter
  <2>1. object = current[i] /\ current[i].holder = i
    BY <1>1 DEF LeaseInv, CurrentInv, Mine
  <2>2. object = current[j] /\ current[j].holder = j
    BY <1>1 DEF LeaseInv, CurrentInv, Mine
  <2> QED  BY <2>1, <2>2
<1> QED  BY <1>1, LeaseInvariant, PTL

\* Steps that leave the object alone hand nothing over.
LEMMA HandoverOfStep == LeaseInv /\ [Next]_vars => [HandoverStep]_vars
<1> SUFFICES ASSUME LeaseInv, Next, object # NoLease, object' # object
             PROVE  /\ object'.holder \notin {object.holder, Nobody} =>
                         /\ isExpired(object, now)
                         /\ object'.term >= object.term
                         /\ object'.generation = object.generation + 1
                    /\ object' = NoLease => current[object.holder] = NoLease
  BY DEF HandoverStep
<1> USE LeaseAssumption DEF LeaseInv
<1>1. PICK i \in Instances : Process(i) \/ Acquire(i) \/ Refresh(i) \/ Release(i)
  BY DEF Next, Tick
<1>2. ~Process(i)
  BY DEF Process, Boot, Promote, Drain, Exit
<1>3. CASE Acquire(i)
  <2>1. pc[i] = "put" /\ object = seen[i] /\ object' = next[i]
    BY <1>3 DEF Acquire, AcquireRead, AcquirePut, AcquireVerify, AcquireFails
  <2> QED  BY <2>1, SMT DEF PutInv
<1>4. CASE Refresh(i)
  <2>1. pc[i] = "refresh_put" /\ object = seen[i] /\ object' = refreshed(i)
    BY <1>4 DEF Refresh, Wake, RefreshRead, RefreshPut, RefreshLost
  <2>2. object.holder = i /\ current[i] # NoLease
    BY <2>1, SMT DEF SeenInv, TypeOK, holding
  <2>3. object'.holder = i
    BY <2>1, <2>2, SMT DEF refreshed, CurrentInv, Mine, TypeOK, Lease
  <2> QED  BY <2>2, <2>3, SMT DEF NoLease
<1>5. CASE Release(i)
  <2>1. pc[i] = "delete" /\ object = seen[i] /\ object' = NoLease
    BY <1>5 DEF Release, ReleaseRead, ReleaseDelete, ReleaseFails, CloseGate
  <2>2. object.holder = i /\ current[i] = NoLease
    BY <2>1, SMT DEF SeenInv, TypeOK, holding
  <2> QED  BY <2>1, <2>2, SMT DEF NoLease
<1> QED  BY <1>1, <1>2, <1>3, <1>4, <1>5

(***************************************************************************)
(* A lease changes hands only when it has expired, never to a term that is *)
(* behind, always with the next generation, and nobody deletes the lease   *)
(* of a holder that still counts on it.                                    *)
(***************************************************************************)
THEOREM HandoverFenced == Spec => HandoverIsFenced
  BY LeaseInvariant, HandoverOfStep, PTL DEF Spec, HandoverIsFenced
=============================================================================
