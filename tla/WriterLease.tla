----------------------------- MODULE WriterLease -----------------------------
(***************************************************************************)
(* The serverless writer lease: one JSON object in the remote backend that *)
(* names the instance allowed to write, taken, refreshed and deleted with  *)
(* compare-and-swap (replication/lease.rs), the lifecycle that keeps it    *)
(* and moves the write gate (runtime/lease_lifecycle.rs), and the thread   *)
(* that runs the lifecycle (runtime/lease_loop.rs).                        *)
(*                                                                         *)
(* Every call of the lease store is several requests to the backend, and   *)
(* any request of another instance may come between two of them.  A request *)
(* may fail, and a conditional put or delete may be carried out although   *)
(* its answer is lost.  The version of an object is the hash of its bytes  *)
(* (storage/backend/local.rs), so that comparing versions is comparing     *)
(* leases.  The instances read one common clock that never goes back: the  *)
(* code compares wall clocks of different machines and relies on that.     *)
(***************************************************************************)
EXTENDS Naturals

CONSTANTS
    Instances,      \* the holder ids; no two running processes share one
    Nobody,         \* the holder id of an absent lease
    TTL,            \* RED_LEASE_TTL_SECS, never zero
    MaxTime,        \* bound on the clock
    MaxTerm,        \* bound on the replication terms
    MaxGeneration   \* bound on the generations of the lease object

ASSUME LeaseAssumption ==
    /\ Nobody \notin Instances
    /\ TTL \in Nat \ {0}
    /\ MaxTime \in Nat
    /\ MaxTerm \in Nat \ {0}
    /\ MaxGeneration \in Nat \ {0}

VARIABLES
    now,        \* the clock
    object,     \* the published lease, NoLease when the object is absent
    phase,      \* Lifecycle::phase of each process
    role,       \* its replication role, fixed when it starts
    term,       \* current_replication_term(), fixed when it starts
    gate,       \* WriteGate::lease
    current,    \* LeaseLifecycle::current
    pc,         \* the next request of the process's lease call
    clock,      \* now_ms of that call, read before its first request
    seen,       \* the lease the call has read, with its version
    next        \* the lease the call is about to publish, or is releasing

vars == <<now, object, phase, role, term, gate, current, pc, clock, seen, next>>

Lease == [holder : Instances, term : 1..MaxTerm, generation : 1..MaxGeneration,
          acquired : 0..MaxTime, expires : 0..MaxTime + TTL]

NoLease == [holder |-> Nobody, term |-> 0, generation |-> 0,
            acquired |-> 0, expires |-> 0]

acquiring == {"acquire", "put", "verify"}
holding == {"idle", "refresh", "refresh_put"}
releasing == {"release", "delete", "close"}

(***************************************************************************)
(* The published state has its type, a stopped process runs no call, and a *)
(* lifecycle has a current lease exactly while its refresh thread runs on  *)
(* it.                                                                     *)
(***************************************************************************)
TypeOK ==
    /\ now \in 0..MaxTime
    /\ object \in Lease \cup {NoLease}
    /\ phase \in [Instances -> {"Stopped", "Ready", "Draining"}]
    /\ role \in [Instances -> {"Primary", "Replica"}]
    /\ term \in [Instances -> 1..MaxTerm]
    /\ gate \in [Instances -> {"NotRequired", "Held", "NotHeld"}]
    /\ current \in [Instances -> Lease \cup {NoLease}]
    /\ pc \in [Instances -> {"none", "exited"} \cup acquiring \cup holding \cup releasing]
    /\ clock \in [Instances -> 0..MaxTime]
    /\ seen \in [Instances -> Lease \cup {NoLease}]
    /\ next \in [Instances -> Lease \cup {NoLease}]
    /\ \A i \in Instances :
         /\ phase[i] = "Stopped" => pc[i] = "none"
         /\ current[i] # NoLease <=> pc[i] \in holding

-----------------------------------------------------------------------------
(* reddb-file/src/serverless/lease.rs *)

isExpired(lease, time) == lease.expires <= time

fencedByTerm(lease, currentTerm) == lease.term < currentTerm

(* refresh and release act on the object only when holder and generation match *)
matches(lease) ==
    /\ object.holder = lease.holder
    /\ object.generation = lease.generation

(* The locals of a lease call go out of scope when it returns *)
returns(i) ==
    /\ clock' = [clock EXCEPT ![i] = 0]
    /\ seen' = [seen EXCEPT ![i] = NoLease]
    /\ next' = [next EXCEPT ![i] = NoLease]

(* A process is gone, with what it had in memory *)
stops(i) ==
    /\ phase' = [phase EXCEPT ![i] = "Stopped"]
    /\ role' = [role EXCEPT ![i] = "Primary"]
    /\ term' = [term EXCEPT ![i] = 1]

-----------------------------------------------------------------------------
Init ==
    /\ now = 0
    /\ object = NoLease
    /\ phase = [i \in Instances |-> "Stopped"]
    /\ role = [i \in Instances |-> "Primary"]
    /\ term = [i \in Instances |-> 1]
    /\ gate = [i \in Instances |-> "NotRequired"]
    /\ current = [i \in Instances |-> NoLease]
    /\ pc = [i \in Instances |-> "none"]
    /\ clock = [i \in Instances |-> 0]
    /\ seen = [i \in Instances |-> NoLease]
    /\ next = [i \in Instances |-> NoLease]

(* A process starts.  A primary is ready before it asks for its lease, and  *)
(* boot goes no further until it has it.                                    *)
Boot(i) ==
    /\ phase[i] = "Stopped"
    /\ \E r \in {"Primary", "Replica"}, t \in 1..MaxTerm :
         /\ role' = [role EXCEPT ![i] = r]
         /\ term' = [term EXCEPT ![i] = t]
         /\ pc' = [pc EXCEPT ![i] = IF r = "Primary" THEN "acquire" ELSE "none"]
    /\ phase' = [phase EXCEPT ![i] = "Ready"]
    /\ clock' = [clock EXCEPT ![i] = now]
    /\ UNCHANGED <<now, object, gate, current, seen, next>>

(* POST /failover/promote: a replica takes the lease in its term and stays  *)
(* a replica; one promotion runs at a time.                                 *)
Promote(i) ==
    /\ phase[i] = "Ready"
    /\ role[i] = "Replica"
    /\ pc[i] = "none"
    /\ pc' = [pc EXCEPT ![i] = "acquire"]
    /\ clock' = [clock EXCEPT ![i] = now]
    /\ UNCHANGED <<now, object, phase, role, term, gate, current, seen, next>>

fenced(i) == term[i] < object.term

held(i) == ~isExpired(object, clock[i]) /\ object.holder # i

(* Mutant: the first generation is 0 *)
bug_AcquireRead(i) ==
    /\ pc[i] = "acquire"
    /\ ~fenced(i)
    /\ ~held(i)
    /\ object.generation < MaxGeneration
    /\ seen' = [seen EXCEPT ![i] = object]
    /\ next' = [next EXCEPT ![i] =
                  [holder |-> i, term |-> term[i],
                   generation |-> IF object = NoLease THEN 0 ELSE object.generation + 1,
                   acquired |-> clock[i], expires |-> clock[i] + TTL]]
    /\ pc' = [pc EXCEPT ![i] = "put"]
    /\ UNCHANGED <<now, object, phase, role, term, gate, current, clock>>

AcquireRead(i) ==
    /\ pc[i] = "acquire"
    /\ ~fenced(i)
    /\ ~held(i)
    /\ object.generation < MaxGeneration
    /\ seen' = [seen EXCEPT ![i] = object]
    /\ next' = [next EXCEPT ![i] =
                  [holder |-> i, term |-> term[i],
                   generation |-> object.generation + 1,
                   acquired |-> clock[i], expires |-> clock[i] + TTL]]
    /\ pc' = [pc EXCEPT ![i] = "put"]
    /\ UNCHANGED <<now, object, phase, role, term, gate, current, clock>>

(* Mutant: the put carries no condition *)
bug_AcquirePut(i) ==
    /\ pc[i] = "put"
    /\ object' = next[i]
    /\ pc' = [pc EXCEPT ![i] = "verify"]
    /\ UNCHANGED <<now, phase, role, term, gate, current, clock, seen, next>>

AcquirePut(i) ==
    /\ pc[i] = "put"
    /\ object = seen[i]
    /\ object' = next[i]
    /\ pc' = [pc EXCEPT ![i] = "verify"]
    /\ UNCHANGED <<now, phase, role, term, gate, current, clock, seen, next>>

(* The re-read shows our lease.  The lifecycle of a primary keeps it and    *)
(* opens the gate; a promotion keeps nothing, and gives the lease back when *)
(* the failover timeline cannot be recorded.                                *)
AcquireVerify(i) ==
    /\ pc[i] = "verify"
    /\ matches(next[i])
    /\ \/ /\ role[i] = "Primary"
          /\ current' = [current EXCEPT ![i] = next[i]]
          /\ gate' = [gate EXCEPT ![i] = "Held"]
          /\ pc' = [pc EXCEPT ![i] = "idle"]
          /\ returns(i)
       \/ /\ role[i] = "Replica"
          /\ \/ pc' = [pc EXCEPT ![i] = "none"] /\ returns(i)
             \/ pc' = [pc EXCEPT ![i] = "release"] /\ UNCHANGED <<clock, seen, next>>
          /\ UNCHANGED <<gate, current>>
    /\ UNCHANGED <<now, object, phase, role, term>>

(* Fenced, Held, a lost race or a failed request, whose put may have been   *)
(* carried out.  A primary refuses to serve, a replica answers the error.   *)
AcquireFails(i) ==
    /\ pc[i] \in acquiring
    /\ \/ UNCHANGED object
       \/ pc[i] = "put" /\ object = seen[i] /\ object' = next[i]
    /\ \/ role[i] = "Primary" /\ stops(i)
       \/ role[i] = "Replica" /\ UNCHANGED <<phase, role, term>>
    /\ pc' = [pc EXCEPT ![i] = "none"]
    /\ returns(i)
    /\ UNCHANGED <<now, gate, current>>

-----------------------------------------------------------------------------
(* One round of the refresh thread: it refreshes the lease of a process     *)
(* that is ready, and releases the lease of one that is not.                *)
Wake(i) ==
    /\ pc[i] = "idle"
    /\ \/ /\ phase[i] = "Ready"
          /\ pc' = [pc EXCEPT ![i] = "refresh"]
          /\ clock' = [clock EXCEPT ![i] = now]
          /\ UNCHANGED <<current, next>>
       \/ /\ phase[i] # "Ready"
          /\ pc' = [pc EXCEPT ![i] = "release"]
          /\ next' = [next EXCEPT ![i] = current[i]]
          /\ current' = [current EXCEPT ![i] = NoLease]
          /\ UNCHANGED clock
    /\ UNCHANGED <<now, object, phase, role, term, gate, seen>>

RefreshRead(i) ==
    /\ pc[i] = "refresh"
    /\ ~fencedByTerm(current[i], term[i])
    /\ matches(current[i])
    /\ seen' = [seen EXCEPT ![i] = object]
    /\ pc' = [pc EXCEPT ![i] = "refresh_put"]
    /\ UNCHANGED <<now, object, phase, role, term, gate, current, clock, next>>

refreshed(i) == [current[i] EXCEPT !.expires = clock[i] + TTL]

(* Mutant: the refresh carries no condition *)
bug_RefreshPut(i) ==
    /\ pc[i] = "refresh_put"
    /\ object' = refreshed(i)
    /\ current' = [current EXCEPT ![i] = refreshed(i)]
    /\ pc' = [pc EXCEPT ![i] = "idle"]
    /\ returns(i)
    /\ UNCHANGED <<now, phase, role, term, gate>>

RefreshPut(i) ==
    /\ pc[i] = "refresh_put"
    /\ object = seen[i]
    /\ object' = refreshed(i)
    /\ current' = [current EXCEPT ![i] = refreshed(i)]
    /\ pc' = [pc EXCEPT ![i] = "idle"]
    /\ returns(i)
    /\ UNCHANGED <<now, phase, role, term, gate>>

(* Mutant: the thread tries again after a failed request *)
bug_RefreshLost(i) ==
    /\ pc[i] \in {"refresh", "refresh_put"}
    /\ pc' = [pc EXCEPT ![i] = "idle"]
    /\ returns(i)
    /\ UNCHANGED <<now, object, phase, role, term, gate, current>>

(* Fenced, Stale or a failed request, whose put may have been carried out:  *)
(* on_refresh_lost closes the gate and drains the process, and the thread   *)
(* ends.                                                                    *)
RefreshLost(i) ==
    /\ pc[i] \in {"refresh", "refresh_put"}
    /\ \/ UNCHANGED object
       \/ pc[i] = "refresh_put" /\ object = seen[i] /\ object' = refreshed(i)
    /\ current' = [current EXCEPT ![i] = NoLease]
    /\ gate' = [gate EXCEPT ![i] = "NotHeld"]
    /\ phase' = [phase EXCEPT ![i] = "Draining"]
    /\ pc' = [pc EXCEPT ![i] = "exited"]
    /\ returns(i)
    /\ UNCHANGED <<now, role, term>>

ReleaseRead(i) ==
    /\ pc[i] = "release"
    /\ matches(next[i])
    /\ seen' = [seen EXCEPT ![i] = object]
    /\ pc' = [pc EXCEPT ![i] = "delete"]
    /\ UNCHANGED <<now, object, phase, role, term, gate, current, clock, next>>

(* Mutant: the delete carries no condition *)
bug_ReleaseDelete(i) ==
    /\ pc[i] = "delete"
    /\ object' = NoLease
    /\ pc' = [pc EXCEPT ![i] = "close"]
    /\ UNCHANGED <<now, phase, role, term, gate, current, clock, seen, next>>

ReleaseDelete(i) ==
    /\ pc[i] = "delete"
    /\ object = seen[i]
    /\ object' = NoLease
    /\ pc' = [pc EXCEPT ![i] = "close"]
    /\ UNCHANGED <<now, phase, role, term, gate, current, clock, seen, next>>

(* Stale or a failed request, whose delete may have been carried out *)
ReleaseFails(i) ==
    /\ pc[i] \in {"release", "delete"}
    /\ \/ UNCHANGED object
       \/ pc[i] = "delete" /\ object = seen[i] /\ object' = NoLease
    /\ pc' = [pc EXCEPT ![i] = "close"]
    /\ UNCHANGED <<now, phase, role, term, gate, current, clock, seen, next>>

(* The gate closes after the request that deletes the lease has returned *)
CloseGate(i) ==
    /\ pc[i] = "close"
    /\ \/ /\ role[i] = "Primary"
          /\ gate' = [gate EXCEPT ![i] = "NotHeld"]
          /\ pc' = [pc EXCEPT ![i] = "exited"]
       \/ /\ role[i] = "Replica"
          /\ pc' = [pc EXCEPT ![i] = "none"]
          /\ UNCHANGED gate
    /\ returns(i)
    /\ UNCHANGED <<now, object, phase, role, term, current>>

-----------------------------------------------------------------------------
(* POST /admin/drain and the first step of a graceful shutdown; neither     *)
(* reaches a primary before boot has its lease.                             *)
Drain(i) ==
    /\ phase[i] = "Ready"
    /\ role[i] = "Primary"
    /\ pc[i] \notin acquiring
    /\ phase' = [phase EXCEPT ![i] = "Draining"]
    /\ UNCHANGED <<now, object, role, term, gate, current, pc, clock, seen, next>>

(* The process ends, by a crash or by the exit that follows a graceful      *)
(* shutdown, which does not wait for the refresh thread.                    *)
Exit(i) ==
    /\ phase[i] # "Stopped"
    /\ stops(i)
    /\ gate' = [gate EXCEPT ![i] = "NotRequired"]
    /\ current' = [current EXCEPT ![i] = NoLease]
    /\ pc' = [pc EXCEPT ![i] = "none"]
    /\ returns(i)
    /\ UNCHANGED <<now, object>>

Tick ==
    /\ now < MaxTime
    /\ now' = now + 1
    /\ UNCHANGED <<object, phase, role, term, gate, current, pc, clock, seen, next>>

Acquire(i) ==
    AcquireRead(i) \/ AcquirePut(i) \/ AcquireVerify(i) \/ AcquireFails(i)

Refresh(i) ==
    Wake(i) \/ RefreshRead(i) \/ RefreshPut(i) \/ RefreshLost(i)

Release(i) ==
    ReleaseRead(i) \/ ReleaseDelete(i) \/ ReleaseFails(i) \/ CloseGate(i)

Process(i) == Boot(i) \/ Promote(i) \/ Drain(i) \/ Exit(i)

Next ==
    \/ \E i \in Instances : Process(i) \/ Acquire(i) \/ Refresh(i) \/ Release(i)
    \/ Tick

Spec == Init /\ [][Next]_vars

(* A running refresh thread is scheduled, and every request it sends is     *)
(* answered or fails in the end.                                            *)
FairSpec == Spec /\ \A i \in Instances : WF_vars(Refresh(i) \/ Release(i))

-----------------------------------------------------------------------------
(***************************************************************************)
(* While the lease in its memory has not expired, a writer is the holder   *)
(* the backend names, with the same lease: nobody has taken over, and the  *)
(* release of an earlier holder has not deleted it (LeaseLifecycle::current *)
(* against the object).                                                    *)
(***************************************************************************)
LiveLeaseIsPublished ==
    \A i \in Instances :
        current[i] # NoLease /\ ~isExpired(current[i], now) => object = current[i]

(***************************************************************************)
(* At most one instance has an open gate and a lease that has not expired: *)
(* writers overlap only when one of them has outlived its lease.           *)
(***************************************************************************)
OneLiveWriter ==
    \A i, j \in Instances :
        /\ gate[i] = "Held" /\ current[i] # NoLease /\ ~isExpired(current[i], now)
        /\ gate[j] = "Held" /\ current[j] # NoLease /\ ~isExpired(current[j], now)
        => i = j

(***************************************************************************)
(* A published lease passes to another holder only when it has expired,    *)
(* under a term that is not behind it and with the next generation, and it *)
(* disappears only when its holder's lifecycle has let go of it            *)
(* (try_acquire_for_term and release against requests that come between    *)
(* their read and their conditional write).                                *)
(***************************************************************************)
HandoverStep ==
    object # NoLease /\ object' # object =>
        /\ object'.holder \notin {object.holder, Nobody} =>
             /\ isExpired(object, now)
             /\ object'.term >= object.term
             /\ object'.generation = object.generation + 1
        /\ object' = NoLease => current[object.holder] = NoLease

HandoverIsFenced == [][HandoverStep]_vars

(***************************************************************************)
(* An open gate closes once the lease belongs to someone else or to        *)
(* nobody, and once the process drains: no writer keeps on writing without *)
(* a lease (the refresh thread, on_refresh_lost and release).              *)
(***************************************************************************)
UnfitWriterStops ==
    \A i \in Instances :
        gate[i] = "Held" /\ (object.holder # i \/ phase[i] = "Draining")
            ~> gate[i] # "Held"
=============================================================================
