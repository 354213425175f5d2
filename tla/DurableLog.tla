------------------------------ MODULE DurableLog ------------------------------
(***************************************************************************)
(* What a write-ahead log promises to the calls that append to it, whatever *)
(* queues, leases and flushers are behind it.  A record is in the log from  *)
(* some moment between its call and its answer on, stays there until a      *)
(* checkpoint has made it superfluous, and survives crashes.  An answer     *)
(* "ok" means that the record is in the log, or that the call is one of     *)
(* those that do not wait (asynchronous commits).                           *)
(***************************************************************************)
CONSTANT Calls

VARIABLES
    status,    \* [Calls -> {"idle", "pending", "ok", "err", "lost"}]
    lazy,      \* the calls answered without waiting for a record in the log
    log,       \* the calls whose records a restart would find
    covered    \* the calls whose effect a checkpoint has stored

vars == <<status, lazy, log, covered>>

Init ==
    /\ status = [c \in Calls |-> "idle"]
    /\ lazy = {}
    /\ log = {}
    /\ covered = {}

Pending == {c \in Calls : status[c] = "pending"}

Submit(c) ==
    /\ status[c] = "idle"
    /\ status' = [status EXCEPT ![c] = "pending"]
    /\ lazy' \in {lazy, lazy \cup {c}}
    /\ UNCHANGED <<log, covered>>

Harden(S) ==
    /\ \A c \in S : status[c] # "idle"
    /\ log' = log \cup S
    /\ UNCHANGED <<status, lazy, covered>>

Accept(c) ==
    /\ status[c] = "pending"
    /\ c \in log \/ c \in lazy
    /\ status' = [status EXCEPT ![c] = "ok"]
    /\ UNCHANGED <<lazy, log, covered>>

Refuse(c) ==
    /\ status[c] = "pending"
    /\ status' = [status EXCEPT ![c] = "err"]
    /\ UNCHANGED <<lazy, log, covered>>

\* Only answered calls may leave the log, and only into the checkpoint.
Checkpoint(S) ==
    /\ S \cap Pending = {}
    /\ \A c \in S : status[c] # "idle"
    /\ log' = log \ S
    /\ covered' = covered \cup S
    /\ UNCHANGED <<status, lazy>>

\* Calls under way are forgotten, and answers that had not waited may turn out void.
Crash(S) ==
    /\ \A c \in S : status[c] # "idle"
    /\ log' = log \cup S
    /\ \E L \in SUBSET {c \in lazy : status[c] = "ok" /\ c \notin log' \cup covered} :
          status' = [c \in Calls |-> IF c \in Pending \cup L THEN "lost" ELSE status[c]]
    /\ UNCHANGED <<lazy, covered>>

Next ==
    \/ \E c \in Calls : Submit(c) \/ Accept(c) \/ Refuse(c)
    \/ \E S \in SUBSET Calls : Harden(S) \/ Checkpoint(S) \/ Crash(S)

Spec == Init /\ [][Next]_vars
=============================================================================
