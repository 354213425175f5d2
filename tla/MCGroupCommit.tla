---- MODULE MCGroupCommit ----
(***************************************************************************)
(* Two calls of any kind, in every mode of durability, next to a flusher   *)
(* and a checkpoint that truncates as often as it likes: one call can be   *)
(* drained or truncated while the other waits, and fail while the other    *)
(* succeeds.  The liveness properties rule out symmetry.                   *)
(***************************************************************************)
EXTENDS GroupCommit
====
