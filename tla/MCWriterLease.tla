---- MODULE MCWriterLease ----
(***************************************************************************)
(* Two instances and a lease of one clock tick: three generations let a    *)
(* lease that was taken over be taken over again, two ticks let it expire  *)
(* in between, and two terms let a contender be behind.  The liveness      *)
(* property rules out symmetry.                                            *)
(***************************************************************************)
EXTENDS WriterLease
====
