------------------------------- MODULE MCMvcc -------------------------------
(* Transactions on a store that starts with one row.                        *)
EXTENDS Mvcc, TLC

\* Connections are interchangeable.
ConnSymmetry == Permutations(Conns)
=============================================================================
