----------------------------- MODULE MCElection -----------------------------
(* Two data members and a witness elect; a fourth member is catching up.    *)
EXTENDS Election, TLC

\* The data members are interchangeable.
DataSymmetry == Permutations(Data)
=============================================================================
