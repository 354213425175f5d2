-------------------------- MODULE MCSnapshotManager --------------------------
(* The snapshot manager with a few xids, a pool of two and two frames.      *)
EXTENDS SnapshotManager, TLC

\* Frames are interchangeable: no action or property names one of them.
FrameSymmetry == Permutations(Frames)
=============================================================================
