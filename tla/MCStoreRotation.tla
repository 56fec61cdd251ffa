-------------------------- MODULE MCStoreRotation --------------------------
(* Small instances of StoreRotation for TLC.                                 *)
EXTENDS StoreRotation, TLC

\* Nothing distinguishes one background session from another.
TaskSymmetry == Permutations(Tasks)
=============================================================================
