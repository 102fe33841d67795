---------------------------- MODULE MCOwnerWrite -----------------------------
(* The instances of OwnerWrite that TLC checks; see the configurations. *)
EXTENDS OwnerWrite, TLC

WriterSymmetry == Permutations(Writers)
=============================================================================
