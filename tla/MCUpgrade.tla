----------------------------- MODULE MCUpgrade ------------------------------
(* The instances of Upgrade that TLC checks; see the configurations. *)
EXTENDS Upgrade
=============================================================================
