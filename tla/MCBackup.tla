------------------------------ MODULE MCBackup ------------------------------
(* The instances of Backup that TLC checks; see the configurations. *)
EXTENDS Backup
=============================================================================
