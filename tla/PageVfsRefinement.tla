------------------------- MODULE PageVfsRefinement --------------------------
(***************************************************************************)
(* PageVfs implements AtomicDatabase: the file and the owner sequence that *)
(* readers see change in one step, the put of the metadata key, whatever   *)
(* the order of the other puts and deletes and wherever a call stops.      *)
(***************************************************************************)
EXTENDS PageVfs

CONSTANTS Unwritten, Torn, NoTxn

(* The file as SQLite sees it, without the pages it may not rely on. *)
WorkingFile == [p \in 1..fileSize |-> IF p \in holes THEN Unwritten ELSE View[p]]

InTransaction == Transacting /\ ~torn

(* What a reader sees, and what is not committed yet. *)
VisibleFile == IF torn THEN Torn ELSE CommittedFile
OpenTransaction == IF InTransaction THEN [file |-> WorkingFile, seq |-> pending] ELSE NoTxn

Database == INSTANCE AtomicDatabase WITH
    MaxPages <- MaxVfsPages,
    committed <- VisibleFile,
    sequence <- meta.seq,
    txn <- OpenTransaction

ASSUME MarkersAssumption ==
    /\ Torn \notin Database!Files
    /\ NoTxn \notin [file : Database!WorkingFiles, seq : Sequence]

(* Every behaviour of the page store is one of the atomic database: a query *)
(* or a backup never sees a mixture of two transactions, a transaction      *)
(* commits exactly the file SQLite committed, and the sequence is consumed  *)
(* with it or not at all.                                                   *)
ImplementsAtomicDatabase == Database!Spec

-----------------------------------------------------------------------------
(* What the refinement needs beside IInv: a call starts from an empty       *)
(* buffer, SQLite commits no file with an unwritten page, and only a reset  *)
(* deletes what the metadata names.                                         *)

FreshCall == phase = "idle" => dirty = NoPages /\ holes = {}

HolesFilled == phase \in {"putPages", "putMeta"} => holes = {}

OnlyResetTears == torn => ~Configured

RefInv == IInv /\ FreshCall /\ HolesFilled /\ OnlyResetTears
=============================================================================
