--------------------------- MODULE AtomicDatabase ---------------------------
(***************************************************************************)
(* What the page store under the Circle program promises SQLite and its    *)
(* callers: one database file, changed by transactions that take effect    *)
(* whole or not at all, together with the owner-write sequence number      *)
(* that the transaction consumes.  It says nothing of keys, generations,   *)
(* manifests, flushes or garbage collection; PageVfs implements it.        *)
(***************************************************************************)
EXTENDS Naturals

CONSTANTS
    MaxPages,   \* a file has at most this many pages
    MaxSequence,\* the largest owner sequence
    Data,       \* what a page can hold
    Unwritten,  \* a page the file grew over and nobody wrote yet
    Torn,       \* the file while a wipe is under way
    NoTxn       \* no transaction is open

(* A database file is the sequence of its pages. *)
Files == UNION {[1..n -> Data] : n \in 0..MaxPages}

(* The file of an open transaction may have holes. *)
WorkingFiles == UNION {[1..n -> Data \cup {Unwritten}] : n \in 0..MaxPages}

VARIABLES
    committed,  \* the file every reader sees, or Torn
    sequence,   \* the last owner sequence a transaction consumed
    txn         \* NoTxn, or the file and the sequence of the open transaction

vars == <<committed, sequence, txn>>

PagesOf(file) == DOMAIN file

Init ==
    /\ committed \in Files
    /\ sequence \in 0..MaxSequence
    /\ txn = NoTxn

(* A transaction starts from the committed file.  One that carries an owner
   sequence (s > 0) starts only if the sequence was not consumed yet. *)
Begin(s) ==
    /\ txn = NoTxn
    /\ committed # Torn
    /\ s = 0 \/ s > sequence
    /\ txn' = [file |-> committed, seq |-> s]
    /\ UNCHANGED <<committed, sequence>>

(* Writing past the end grows the file; the pages in between are unwritten. *)
Write(p, d) ==
    /\ txn # NoTxn
    /\ txn' = [txn EXCEPT !.file =
                 [q \in 1..p \cup PagesOf(@) |->
                    CASE q = p -> d
                      [] q # p /\ q \in PagesOf(@) -> @[q]
                      [] OTHER -> Unwritten]]
    /\ UNCHANGED <<committed, sequence>>

Truncate(n) ==
    /\ txn # NoTxn
    /\ n \in 0..MaxPages
    /\ 1..n \subseteq PagesOf(txn.file)
    /\ txn' = [txn EXCEPT !.file = [q \in 1..n |-> @[q]]]
    /\ UNCHANGED <<committed, sequence>>

(* The one step that changes what readers see: the whole working file and
   the sequence, at once. *)
Commit ==
    /\ txn # NoTxn
    /\ txn.file \in Files
    /\ committed' = txn.file
    /\ sequence' = IF txn.seq = 0 THEN sequence ELSE txn.seq
    /\ txn' = NoTxn

(* A failed or interrupted transaction leaves no trace. *)
Abort ==
    /\ txn # NoTxn
    /\ txn' = NoTxn
    /\ UNCHANGED <<committed, sequence>>

(* Wiping is not a transaction: it may be interrupted, and while it is under
   way the file promises nothing. *)
Wipe ==
    /\ txn = NoTxn
    /\ committed' = Torn
    /\ UNCHANGED <<sequence, txn>>

FinishWipe ==
    /\ txn = NoTxn
    /\ committed' = << >>
    /\ sequence' = 0
    /\ UNCHANGED txn

Next ==
    \/ \E s \in 0..MaxSequence : Begin(s)
    \/ \E p \in 1..MaxPages, d \in Data : Write(p, d)
    \/ \E n \in 0..MaxPages : Truncate(n)
    \/ Commit
    \/ Abort
    \/ Wipe
    \/ FinishWipe

Spec == Init /\ [][Next]_vars
=============================================================================
