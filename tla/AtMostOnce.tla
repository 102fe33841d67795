----------------------------- MODULE AtMostOnce ------------------------------
(***************************************************************************)
(* What execute promises about the writes it is asked for: each takes      *)
(* effect at most once, "ok" is told of a write that took effect, and,     *)
(* where a failure is final, "failed" of one that did not and never will.  *)
(* It says nothing of nonces, sequences, polls, receipts and lost answers; *)
(* OwnerWrite implements it.                                               *)
(***************************************************************************)
EXTENDS Naturals, Sequences

CONSTANTS
    Requests,
    FailureIsFinal   \* whether a request that was told to fail has no effect

VARIABLES
    told,            \* what the caller knows of each request
    committed        \* the requests that took effect, in order

vars == <<told, committed>>

Init ==
    /\ told = [r \in Requests |-> "open"]
    /\ committed = << >>

Committed(r) == \E i \in 1..Len(committed) : committed[i] = r

(* A request may take effect before its caller is told, and after a caller
   who was told nothing has given up. *)
Commit(r) ==
    /\ ~Committed(r)
    /\ FailureIsFinal => told[r] # "failed"
    /\ committed' = Append(committed, r)
    /\ UNCHANGED told

(* The caller is told once. *)
Tell(r, answer) ==
    /\ told[r] = "open"
    /\ answer = "ok" => Committed(r)
    /\ answer = "failed" /\ FailureIsFinal => ~Committed(r)
    /\ told' = [told EXCEPT ![r] = answer]
    /\ UNCHANGED committed

Next == \E r \in Requests : Commit(r) \/ \E answer \in {"ok", "failed"} : Tell(r, answer)

Spec == Init /\ [][Next]_vars
=============================================================================
