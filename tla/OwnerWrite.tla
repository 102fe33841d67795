----------------------------- MODULE OwnerWrite ------------------------------
(***************************************************************************)
(* Owner writes from the client to the Circle.  Several calls of execute   *)
(* (write.rs, rpc.rs, database.rs) share one wallet.  Each reads the next  *)
(* account nonce, signs it as the nonce of the transaction and as the      *)
(* sequence of the OSW1 intent, submits, polls for the receipt, and at     *)
(* last asks once what became of the transaction.  Answers get lost, the   *)
(* chain applies staged transactions some time later or drops them, and    *)
(* the Circle accepts an intent whose sequence is above the last one.      *)
(*                                                                         *)
(* A writer is one call of execute and the one transaction it signs, so a  *)
(* transaction, its SQL and its hash are named by the writer.              *)
(***************************************************************************)
EXTENDS Integers, Sequences

CONSTANTS
    Writers,
    MaxNonce,        \* bound on account nonces
    MaxPolls,        \* receipt polls of one wait (45)
    ChainMay,        \* what the chain may do besides its work: "drop" a
                     \* staged transaction, "reorder" nonces, "replay" an
                     \* intent it has run already
    HostRollsBack    \* whether a call that traps leaves no trace

ASSUME WriteAssumption ==
    /\ {MaxNonce, MaxPolls} \subseteq Nat \ {0}
    /\ ChainMay \subseteq {"drop", "reorder", "replay"}
    /\ HostRollsBack \in BOOLEAN

VARIABLES
    \* the calls
    pc,
    nonce,           \* nonce and sequence that were signed, 0 before
    polls,           \* receipt polls made by the present wait
    pollError,       \* the last poll met an RPC error other than "not found"
    result,          \* what the call has told its caller
    \* the chain
    account,         \* nonce of the wallet: the highest one that was used
    status,          \* of the transaction of each writer
    receipt,
    \* the Circle
    ownerSequence,   \* current_owner_sequence
    applied          \* history: the writers whose SQL was committed, in order

calls == <<pc, nonce, polls, pollError, result>>
chain == <<account, status, receipt>>
circle == <<ownerSequence, applied>>
vars == <<calls, chain, circle>>

Steps == {"start", "prepared", "polling", "lookup", "done"}
Results == {"none", "ok", "submitted", "sql_failed", "transaction_failed",
            "receipt_pending", "wait_error", "not_sent", "submit_error"}
Statuses == {"unknown", "staged", "confirmed", "rejected", "dropped"}
Receipts == {"none", "success", "errorEvent", "failure"}

TypeOK ==
    /\ pc \in [Writers -> Steps]
    /\ nonce \in [Writers -> 0..MaxNonce]
    /\ polls \in [Writers -> 0..MaxPolls]
    /\ pollError \in [Writers -> BOOLEAN]
    /\ result \in [Writers -> Results]
    /\ account \in 0..MaxNonce
    /\ status \in [Writers -> Statuses]
    /\ receipt \in [Writers -> Receipts]
    /\ ownerSequence \in 0..MaxNonce
    /\ applied \in Seq(Writers)

Init ==
    /\ pc = [w \in Writers |-> "start"]
    /\ nonce = [w \in Writers |-> 0]
    /\ polls = [w \in Writers |-> 0]
    /\ pollError = [w \in Writers |-> FALSE]
    /\ result = [w \in Writers |-> "none"]
    /\ account = 0
    /\ status = [w \in Writers |-> "unknown"]
    /\ receipt = [w \in Writers |-> "none"]
    /\ ownerSequence = 0
    /\ applied = << >>

WasApplied(w) == \E i \in 1..Len(applied) : applied[i] = w

-----------------------------------------------------------------------------
(* The call                                                                *)

End(w, r) ==
    /\ pc' = [pc EXCEPT ![w] = "done"]
    /\ result' = [result EXCEPT ![w] = r]

(* What octra_balance may answer: the nonce of the wallet, or one that
   counts staged transactions too (pending_nonce). *)
KnownNonces == {account} \cup {nonce[v] : v \in {u \in Writers : status[u] = "staged"}}

(* prepare_write and sign_write: the nonce becomes the sequence. *)
Prepare(w) ==
    /\ pc[w] = "start"
    /\ \E n \in KnownNonces :
          /\ n < MaxNonce
          /\ nonce' = [nonce EXCEPT ![w] = n + 1]
    /\ pc' = [pc EXCEPT ![w] = "prepared"]
    /\ UNCHANGED <<polls, pollError, result, chain, circle>>

(* The nonce or the authorization could not be read. *)
PrepareFails(w) ==
    /\ pc[w] = "start"
    /\ End(w, "not_sent")
    /\ UNCHANGED <<nonce, polls, pollError, chain, circle>>

(* The node keeps a transaction whose nonce was not used yet. *)
Stageable(w) == status[w] \in {"unknown", "dropped"} /\ nonce[w] > account

(* octra_submit is answered with the hash; with no_wait that ends the call. *)
Submit(w) ==
    /\ pc[w] = "prepared"
    /\ Stageable(w) \/ status[w] = "staged"
    /\ status' = [status EXCEPT ![w] = "staged"]
    /\ \/ /\ pc' = [pc EXCEPT ![w] = "polling"]
          /\ UNCHANGED result
       \/ End(w, "submitted")
    /\ UNCHANGED <<nonce, polls, pollError, account, receipt, circle>>

(* An error instead of the hash: the node has refused the transaction, or
   the request or the answer got lost.  octra_submit is not retried. *)
SubmitFails(w) ==
    /\ pc[w] = "prepared"
    /\ \/ UNCHANGED status
       \/ Stageable(w) /\ status' = [status EXCEPT ![w] = "staged"]
    /\ End(w, "submit_error")
    /\ UNCHANGED <<nonce, polls, pollError, account, receipt, circle>>

(* The caller has kept the signed write and submits it once more. *)
SubmitAgain(w) ==
    /\ pc[w] = "done"
    /\ result[w] \in {"submit_error", "wait_error"}
    /\ pc' = [pc EXCEPT ![w] = "prepared"]
    /\ result' = [result EXCEPT ![w] = "none"]
    /\ polls' = [polls EXCEPT ![w] = 0]
    /\ pollError' = [pollError EXCEPT ![w] = FALSE]
    /\ UNCHANGED <<nonce, chain, circle>>

(* Database::wait and the receipt command: wait again, by the hash. *)
Follow(w) ==
    /\ pc[w] = "done"
    /\ result[w] \in {"submitted", "receipt_pending", "wait_error"}
    /\ pc' = [pc EXCEPT ![w] = "polling"]
    /\ result' = [result EXCEPT ![w] = "none"]
    /\ polls' = [polls EXCEPT ![w] = 0]
    /\ pollError' = [pollError EXCEPT ![w] = FALSE]
    /\ UNCHANGED <<nonce, chain, circle>>

(* Mutant: the success flag of the receipt is all that counts. *)
ReceiptSucceedsByFlag(w) == receipt[w] \in {"success", "errorEvent"}

(* ensure_receipt_success: the flag is set and there is no error event. *)
ReceiptSucceeds(w) == receipt[w] = "success"

ReceiptFound(w) ==
    /\ pc[w] = "polling"
    /\ receipt[w] # "none"
    /\ End(w, IF ReceiptSucceeds(w) THEN "ok" ELSE "sql_failed")
    /\ UNCHANGED <<nonce, polls, pollError, chain, circle>>

(* Mutant: a poll that met an error starts the count again. *)
PollAnew(w, error) ==
    /\ pc[w] = "polling"
    /\ polls' = [polls EXCEPT ![w] = IF error THEN 0 ELSE @ + 1]
    /\ pollError' = [pollError EXCEPT ![w] = error]
    /\ pc' = IF polls'[w] = MaxPolls THEN [pc EXCEPT ![w] = "lookup"] ELSE pc
    /\ UNCHANGED <<nonce, result, chain, circle>>

(* Mutant: the last poll is not seen to be the last. *)
PollPastLast(w, error) ==
    /\ pc[w] = "polling"
    /\ polls' = [polls EXCEPT ![w] = @ + 1]
    /\ pollError' = [pollError EXCEPT ![w] = error]
    /\ pc' = IF polls'[w] > MaxPolls THEN [pc EXCEPT ![w] = "lookup"] ELSE pc
    /\ UNCHANGED <<nonce, result, chain, circle>>

(* A poll without a receipt: none yet, the node lags behind, or an error. *)
Poll(w, error) ==
    /\ pc[w] = "polling"
    /\ polls' = [polls EXCEPT ![w] = @ + 1]
    /\ pollError' = [pollError EXCEPT ![w] = error]
    /\ pc' = IF polls'[w] = MaxPolls THEN [pc EXCEPT ![w] = "lookup"] ELSE pc
    /\ UNCHANGED <<nonce, result, chain, circle>>

(* Mutant: a transaction the node does not know counts as dropped. *)
TerminalOrUnknown == {"rejected", "failed", "dropped", "unknown"}

(* terminal_transaction_error *)
Terminal == {"rejected", "failed", "dropped"}

(* What octra_transaction may tell: the status, also of an executed
   transaction whose receipt the polls have missed, or nothing. *)
Told(w) ==
    {status[w], "unknown"} \cup {"failed" : f \in {receipt[w]} \cap {"failure"}}

(* The one look at octra_transaction after the polls; it may fail, too. *)
Lookup(w) ==
    /\ pc[w] = "lookup"
    /\ \/ \E s \in Told(w) :
             End(w, IF s \in Terminal THEN "transaction_failed"
                    ELSE IF pollError[w] THEN "wait_error" ELSE "receipt_pending")
       \/ End(w, "wait_error")
    /\ UNCHANGED <<nonce, polls, pollError, chain, circle>>

-----------------------------------------------------------------------------
(* The Circle: octra_update exec                                           *)

(* Mutant: the last sequence is accepted again. *)
AcceptableAgain(w) == nonce[w] >= ownerSequence

(* verify_signed_exec_params *)
Acceptable(w) == nonce[w] > ownerSequence

Commit(w) ==
    /\ Acceptable(w)
    /\ ownerSequence' = nonce[w]
    /\ applied' = Append(applied, w)

(* How a call can go, and the receipt that tells of it.  An SQL error is
   reported by an event of a successful call; a replay, a refused flush or
   spent fuel by the call's failure.  Fuel may be spent after the commit,
   while garbage is collected. *)
Exec(w, r) ==
    \/ r = "success" /\ Commit(w)
    \/ r = "errorEvent" /\ Acceptable(w) /\ UNCHANGED circle
    \/ r = "failure" /\ UNCHANGED circle
    \/ r = "failure" /\ ~HostRollsBack /\ Commit(w)

-----------------------------------------------------------------------------
(* The chain                                                               *)

NextInLine(w) ==
    IF "reorder" \in ChainMay THEN nonce[w] > account ELSE nonce[w] = account + 1

Execute(w) ==
    /\ status[w] = "staged"
    /\ NextInLine(w)
    /\ \E r \in Receipts \ {"none"} :
          /\ Exec(w, r)
          /\ receipt' = [receipt EXCEPT ![w] = r]
    /\ status' = [status EXCEPT ![w] = "confirmed"]
    /\ account' = nonce[w]
    /\ UNCHANGED calls

(* An intent that has run arrives at the Circle once more. *)
ExecuteAgain(w) ==
    /\ "replay" \in ChainMay
    /\ status[w] = "confirmed"
    /\ \E r \in Receipts \ {"none"} : Exec(w, r)
    /\ UNCHANGED <<calls, chain>>

(* The nonce of a staged transaction was used by another one. *)
Reject(w) ==
    /\ status[w] = "staged"
    /\ nonce[w] <= account
    /\ status' = [status EXCEPT ![w] = "rejected"]
    /\ UNCHANGED <<calls, account, receipt, circle>>

Drop(w) ==
    /\ "drop" \in ChainMay
    /\ status[w] = "staged"
    /\ status' = [status EXCEPT ![w] = "dropped"]
    /\ UNCHANGED <<calls, account, receipt, circle>>

-----------------------------------------------------------------------------
CallStep(w) ==
    \/ Prepare(w) \/ PrepareFails(w)
    \/ Submit(w) \/ SubmitFails(w)
    \/ ReceiptFound(w)
    \/ \E error \in BOOLEAN : Poll(w, error)
    \/ Lookup(w)

CallerStep(w) == SubmitAgain(w) \/ Follow(w)

ChainStep(w) == Execute(w) \/ ExecuteAgain(w) \/ Reject(w) \/ Drop(w)

Next == \E w \in Writers : CallStep(w) \/ CallerStep(w) \/ ChainStep(w)

Spec == Init /\ [][Next]_vars

(* The client process runs and every request gets an answer or an error. *)
FairSpec == Spec /\ \A w \in Writers : WF_vars(CallStep(w))

-----------------------------------------------------------------------------
(* No intent takes effect twice and no two intents with one sequence both  *)
(* do, however often a signed write is submitted or run: the sequences     *)
(* that were applied increase.                                             *)
AppliedOnce ==
    \A i, j \in 1..Len(applied) : i < j => nonce[applied[i]] < nonce[applied[j]]

(* A call that returns Ok has committed its SQL, also when another call    *)
(* has signed the same nonce.                                              *)
OkIsApplied == \A w \in Writers : result[w] = "ok" => WasApplied(w)

(* A call that reports a failed execution or a failed transaction has not  *)
(* committed its SQL, and it never will be: the caller may send it again.  *)
(* Needs a chain that runs a transaction once and undoes a trapped call.   *)
FailedIsNotApplied ==
    \A w \in Writers :
        result[w] \in {"sql_failed", "transaction_failed", "not_sent"} => ~WasApplied(w)

(* What the caller knows for good: the other results may be asked about    *)
(* again, or the write submitted again.                                    *)
AnswerTo(w) ==
    CASE result[w] = "ok" -> "ok"
      [] result[w] \in {"sql_failed", "transaction_failed", "not_sent"} -> "failed"
      [] OTHER -> "open"

(* A chain that runs a transaction once, a host that undoes a trapped call. *)
RunOnce == HostRollsBack /\ "replay" \notin ChainMay

Promise == INSTANCE AtMostOnce WITH
    Requests <- Writers,
    FailureIsFinal <- RunOnce,
    told <- [w \in Writers |-> AnswerTo(w)],
    committed <- applied

(* Every behaviour of the calls, the chain and the Circle is one of the    *)
(* at-most-once specification: whatever was sent, lost, polled or sent     *)
(* again, a signed write takes effect at most once, what a caller was told *)
(* for good is true and stays so.                                          *)
ImplementsAtMostOnce == Promise!Spec

(* Every call returns, whatever the node answers.                          *)
CallsReturn == \A w \in Writers : (pc[w] # "done") ~> (pc[w] = "done")
-----------------------------------------------------------------------------
(* The inductive invariant                                                 *)

(* A wait has polls left as long as it polls. *)
PollsLeft ==
    \A w \in Writers :
        /\ pc[w] \in {"start", "prepared"} => polls[w] = 0
        /\ pc[w] = "polling" => polls[w] < MaxPolls

(* Nothing is known of a transaction before it is signed. *)
SignedFirst ==
    \A w \in Writers :
        /\ nonce[w] = 0 <=> pc[w] = "start" \/ result[w] = "not_sent"
        /\ nonce[w] = 0 => status[w] = "unknown"

ResultAtEnd == \A w \in Writers : result[w] # "none" => pc[w] = "done"

(* ownerSequence is the watermark of what was applied. *)
BelowWatermark ==
    \A i \in 1..Len(applied) :
        0 < nonce[applied[i]] /\ nonce[applied[i]] <= ownerSequence

(* Receipts are those of executed transactions, and results those of receipts. *)
ResultsFromReceipts ==
    \A w \in Writers :
        /\ receipt[w] # "none" <=> status[w] = "confirmed"
        /\ receipt[w] = "success" => WasApplied(w)
        /\ result[w] = "ok" => receipt[w] = "success"
        /\ result[w] = "sql_failed" => receipt[w] \in {"errorEvent", "failure"}
        /\ result[w] = "transaction_failed" =>
              status[w] \in {"rejected", "dropped"} \/ receipt[w] = "failure"

(* Under RunOnce only a success receipt stands for applied SQL. *)
AppliedHasReceipt == RunOnce => \A w \in Writers : WasApplied(w) => receipt[w] = "success"

WriteInv ==
    /\ TypeOK
    /\ PollsLeft
    /\ SignedFirst
    /\ ResultAtEnd
    /\ BelowWatermark
    /\ AppliedOnce
    /\ ResultsFromReceipts
    /\ AppliedHasReceipt

=============================================================================
