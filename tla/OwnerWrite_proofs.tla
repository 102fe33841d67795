------------------------- MODULE OwnerWrite_proofs --------------------------
(***************************************************************************)
(* Proofs about owner writes, for any number of concurrent calls, nonces   *)
(* and polls.  WriteInv is inductive: one lemma per action shows that it   *)
(* keeps it, and the three safety properties follow from it.               *)
(***************************************************************************)
EXTENDS OwnerWrite, TLAPS

LEMMA InitialWriteInv == Init => WriteInv
    BY WriteAssumption DEF Init, WriteInv, TypeOK, Steps, Results, Statuses, Receipts,
       PollsLeft, SignedFirst, ResultAtEnd, BelowWatermark, AppliedOnce,
       ResultsFromReceipts, AppliedHasReceipt, WasApplied

(* Steps of a call leave the chain and the Circle alone; what they owe is  *)
(* the part of the invariant about the call that moves.                    *)
LEMMA CallStepKeeps ==
    ASSUME WriteInv, NEW w \in Writers, UNCHANGED <<account, receipt, circle>>,
           TypeOK', PollsLeft', SignedFirst', ResultAtEnd',
           \A v \in Writers : nonce[v] > 0 => nonce'[v] = nonce[v],
           \A v \in Writers : v # w => status'[v] = status[v] /\ result'[v] = result[v],
           status'[w] = "confirmed" <=> status[w] = "confirmed",
           result'[w] = "ok" => receipt[w] = "success",
           result'[w] = "sql_failed" => receipt[w] \in {"errorEvent", "failure"},
           result'[w] = "transaction_failed" =>
              status'[w] \in {"rejected", "dropped"} \/ receipt[w] = "failure"
    PROVE  WriteInv'
<1> USE DEF circle
<1>1. \A i \in 1..Len(applied) : nonce'[applied[i]] = nonce[applied[i]]
    <2> SUFFICES ASSUME NEW i \in 1..Len(applied)
                 PROVE  nonce'[applied[i]] = nonce[applied[i]]
        OBVIOUS
    <2>1. applied[i] \in Writers
        BY DEF WriteInv, TypeOK
    <2>2. nonce[applied[i]] > 0
        BY <2>1 DEF WriteInv, TypeOK, BelowWatermark
    <2> QED
        BY <2>1, <2>2
<1>2. BelowWatermark' /\ AppliedOnce'
    BY <1>1 DEF WriteInv, TypeOK, BelowWatermark, AppliedOnce
<1>3. ResultsFromReceipts'
    BY DEF WriteInv, ResultsFromReceipts, WasApplied
<1>4. AppliedHasReceipt'
    BY DEF WriteInv, AppliedHasReceipt, WasApplied
<1> QED
    BY <1>2, <1>3, <1>4 DEF WriteInv

LEMMA PrepareKeeps ==
    ASSUME WriteInv, NEW w \in Writers, Prepare(w)
    PROVE  WriteInv'
<1> USE DEF Prepare, chain, WriteInv
<1>1. TypeOK'
    <2>1. KnownNonces \subseteq 0..MaxNonce
        BY DEF KnownNonces, TypeOK
    <2> QED
        BY <2>1, WriteAssumption DEF TypeOK, circle, Steps
<1>2. \A v \in Writers : nonce[v] > 0 => nonce'[v] = nonce[v]
    BY DEF TypeOK, SignedFirst
<1>3. SignedFirst'
    <2>1. KnownNonces \subseteq 0..MaxNonce
        BY DEF KnownNonces, TypeOK
    <2>2. nonce'[w] > 0
        BY <2>1, WriteAssumption DEF TypeOK
    <2>3. \A v \in Writers : v # w => nonce'[v] = nonce[v] /\ pc'[v] = pc[v]
        BY DEF TypeOK
    <2>4. pc'[w] = "prepared" /\ result'[w] = "none" /\ UNCHANGED <<status, result>>
        BY DEF TypeOK, ResultAtEnd
    <2>5. ~(pc'[w] = "start" \/ result'[w] = "not_sent") /\ nonce'[w] # 0
        BY <2>2, <2>4
    <2> QED
        BY <2>3, <2>4, <2>5 DEF SignedFirst
<1>4. PollsLeft' /\ ResultAtEnd'
    BY DEF TypeOK, PollsLeft, ResultAtEnd
<1> QED
    BY <1>1, <1>2, <1>3, <1>4, CallStepKeeps DEF ResultsFromReceipts, SignedFirst

LEMMA PrepareFailsKeeps ==
    ASSUME WriteInv, NEW w \in Writers, PrepareFails(w)
    PROVE  WriteInv'
<1> USE DEF PrepareFails, End, chain, WriteInv
<1>1. TypeOK' /\ PollsLeft' /\ SignedFirst' /\ ResultAtEnd'
    BY DEF TypeOK, circle, Steps, Results, PollsLeft, SignedFirst, ResultAtEnd
<1> QED
    BY <1>1, CallStepKeeps DEF ResultsFromReceipts, TypeOK

LEMMA SubmitKeeps ==
    ASSUME WriteInv, NEW w \in Writers, Submit(w)
    PROVE  WriteInv'
<1> USE DEF Submit, End, WriteInv
<1>1. TypeOK'
    BY DEF TypeOK, circle, Steps, Results, Statuses
<1>2. PollsLeft' /\ ResultAtEnd'
    BY WriteAssumption DEF TypeOK, PollsLeft, ResultAtEnd
<1>3. SignedFirst'
    BY DEF TypeOK, SignedFirst, ResultAtEnd
<1> QED
    BY <1>1, <1>2, <1>3, CallStepKeeps DEF ResultsFromReceipts, TypeOK, Stageable, ResultAtEnd

LEMMA SubmitFailsKeeps ==
    ASSUME WriteInv, NEW w \in Writers, SubmitFails(w)
    PROVE  WriteInv'
<1> USE DEF SubmitFails, End, WriteInv
<1>1. TypeOK'
    BY DEF TypeOK, circle, Steps, Results, Statuses
<1>2. PollsLeft' /\ ResultAtEnd' /\ SignedFirst'
    BY DEF TypeOK, PollsLeft, ResultAtEnd, SignedFirst, Stageable
<1>3. status'[w] = "confirmed" <=> status[w] = "confirmed"
    BY DEF TypeOK, Stageable
<1>4. \A v \in Writers : v # w => status'[v] = status[v] /\ result'[v] = result[v]
    BY DEF TypeOK
<1>5. result'[w] = "submit_error"
    BY DEF TypeOK
<1> QED
    BY <1>1, <1>2, <1>3, <1>4, <1>5, CallStepKeeps

LEMMA CallerStepKeeps ==
    ASSUME WriteInv, NEW w \in Writers, SubmitAgain(w) \/ Follow(w)
    PROVE  WriteInv'
<1> USE DEF chain, WriteInv
<1>1. PICK to \in {"prepared", "polling"} :
          /\ result[w] \in {"submit_error", "wait_error", "submitted", "receipt_pending"}
          /\ pc[w] = "done"
          /\ pc' = [pc EXCEPT ![w] = to]
          /\ result' = [result EXCEPT ![w] = "none"]
          /\ polls' = [polls EXCEPT ![w] = 0]
          /\ pollError' = [pollError EXCEPT ![w] = FALSE]
          /\ UNCHANGED <<nonce, chain, circle>>
    BY DEF SubmitAgain, Follow
<1>2. TypeOK'
    BY <1>1, WriteAssumption DEF TypeOK, circle, Steps, Results
<1>3. PollsLeft'
    BY <1>1, WriteAssumption DEF TypeOK, PollsLeft
<1>4. ResultAtEnd' /\ SignedFirst'
    BY <1>1 DEF TypeOK, ResultAtEnd, SignedFirst
<1> QED
    BY <1>1, <1>2, <1>3, <1>4, CallStepKeeps DEF ResultsFromReceipts, TypeOK

LEMMA ReceiptFoundKeeps ==
    ASSUME WriteInv, NEW w \in Writers, ReceiptFound(w)
    PROVE  WriteInv'
<1> USE DEF ReceiptFound, End, chain, WriteInv
<1>1. TypeOK'
    BY DEF TypeOK, circle, Steps, Results
<1>2. PollsLeft' /\ ResultAtEnd' /\ SignedFirst'
    BY DEF TypeOK, PollsLeft, ResultAtEnd, SignedFirst
<1> QED
    BY <1>1, <1>2, CallStepKeeps DEF ResultsFromReceipts, TypeOK, ReceiptSucceeds, Receipts

LEMMA PollKeeps ==
    ASSUME WriteInv, NEW w \in Writers, NEW error \in BOOLEAN, Poll(w, error)
    PROVE  WriteInv'
<1> USE DEF Poll, chain, WriteInv
<1>1. polls[w] < MaxPolls /\ polls[w] \in 0..MaxPolls /\ polls'[w] = polls[w] + 1
    BY DEF PollsLeft, TypeOK
<1>2. TypeOK'
    BY <1>1, WriteAssumption DEF TypeOK, circle, Steps
<1>3. PollsLeft'
    BY <1>1, WriteAssumption DEF TypeOK, PollsLeft
<1>4. ResultAtEnd' /\ SignedFirst'
    BY DEF TypeOK, ResultAtEnd, SignedFirst
<1> QED
    BY <1>2, <1>3, <1>4, CallStepKeeps DEF ResultsFromReceipts, TypeOK

LEMMA LookupKeeps ==
    ASSUME WriteInv, NEW w \in Writers, Lookup(w)
    PROVE  WriteInv'
<1> USE DEF chain, WriteInv
<1>1. PICK r \in {"transaction_failed", "wait_error", "receipt_pending"} :
          /\ pc[w] = "lookup"
          /\ End(w, r)
          /\ r = "transaction_failed" =>
                status[w] \in {"rejected", "dropped"} \/ receipt[w] = "failure"
          /\ UNCHANGED <<nonce, polls, pollError, chain, circle>>
    BY DEF Lookup, Terminal, Told, TypeOK, Statuses
<1> USE <1>1 DEF End
<1>2. TypeOK'
    BY DEF TypeOK, circle, Steps, Results
<1>3. PollsLeft' /\ ResultAtEnd' /\ SignedFirst'
    BY DEF TypeOK, PollsLeft, ResultAtEnd, SignedFirst
<1> QED
    BY <1>2, <1>3, CallStepKeeps DEF ResultsFromReceipts, TypeOK
-----------------------------------------------------------------------------
(* A commit keeps the applied sequences increasing below the watermark.    *)
LEMMA CommitKeeps ==
    ASSUME WriteInv, NEW w \in Writers, Commit(w), UNCHANGED nonce
    PROVE  /\ applied' \in Seq(Writers) /\ ownerSequence' \in 0..MaxNonce
           /\ BelowWatermark' /\ AppliedOnce'
           /\ \A v \in Writers : WasApplied(v)' <=> WasApplied(v) \/ v = w
<1> USE DEF Commit, Acceptable, WriteInv, TypeOK
<1>1. /\ applied' \in Seq(Writers) /\ Len(applied') = Len(applied) + 1
      /\ \A i \in 1..Len(applied) : applied'[i] = applied[i]
      /\ applied'[Len(applied) + 1] = w
    OBVIOUS
<1>2. ownerSequence' \in 0..MaxNonce /\ ownerSequence' = nonce[w]
      /\ 0 < nonce[w] /\ ownerSequence < nonce[w]
    OBVIOUS
<1>3. \A i \in 1..Len(applied) :
          /\ applied[i] \in Writers
          /\ 0 < nonce[applied[i]] /\ nonce[applied[i]] < nonce[w]
    BY <1>2 DEF BelowWatermark
<1>4. BelowWatermark'
    <2> SUFFICES ASSUME NEW i \in 1..Len(applied')
                 PROVE  0 < nonce'[applied'[i]] /\ nonce'[applied'[i]] <= ownerSequence'
        BY DEF BelowWatermark
    <2>1. CASE i \in 1..Len(applied)
        BY <2>1, <1>1, <1>2, <1>3
    <2>2. CASE i = Len(applied) + 1
        BY <2>2, <1>1, <1>2
    <2> QED
        BY <2>1, <2>2, <1>1
<1>5. AppliedOnce'
    <2> SUFFICES ASSUME NEW i \in 1..Len(applied'), NEW j \in 1..Len(applied'), i < j
                 PROVE  nonce'[applied'[i]] < nonce'[applied'[j]]
        BY DEF AppliedOnce
    <2>1. i \in 1..Len(applied)
        BY <1>1
    <2>2. CASE j \in 1..Len(applied)
        BY <2>1, <2>2, <1>1 DEF AppliedOnce
    <2>3. CASE j = Len(applied) + 1
        <3>1. nonce'[applied'[i]] = nonce[applied[i]] /\ nonce'[applied'[j]] = nonce[w]
            BY <2>1, <2>3, <1>1
        <3> QED
            BY <2>1, <3>1, <1>3
    <2>4. j \in 1..Len(applied) \/ j = Len(applied) + 1
        BY <1>1
    <2> QED
        BY <2>2, <2>3, <2>4
<1>6. \A v \in Writers : WasApplied(v)' <=> WasApplied(v) \/ v = w
    BY <1>1 DEF WasApplied
<1> QED
    BY <1>1, <1>2, <1>4, <1>5, <1>6

(* A run leaves the Circle alone or commits, and commits if it reports so. *)
LEMMA ExecKeeps ==
    ASSUME WriteInv, NEW w \in Writers, NEW r \in Receipts \ {"none"},
           Exec(w, r), UNCHANGED nonce
    PROVE  /\ applied' \in Seq(Writers) /\ ownerSequence' \in 0..MaxNonce
           /\ BelowWatermark' /\ AppliedOnce'
           /\ \A v \in Writers : WasApplied(v) => WasApplied(v)'
           /\ r = "success" => WasApplied(w)'
           /\ HostRollsBack =>
                 \A v \in Writers : WasApplied(v)' => WasApplied(v) \/ (v = w /\ r = "success")
<1>1. CASE UNCHANGED circle /\ r # "success"
    BY <1>1 DEF circle, WriteInv, TypeOK, BelowWatermark, AppliedOnce, WasApplied
<1>2. CASE Commit(w) /\ (HostRollsBack => r = "success")
    BY <1>2, CommitKeeps
<1> QED
    BY <1>1, <1>2 DEF Exec

LEMMA ExecuteKeeps ==
    ASSUME WriteInv, NEW w \in Writers, Execute(w)
    PROVE  WriteInv'
<1> USE DEF WriteInv
<1>1. PICK r \in Receipts \ {"none"} :
          Exec(w, r) /\ receipt' = [receipt EXCEPT ![w] = r]
    BY DEF Execute
<1> USE <1>1 DEF Execute, calls
<1>2. TypeOK'
    BY ExecKeeps DEF TypeOK, Statuses
<1>3. PollsLeft' /\ SignedFirst' /\ ResultAtEnd'
    BY DEF TypeOK, PollsLeft, SignedFirst, ResultAtEnd
<1>4. BelowWatermark' /\ AppliedOnce'
    BY ExecKeeps
<1>5. receipt[w] = "none" /\ result[w] \notin {"ok", "sql_failed", "transaction_failed"}
    BY DEF ResultsFromReceipts, TypeOK, Receipts
<1>6. ResultsFromReceipts'
    <2> SUFFICES ASSUME NEW v \in Writers
                 PROVE  /\ receipt'[v] # "none" <=> status'[v] = "confirmed"
                        /\ receipt'[v] = "success" => WasApplied(v)'
                        /\ result'[v] = "ok" => receipt'[v] = "success"
                        /\ result'[v] = "sql_failed" => receipt'[v] \in {"errorEvent", "failure"}
                        /\ result'[v] = "transaction_failed" =>
                              status'[v] \in {"rejected", "dropped"} \/ receipt'[v] = "failure"
        BY DEF ResultsFromReceipts
    <2>1. CASE v = w
        BY <2>1, <1>5, ExecKeeps DEF TypeOK
    <2>2. CASE v # w
        BY <2>2, ExecKeeps DEF ResultsFromReceipts, TypeOK
    <2> QED
        BY <2>1, <2>2
<1>7. AppliedHasReceipt'
    BY <1>5, ExecKeeps DEF AppliedHasReceipt, RunOnce, TypeOK
<1> QED
    BY <1>2, <1>3, <1>4, <1>6, <1>7

LEMMA ExecuteAgainKeeps ==
    ASSUME WriteInv, NEW w \in Writers, ExecuteAgain(w)
    PROVE  WriteInv'
<1> USE DEF WriteInv
<1>1. PICK r \in Receipts \ {"none"} : Exec(w, r)
    BY DEF ExecuteAgain
<1> USE <1>1 DEF ExecuteAgain, calls, chain
<1>2. TypeOK' /\ PollsLeft' /\ SignedFirst' /\ ResultAtEnd'
    BY ExecKeeps DEF TypeOK, PollsLeft, SignedFirst, ResultAtEnd
<1>3. BelowWatermark' /\ AppliedOnce'
    BY ExecKeeps
<1>4. ResultsFromReceipts'
    BY ExecKeeps DEF ResultsFromReceipts
<1>5. AppliedHasReceipt'
    BY DEF AppliedHasReceipt, RunOnce
<1> QED
    BY <1>2, <1>3, <1>4, <1>5

LEMMA RejectOrDropKeeps ==
    ASSUME WriteInv, NEW w \in Writers, Reject(w) \/ Drop(w)
    PROVE  WriteInv'
<1> USE DEF WriteInv
<1>1. PICK s \in {"rejected", "dropped"} :
          /\ status[w] = "staged"
          /\ status' = [status EXCEPT ![w] = s]
          /\ UNCHANGED <<calls, account, receipt, circle>>
    BY DEF Reject, Drop
<1> USE <1>1 DEF calls, circle
<1>2. TypeOK' /\ PollsLeft' /\ SignedFirst' /\ ResultAtEnd'
    BY DEF TypeOK, Statuses, PollsLeft, SignedFirst, ResultAtEnd
<1>3. BelowWatermark' /\ AppliedOnce'
    BY DEF BelowWatermark, AppliedOnce
<1>4. ResultsFromReceipts'
    BY DEF ResultsFromReceipts, TypeOK, WasApplied
<1>5. AppliedHasReceipt'
    BY DEF AppliedHasReceipt, WasApplied
<1> QED
    BY <1>2, <1>3, <1>4, <1>5

LEMMA StepKeepsWriteInv == WriteInv /\ [Next]_vars => WriteInv'
<1> SUFFICES ASSUME WriteInv, [Next]_vars PROVE WriteInv'
    OBVIOUS
<1>1. CASE UNCHANGED vars
    BY <1>1 DEF vars, calls, chain, circle, WriteInv, TypeOK, PollsLeft, SignedFirst,
       ResultAtEnd, BelowWatermark, AppliedOnce, ResultsFromReceipts, AppliedHasReceipt,
       WasApplied
<1>2. ASSUME NEW w \in Writers, CallStep(w) PROVE WriteInv'
    BY <1>2, PrepareKeeps, PrepareFailsKeeps, SubmitKeeps, SubmitFailsKeeps,
       ReceiptFoundKeeps, PollKeeps, LookupKeeps DEF CallStep
<1>3. ASSUME NEW w \in Writers, CallerStep(w) PROVE WriteInv'
    BY <1>3, CallerStepKeeps DEF CallerStep
<1>4. ASSUME NEW w \in Writers, ChainStep(w) PROVE WriteInv'
    BY <1>4, ExecuteKeeps, ExecuteAgainKeeps, RejectOrDropKeeps DEF ChainStep
<1> QED
    BY <1>1, <1>2, <1>3, <1>4 DEF Next

(* Every reachable state satisfies the inductive invariant of owner writes. *)
THEOREM AlwaysWriteInv == Spec => []WriteInv
<1> QED
    BY InitialWriteInv, StepKeepsWriteInv, PTL DEF Spec

(* The calls of any number of clients and the Circle stay within their     *)
(* types: a poll counts down, a result is one the code reports, a nonce is *)
(* one the account can have.                                               *)
THEOREM WriteTyped == Spec => []TypeOK
<1>1. WriteInv => TypeOK
    BY DEF WriteInv
<1> QED
    BY <1>1, AlwaysWriteInv, PTL

-----------------------------------------------------------------------------
(* However many calls share the wallet, whatever nonces the node reports,  *)
(* and however often a signed write is submitted or run, the Circle never  *)
(* commits one sequence twice nor goes back in them                        *)
(* (verify_signed_exec_params, require_owner_sequence).                    *)
THEOREM NoSequenceTwice == Spec => []AppliedOnce
<1>1. WriteInv => AppliedOnce
    BY DEF WriteInv
<1> QED
    BY <1>1, AlwaysWriteInv, PTL

(* execute returns Ok only for SQL that the Circle has committed.          *)
THEOREM OkMeansApplied == Spec => []OkIsApplied
<1>1. WriteInv => OkIsApplied
    BY DEF WriteInv, ResultsFromReceipts, OkIsApplied
<1> QED
    BY <1>1, AlwaysWriteInv, PTL

(* What callers are told: "ok" of what was applied, a failure of what was   *)
(* not if the chain and the host are such.                                 *)
AnswersTrue ==
    \A w \in Writers :
        /\ AnswerTo(w) \in {"open", "ok", "failed"}
        /\ AnswerTo(w) = "ok" => WasApplied(w)
        /\ RunOnce /\ AnswerTo(w) = "failed" => ~WasApplied(w)

LEMMA AnswersAreTrue == WriteInv => AnswersTrue
<1> SUFFICES ASSUME WriteInv, NEW w \in Writers
             PROVE  /\ AnswerTo(w) \in {"open", "ok", "failed"}
                    /\ AnswerTo(w) = "ok" => WasApplied(w)
                    /\ RunOnce /\ AnswerTo(w) = "failed" => ~WasApplied(w)
    BY DEF AnswersTrue
<1>1. CASE result[w] = "ok"
    BY <1>1 DEF AnswerTo, WriteInv, ResultsFromReceipts
<1>2. CASE result[w] \in {"sql_failed", "transaction_failed", "not_sent"}
    <2>1. AnswerTo(w) = "failed"
        BY <1>2 DEF AnswerTo
    <2>2. RunOnce /\ WasApplied(w) => receipt[w] = "success" /\ status[w] = "confirmed"
        BY DEF WriteInv, AppliedHasReceipt, ResultsFromReceipts
    <2>3. RunOnce => ~WasApplied(w)
        BY <1>2, <2>2 DEF WriteInv, ResultsFromReceipts, SignedFirst
    <2> QED
        BY <2>1, <2>3
<1>3. CASE result[w] \notin {"ok", "sql_failed", "transaction_failed", "not_sent"}
    BY <1>3 DEF AnswerTo
<1> QED
    BY <1>1, <1>2, <1>3

(* On a chain that runs a transaction once and a host that undoes trapped  *)
(* calls, execute reports a failure only for SQL that was not committed,   *)
(* and never is afterwards.                                                *)
THEOREM FailedMeansNotApplied ==
    ASSUME RunOnce
    PROVE  Spec => []FailedIsNotApplied
<1>1. WriteInv => FailedIsNotApplied
    BY RunOnce, AnswersAreTrue DEF AnswersTrue, AnswerTo, FailedIsNotApplied
<1> QED
    BY <1>1, AlwaysWriteInv, PTL

-----------------------------------------------------------------------------
(* Owner writes implement the at-most-once specification.  A step of a call *)
(* stutters or tells the caller, a step of the chain stutters or commits.   *)

(* What a step of call w leaves alone. *)
LEMMA CallStepFrame ==
    ASSUME WriteInv, NEW w \in Writers, CallStep(w)
    PROVE  /\ UNCHANGED circle
           /\ pc[w] # "done"
           /\ \A v \in Writers \ {w} : pc'[v] = pc[v] /\ result'[v] = result[v]
           /\ result'[w] = "submitted" => pc[w] = "prepared" /\ pc'[w] = "done"
           /\ result'[w] = "ok" => receipt[w] = "success"
<1> USE DEF WriteInv, TypeOK, chain, circle, End
<1>1. result[w] = "none" \/ pc[w] = "done"
    BY DEF ResultAtEnd, Results
<1>2. CASE Prepare(w) \/ PrepareFails(w)
    BY <1>1, <1>2 DEF Prepare, PrepareFails
<1>3. CASE Submit(w) \/ SubmitFails(w)
    BY <1>1, <1>3 DEF Submit, SubmitFails
<1>4. CASE ReceiptFound(w)
    BY <1>1, <1>4 DEF ReceiptFound, ReceiptSucceeds
<1>5. CASE \E error \in BOOLEAN : Poll(w, error)
    BY <1>1, <1>5 DEF Poll
<1>6. CASE Lookup(w)
    BY <1>1, <1>6 DEF Lookup
<1> QED
    BY <1>2, <1>3, <1>4, <1>5, <1>6 DEF CallStep

(* A call that ends for good tells its caller what is true of its write. *)
LEMMA CallStepTells ==
    ASSUME WriteInv, NEW w \in Writers, CallStep(w), AnswersTrue'
    PROVE  \/ \E answer \in {"ok", "failed"} : Promise!Tell(w, answer)
           \/ UNCHANGED Promise!vars
<1> DEFINE told == [v \in Writers |-> AnswerTo(v)]
<1>1. UNCHANGED circle /\ \A v \in Writers \ {w} : result'[v] = result[v]
    BY CallStepFrame
<1>2. result[w] = "none"
    BY CallStepFrame DEF WriteInv, ResultAtEnd
<1>3. AnswerTo(w) = "open"
    BY <1>2 DEF AnswerTo
<1>4. \A v \in Writers \ {w} : AnswerTo(v)' = AnswerTo(v)
    BY <1>1 DEF AnswerTo
<1>5. told' = [told EXCEPT ![w] = AnswerTo(w)']
    BY <1>4
<1>6. /\ AnswerTo(w)' \in {"open", "ok", "failed"}
      /\ AnswerTo(w)' = "ok" => WasApplied(w)'
      /\ RunOnce /\ AnswerTo(w)' = "failed" => ~WasApplied(w)'
    BY DEF AnswersTrue
<1>7. applied' = applied /\ (WasApplied(w)' <=> WasApplied(w))
    BY <1>1 DEF circle, WasApplied
<1>8. CASE AnswerTo(w)' = "open"
    BY <1>3, <1>5, <1>7, <1>8 DEF Promise!vars
<1>9. CASE AnswerTo(w)' \in {"ok", "failed"}
    BY <1>3, <1>5, <1>6, <1>7, <1>9 DEF Promise!Tell, Promise!Committed, WasApplied
<1> QED
    BY <1>6, <1>8, <1>9

(* A commit is the first of its write, and nobody was told of a final       *)
(* failure of it.                                                          *)
LEMMA CommitOnce ==
    ASSUME WriteInv, NEW w \in Writers, Commit(w), UNCHANGED calls, AnswersTrue'
    PROVE  Promise!Commit(w)
<1>1. UNCHANGED [v \in Writers |-> AnswerTo(v)] /\ AnswerTo(w)' = AnswerTo(w)
    BY DEF calls, AnswerTo
<1>2. ~WasApplied(w)
    <2> SUFFICES ASSUME NEW i \in 1..Len(applied), applied[i] = w PROVE FALSE
        BY DEF WasApplied
    <2>1. nonce[w] \in Nat /\ ownerSequence \in Nat /\ nonce[w] > ownerSequence
        BY DEF Commit, Acceptable, WriteInv, TypeOK
    <2>2. nonce[applied[i]] <= ownerSequence
        BY DEF WriteInv, BelowWatermark
    <2> QED
        BY <2>1, <2>2
<1>3. WasApplied(w)'
    BY CommitKeeps DEF calls
<1>4. RunOnce => AnswerTo(w) # "failed"
    BY <1>1, <1>3 DEF AnswersTrue
<1> QED
    BY <1>1, <1>2, <1>4 DEF Commit, Promise!Commit, Promise!Committed, WasApplied

LEMMA ChainStepCommits ==
    ASSUME WriteInv, NEW w \in Writers, ChainStep(w), AnswersTrue'
    PROVE  Promise!Commit(w) \/ UNCHANGED Promise!vars
<1>1. UNCHANGED calls /\ (UNCHANGED circle \/ Commit(w))
    BY DEF ChainStep, Execute, ExecuteAgain, Reject, Drop, Exec
<1>2. CASE UNCHANGED circle
    BY <1>1, <1>2 DEF calls, circle, Promise!vars, AnswerTo
<1>3. CASE Commit(w)
    BY <1>1, <1>3, CommitOnce
<1> QED
    BY <1>1, <1>2, <1>3

(* A call that is taken up again was told nothing for good. *)
LEMMA CallerStepStutters ==
    ASSUME WriteInv, NEW w \in Writers, CallerStep(w)
    PROVE  UNCHANGED Promise!vars
<1>1. UNCHANGED applied /\ result[w] \in {"submit_error", "submitted", "receipt_pending", "wait_error"}
      /\ result' = [result EXCEPT ![w] = "none"]
    BY DEF CallerStep, SubmitAgain, Follow, circle
<1>2. \A v \in Writers : AnswerTo(v)' = AnswerTo(v)
    BY <1>1 DEF AnswerTo, WriteInv, TypeOK
<1> QED
    BY <1>1, <1>2 DEF Promise!vars

(* Whatever was sent, lost, polled or sent again, by any number of calls:  *)
(* a signed write takes effect at most once, "ok" is told only of one that *)
(* has, and on a chain that runs a transaction once and a host that undoes *)
(* trapped calls a failure is told only of one that has not and never will *)
(* (execute, wait_for_receipt, verify_signed_exec_params).                 *)
THEOREM AtMostOnceImplemented == Spec => ImplementsAtMostOnce
<1>1. Init => Promise!Init
    BY DEF Init, Promise!Init, AnswerTo
<1>2. WriteInv /\ [Next]_vars /\ AnswersTrue' => [Promise!Next]_(Promise!vars)
    <2> SUFFICES ASSUME WriteInv, [Next]_vars, AnswersTrue'
                 PROVE  [Promise!Next]_(Promise!vars)
        OBVIOUS
    <2>1. CASE UNCHANGED vars
        BY <2>1 DEF vars, calls, circle, Promise!vars, AnswerTo
    <2>2. ASSUME NEW w \in Writers, CallStep(w) PROVE [Promise!Next]_(Promise!vars)
        BY <2>2, CallStepTells DEF Promise!Next
    <2>3. ASSUME NEW w \in Writers, CallerStep(w) PROVE [Promise!Next]_(Promise!vars)
        BY <2>3, CallerStepStutters
    <2>4. ASSUME NEW w \in Writers, ChainStep(w) PROVE [Promise!Next]_(Promise!vars)
        BY <2>4, ChainStepCommits DEF Promise!Next
    <2> QED
        BY <2>1, <2>2, <2>3, <2>4 DEF Next
<1> QED
    BY <1>1, <1>2, AnswersAreTrue, AlwaysWriteInv, PTL DEF Spec, ImplementsAtMostOnce, Promise!Spec
=============================================================================
