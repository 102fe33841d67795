--------------------------- MODULE Script_proofs ----------------------------
(***************************************************************************)
(* Proofs about scripts, for every set of inputs, any number of batches    *)
(* and any chain.  A command takes the steps of the owner writes, so what  *)
(* is proved of those holds here; and a command that waits stands at the   *)
(* one batch that is in doubt.                                             *)
(***************************************************************************)
EXTENDS Script, OwnerWrite_proofs, FiniteSetTheorems, SequenceTheorems

(* Writers are numbers, and the other process is one of them.              *)
LEMMA WritersAreNumbers == Other \in Writers /\ Writers \subseteq Nat
<1> QED
    BY ScriptAssumption

(* A step of the chain applies at most the SQL of the writer it is about,  *)
(* and only an intent with a sequence above the last one.                  *)
LEMMA ChainStepFrame ==
    ASSUME WriteInv, NEW w \in Writers, ChainStep(w)
    PROVE  /\ UNCHANGED calls
           /\ \/ applied' = applied
              \/ /\ applied' = Append(applied, w)
                 /\ Acceptable(w) /\ nonce[w] > 0
<1> USE DEF WriteInv, TypeOK, circle
<1>1. status[w] \in {"staged", "confirmed"}
    BY DEF ChainStep, Execute, ExecuteAgain, Reject, Drop
<1>2. nonce[w] > 0
    BY <1>1 DEF SignedFirst
<1>3. UNCHANGED calls
    BY DEF ChainStep, Execute, ExecuteAgain, Reject, Drop
<1>4. ASSUME NEW r \in Receipts, Exec(w, r)
      PROVE  \/ applied' = applied
             \/ applied' = Append(applied, w) /\ Acceptable(w)
    BY <1>4 DEF Exec, Commit
<1>5. CASE Execute(w) \/ ExecuteAgain(w)
    BY <1>2, <1>3, <1>4, <1>5 DEF Execute, ExecuteAgain
<1>6. CASE Reject(w) \/ Drop(w)
    BY <1>3, <1>6 DEF Reject, Drop
<1> QED
    BY <1>5, <1>6 DEF ChainStep

(* Every step is a step of the owner writes or leaves them alone.          *)
LEMMA StepIsOwnerWriteStep ==
    ASSUME ScriptInv, [ScriptNext]_allVars
    PROVE  [Next]_vars
<1>1. CASE OthersStep
    <2>1. Other \in Writers
        BY WritersAreNumbers
    <2> QED
        BY <1>1, <2>1 DEF OthersStep, Next
<1>2. CASE ExecBatch
    <2>1. at \in Writers
        BY <1>2 DEF ExecBatch, BatchesLeft, ScriptInv
    <2> QED
        BY <1>2, <2>1 DEF ExecBatch, Next
<1>3. CASE Plan \/ Refuse \/ RefuseBatch \/ NextBatch \/ InsertFails \/ Stop \/ Complete
            \/ UNCHANGED allVars
    BY <1>3 DEF Plan, Refuse, RefuseBatch, NextBatch, OwnerUnverified, InsertFails, Stop, Complete, allVars
<1> QED
    BY <1>1, <1>2, <1>3 DEF ScriptNext, CommandStep

-----------------------------------------------------------------------------
LEMMA InitialScriptInv == ScriptInit => ScriptInv
<1> SUFFICES ASSUME ScriptInit PROVE ScriptInv
    OBVIOUS
<1>1. WriteInv
    BY InitialWriteInv DEF ScriptInit
<1>2. Len(batches) = 0 /\ at = 1
    BY DEF ScriptInit
<1>3. \A w \in Writers : pc[w] = "start" /\ result[w] = "none"
    BY DEF ScriptInit, Init
<1>4. BatchBefore
    BY <1>2, WritersAreNumbers DEF BatchBefore, Other
<1> QED
    BY <1>1, <1>2, <1>3, <1>4 DEF ScriptInv, BatchAfter, BatchWaits, AppliedAfterOk

(* The batch that is submitted is the one the command stands at.           *)
LEMMA ExecBatchKeeps ==
    ASSUME ScriptInv, ExecBatch, WriteInv'
    PROVE  ScriptInv'
<1> USE DEF ScriptInv, script, given
<1>1. at \in Writers
    BY DEF ExecBatch, BatchesLeft
<1>2. UNCHANGED script
    BY DEF ExecBatch
<1>3. /\ UNCHANGED circle
      /\ \A v \in Writers \ {at} : pc'[v] = pc[v] /\ result'[v] = result[v]
    BY <1>1, CallStepFrame DEF ExecBatch
<1>4. at' = at /\ NoWait' = NoWait /\ InOrder' = InOrder
    BY <1>2 DEF NoWait, InOrder, Smoke
<1>. at \in Nat /\ Writers \subseteq Nat
    BY WritersAreNumbers
<1>5. BatchBefore' /\ BatchAfter'
    <2>1. ASSUME NEW b \in Writers \ {Other}, b # at
          PROVE  /\ b < at => pc'[b] = "done" /\ (InOrder => result'[b] = "ok")
                 /\ b > at => pc'[b] = "start"
        BY <1>3, <2>1 DEF BatchBefore, BatchAfter
    <2> QED
        BY <1>4, <2>1 DEF BatchBefore, BatchAfter
<1>6. BatchWaits'
    BY <1>1, <1>2, <1>3 DEF BatchWaits, NoWait, ExecBatch
<1>7. AppliedAfterOk'
    <2> SUFFICES ASSUME NEW a \in Writers \ {Other}, NEW b \in Writers \ {Other},
                        a < b, result'[a] = "ok", WasApplied(b)
                 PROVE  WasAppliedBefore(a, b)
        BY <1>3 DEF AppliedAfterOk, WasApplied, WasAppliedBefore, circle
    <2>1. CASE a # at
        BY <1>3, <2>1 DEF AppliedAfterOk
    <2>2. CASE a = at
        <3>1. nonce[b] = 0
            BY <2>2 DEF BatchAfter, WriteInv, SignedFirst
        <3> QED
            BY <3>1 DEF WasApplied, WriteInv, BelowWatermark
    <2> QED
        BY <2>1, <2>2
<1> QED
    BY <1>2, <1>5, <1>6, <1>7

LEMMA OthersCallKeeps ==
    ASSUME ScriptInv, CallStep(Other), UNCHANGED script, WriteInv'
    PROVE  ScriptInv'
<1> USE DEF ScriptInv, script, given
<1>1. Other \in Writers
    BY WritersAreNumbers
<1>2. /\ UNCHANGED circle
      /\ \A v \in Writers \ {Other} : pc'[v] = pc[v] /\ result'[v] = result[v]
    BY <1>1, CallStepFrame
<1>3. BatchBefore' /\ BatchAfter' /\ BatchWaits'
    BY <1>2 DEF BatchBefore, BatchAfter, BatchWaits, NoWait, InOrder, Smoke
<1>4. AppliedAfterOk'
    BY <1>2 DEF AppliedAfterOk, WasApplied, WasAppliedBefore, circle
<1> QED
    BY <1>3, <1>4

(* What the chain applies comes after what it has applied.                 *)
LEMMA ChainKeeps ==
    ASSUME ScriptInv, NEW w \in Writers, ChainStep(w), UNCHANGED script, WriteInv'
    PROVE  ScriptInv'
<1> USE DEF ScriptInv, script, given
<1>1. UNCHANGED calls
    BY ChainStepFrame
<1>2. BatchBefore' /\ BatchAfter' /\ BatchWaits'
    BY <1>1 DEF BatchBefore, BatchAfter, BatchWaits, NoWait, InOrder, Smoke, calls
<1>3. CASE applied' = applied
    BY <1>1, <1>2, <1>3 DEF AppliedAfterOk, WasApplied, WasAppliedBefore, calls
<1>4. CASE applied' = Append(applied, w)
    <2> SUFFICES ASSUME NEW a \in Writers \ {Other}, NEW b \in Writers \ {Other},
                        a < b, result[a] = "ok", WasApplied(b)'
                 PROVE  WasAppliedBefore(a, b)'
        BY <1>1, <1>2 DEF AppliedAfterOk, calls
    <2>1. /\ applied \in Seq(Writers)
          /\ Len(applied') = Len(applied) + 1
          /\ \A i \in 1..Len(applied) : applied'[i] = applied[i]
          /\ applied'[Len(applied) + 1] = w
        BY <1>4 DEF WriteInv, TypeOK
    <2>2. CASE WasApplied(b)
        <3>1. WasAppliedBefore(a, b)
            BY <2>2 DEF AppliedAfterOk
        <3> QED
            BY <2>1, <3>1 DEF WasAppliedBefore
    <2>3. CASE ~WasApplied(b)
        <3>1. b = w
            BY <2>1, <2>3 DEF WasApplied
        <3>2. PICK i \in 1..Len(applied) : applied[i] = a
            BY DEF WriteInv, ResultsFromReceipts, WasApplied
        <3> QED
            BY <2>1, <3>1, <3>2 DEF WasAppliedBefore
    <2> QED
        BY <2>2, <2>3
<1> QED
    BY <1>3, <1>4, ChainStepFrame

(* A batch is left behind when its write has returned: with Ok, if the     *)
(* command is one that stops at an error.                                  *)
LEMMA NextBatchKeeps ==
    ASSUME ScriptInv, NextBatch \/ InsertFails
    PROVE  ScriptInv'
<1> USE DEF ScriptInv, vars, calls, circle, given
<1>1. at' = at + 1 /\ UNCHANGED <<vars, batches, input>> /\ pc[at] = "done"
    BY DEF NextBatch, OwnerUnverified, InsertFails
<1>2. WriteInv'
    BY <1>1, StepKeepsWriteInv
<1>3. BatchBefore'
    <2> SUFFICES ASSUME NEW b \in Writers \ {Other}, b < at + 1
                 PROVE  pc[b] = "done" /\ (InOrder => result[b] = "ok")
        BY <1>1 DEF BatchBefore, NoWait, InOrder, Smoke
    <2>1. CASE b < at
        BY <2>1 DEF BatchBefore
    <2>2. CASE b = at
        BY <1>1, <2>2 DEF BatchWaits, NextBatch, OwnerUnverified, InsertFails, Succeeded, InOrder
    <2> QED
        BY <2>1, <2>2, WritersAreNumbers
<1>4. BatchAfter' /\ BatchWaits' /\ AppliedAfterOk'
    BY <1>1, WritersAreNumbers
       DEF BatchAfter, BatchWaits, AppliedAfterOk, WasApplied, WasAppliedBefore, NoWait
<1> QED
    BY <1>1, <1>2, <1>3, <1>4

LEMMA LocalStepKeeps ==
    ASSUME ScriptInv, Plan \/ Refuse \/ RefuseBatch \/ Stop \/ Complete \/ UNCHANGED allVars
    PROVE  ScriptInv'
<1> USE DEF ScriptInv, vars, calls, circle, given
<1>1. UNCHANGED <<at, input, vars>> /\ 1..Len(batches') \subseteq Writers
    BY DEF Plan, Refuse, RefuseBatch, Stop, Complete, allVars, script, given
<1>2. WriteInv'
    BY <1>1, StepKeepsWriteInv
<1>3. BatchBefore' /\ BatchAfter' /\ BatchWaits' /\ AppliedAfterOk'
    BY <1>1 DEF BatchBefore, BatchAfter, BatchWaits, AppliedAfterOk,
                WasApplied, WasAppliedBefore, NoWait, InOrder, Smoke
<1> QED
    BY <1>1, <1>2, <1>3

LEMMA StepKeepsScriptInv == ScriptInv /\ [ScriptNext]_allVars => ScriptInv'
<1> SUFFICES ASSUME ScriptInv, [ScriptNext]_allVars PROVE ScriptInv'
    OBVIOUS
<1>1. WriteInv'
    BY StepIsOwnerWriteStep, StepKeepsWriteInv DEF ScriptInv
<1>2. CASE OthersStep
    BY <1>1, <1>2, OthersCallKeeps, ChainKeeps DEF OthersStep
<1>3. CASE ExecBatch
    BY <1>1, <1>3, ExecBatchKeeps
<1>4. CASE NextBatch \/ InsertFails
    BY <1>4, NextBatchKeeps
<1>5. CASE Plan \/ Refuse \/ RefuseBatch \/ Stop \/ Complete \/ UNCHANGED allVars
    BY <1>5, LocalStepKeeps
<1> QED
    BY <1>2, <1>3, <1>4, <1>5 DEF ScriptNext, CommandStep

-----------------------------------------------------------------------------
(* The inductive invariant of the commands made of several owner writes    *)
(* (execute_sql_script_with_submitter_ou, run_verify_write_smoke).         *)
THEOREM ScriptInvHolds == ScriptSpec => []ScriptInv
<1> QED
    BY InitialScriptInv, StepKeepsScriptInv, PTL DEF ScriptSpec

(* A command that runs a script takes the steps of the owner writes.       *)
THEOREM ScriptImplementsOwnerWrite == ScriptSpec => Spec
<1>1. ScriptInit => Init
    BY DEF ScriptInit
<1>2. ScriptInv /\ [ScriptNext]_allVars => [Next]_vars
    BY StepIsOwnerWriteStep
<1> QED
    BY <1>1, <1>2, ScriptInvHolds, PTL DEF ScriptSpec, Spec

(* Writer a is not applied after writer b once it was applied before it.   *)
LEMMA AppliedInOneOrder ==
    ASSUME WriteInv, NEW a \in Writers, NEW b \in Writers, WasAppliedBefore(a, b)
    PROVE  ~WasAppliedBefore(b, a) /\ a # b
<1>1. \A i \in 1..Len(applied) : nonce[applied[i]] \in Nat
    BY DEF WriteInv, TypeOK
<1>2. nonce[a] < nonce[b]
    BY DEF WasAppliedBefore, WriteInv, AppliedOnce
<1>3. nonce[a] \in Nat /\ nonce[b] \in Nat
    BY DEF WriteInv, TypeOK
<1> QED
    BY <1>2, <1>3 DEF WasAppliedBefore, WriteInv, AppliedOnce

(* Whatever happens to a command that waits, to its transactions and to    *)
(* other writes of the wallet, a prefix of its batches is applied, each    *)
(* once and in order, and only the batch it stands at is in doubt          *)
(* (execute_sql_script_with_submitter_ou).                                 *)
THEOREM AppliedAlwaysPrefix == ScriptSpec => []AppliedIsPrefix
<1>1. ScriptInv => AppliedIsPrefix
    <2> SUFFICES ASSUME ScriptInv, InOrder PROVE AppliedIsPrefix
        BY DEF AppliedIsPrefix
    <2>1. \A b \in Writers \ {Other} : b < at => result[b] = "ok" /\ WasApplied(b)
        BY DEF ScriptInv, BatchBefore, WriteInv, ResultsFromReceipts
    <2>2. \A b \in Writers \ {Other} : b > at => ~WasApplied(b)
        <3> SUFFICES ASSUME NEW b \in Writers \ {Other}, b > at PROVE ~WasApplied(b)
            OBVIOUS
        <3>1. nonce[b] = 0
            BY DEF ScriptInv, BatchAfter, WriteInv, SignedFirst
        <3> QED
            BY <3>1 DEF WasApplied, ScriptInv, WriteInv, BelowWatermark
    <2>3. ASSUME NEW a \in Writers \ {Other}, NEW b \in Writers \ {Other},
                 WasAppliedBefore(a, b)
          PROVE  a < b
        <3>1. a \in Nat /\ b \in Nat /\ at \in Nat
            BY WritersAreNumbers DEF ScriptInv
        <3>2. WasApplied(a) /\ WasApplied(b)
            BY <2>3 DEF WasAppliedBefore, WasApplied
        <3>3. a <= at /\ b <= at
            BY <2>2, <3>1, <3>2
        <3>4. a # b /\ ~WasAppliedBefore(b, a)
            BY <2>3, AppliedInOneOrder DEF ScriptInv
        <3>5. ~(b < a)
            BY <2>1, <3>1, <3>2, <3>3, <3>4 DEF ScriptInv, AppliedAfterOk
        <3> QED
            BY <3>1, <3>4, <3>5
    <2>4. \A b \in 1..Len(batches) : b \in Writers \ {Other}
        BY DEF ScriptInv, Other
    <2> QED
        BY <2>1, <2>2, <2>3, <2>4 DEF AppliedIsPrefix
<1> QED
    BY <1>1, ScriptInvHolds, PTL

(* When the write smoke has been told that its table is created and that   *)
(* it is dropped, no transaction that is late or repeated brings it back   *)
(* (run_verify_write_smoke).                                               *)
THEOREM NoTableAfterCleanup ==
    ASSUME {Create, Cleanup} \subseteq Writers
    PROVE  ScriptSpec => [](result[Create] = "ok" /\ result[Cleanup] = "ok" => ~TableThere)
<1>1. ScriptInv => (result[Create] = "ok" /\ result[Cleanup] = "ok" => ~TableThere)
    <2> SUFFICES ASSUME ScriptInv, result[Create] = "ok", result[Cleanup] = "ok"
                 PROVE  WasAppliedBefore(Create, Cleanup)
        BY DEF TableThere
    <2>1. WasApplied(Cleanup)
        BY DEF ScriptInv, WriteInv, ResultsFromReceipts
    <2> QED
        BY <2>1 DEF ScriptInv, AppliedAfterOk, Create, Cleanup, Other
<1> QED
    BY <1>1, ScriptInvHolds, PTL

-----------------------------------------------------------------------------
(* Functions by recursion, sequences of sequences, and the plan of a       *)
(* script, a CSV file and the write smoke.                                 *)

(* Induction over the numbers, as the well-foundedness of finite sets.     *)
LEMMA SetInduction ==
    ASSUME NEW S, 0 \in S, \A n \in Nat : n \in S => n + 1 \in S
    PROVE  Nat \subseteq S
<1> SUFFICES ASSUME Nat \ S # {} PROVE FALSE
    OBVIOUS
<1> DEFINE Missing == {1..n : n \in Nat \ S}
<1>1. Missing \subseteq FiniteSubsetsOf(Nat) /\ Missing # {}
    <2>1. \A n \in Nat : 1..n \subseteq Nat /\ IsFiniteSet(1..n)
        BY FS_Interval
    <2> QED
        BY <2>1 DEF FiniteSubsetsOf
<1>2. PICK x \in Missing : \A y \in Missing : ~(<<y, x>> \in StrictSubsetOrdering(Nat))
    BY <1>1, FS_StrictSubsetOrderingWellFounded, WFMin
<1>3. PICK n \in Nat \ S : x = 1..n
    OBVIOUS
<1>4. n - 1 \in Nat \ S
    OBVIOUS
<1>5. 1..(n - 1) \in Missing /\ 1..(n - 1) \subseteq x /\ 1..(n - 1) # x
    BY <1>3, <1>4
<1>6. <<1..(n - 1), x>> \in StrictSubsetOrdering(Nat)
    BY <1>3, <1>4, <1>5 DEF StrictSubsetOrdering
<1> QED
    BY <1>2, <1>5, <1>6

(* f is defined by recursion from 0 on.                                   *)
Recurs(f, n, base, step) == f[0] = base /\ \A k \in 1..n : f[k] = step[k][f[k - 1]]

(* A function that is defined by recursion from 0 on exists and is that.   *)
LEMMA RecursiveFunction ==
    ASSUME NEW T, NEW n \in Nat, NEW base \in T, NEW step \in [1..n -> [T -> T]]
    PROVE  \E f \in [0..n -> T] : Recurs(f, n, base, step)
<1> DEFINE S == {m \in Nat : m <= n => \E f \in [0..m -> T] :
                    f[0] = base /\ \A k \in 1..m : f[k] = step[k][f[k - 1]]}
<1>1. 0 \in S
    <2> DEFINE g == [k \in 0..0 |-> base]
    <2>1. g \in [0..0 -> T] /\ g[0] = base /\ 1..0 = {}
        OBVIOUS
    <2> HIDE DEF g
    <2> QED
        BY <2>1
<1>2. ASSUME NEW m \in Nat, m \in S PROVE m + 1 \in S
    <2> SUFFICES ASSUME m + 1 <= n
                 PROVE \E f \in [0..m + 1 -> T] :
                    f[0] = base /\ \A k \in 1..m + 1 : f[k] = step[k][f[k - 1]]
        OBVIOUS
    <2>1. PICK f \in [0..m -> T] : f[0] = base /\ \A k \in 1..m : f[k] = step[k][f[k - 1]]
        BY <1>2
    <2> DEFINE next == step[m + 1][f[m]]
               g == [k \in 0..m + 1 |-> IF k = m + 1 THEN next ELSE f[k]]
    <2>2. next \in T
        <3>1. step[m + 1] \in [T -> T] /\ f[m] \in T
            OBVIOUS
        <3> QED
            BY <3>1
    <2>3. g \in [0..m + 1 -> T]
        BY <2>2
    <2>4. \A k \in 1..m + 1 : g[k] = step[k][g[k - 1]]
        BY <2>1
    <2>5. g[0] = base
        BY <2>1
    <2> HIDE DEF g
    <2> QED
        BY <2>3, <2>4, <2>5
<1>3. n \in S
    <2> HIDE DEF S
    <2> QED
        BY <1>1, <1>2, SetInduction
<1> QED
    BY <1>3 DEF Recurs

-----------------------------------------------------------------------------
(* f flattens the first sequences of s, step by step.                      *)
Flattens(f, s) ==
    /\ FlattenSeq(s) = f[Len(s)]
    /\ f[1] = s[1]
    /\ \A i \in 2..Len(s) : f[i] = f[i - 1] \o s[i]

(* FlattenSeq by its partial results.                                      *)
LEMMA FlattenFunction ==
    ASSUME NEW S, NEW s \in Seq(Seq(S)), s # << >>
    PROVE  \E f \in [1..Len(s) -> Seq(S)] : Flattens(f, s)
<1> DEFINE n == Len(s) - 1
           step == [k \in 1..n |-> [x \in Seq(S) |-> x \o s[k + 1]]]
<1>1. n \in Nat /\ s[1] \in Seq(S) /\ Len(s) = n + 1
    OBVIOUS
<1>2. step \in [1..n -> [Seq(S) -> Seq(S)]]
    <2> SUFFICES ASSUME NEW k \in 1..n, NEW x \in Seq(S) PROVE x \o s[k + 1] \in Seq(S)
        OBVIOUS
    <2>1. s[k + 1] \in Seq(S)
        OBVIOUS
    <2> QED
        BY <2>1, ConcatProperties
<1>3. PICK f \in [0..n -> Seq(S)] :
              f[0] = s[1] /\ \A k \in 1..n : f[k] = step[k][f[k - 1]]
    <2> DEFINE T == Seq(S)
               first == s[1]
    <2>1. n \in Nat /\ first \in T /\ step \in [1..n -> [T -> T]]
        BY <1>1, <1>2
    <2> HIDE DEF step, n, T, first
    <2>2. \E f \in [0..n -> T] : Recurs(f, n, first, step)
        BY <2>1, RecursiveFunction
    <2> QED
        BY <2>2 DEF T, first, Recurs
<1> DEFINE g == [i \in 1..Len(s) |-> f[i - 1]]
           E(h) == [i \in 1..Len(s) |-> IF i = 1 THEN s[i] ELSE h[i - 1] \o s[i]]
<1>4. g = E(g)
    <2> SUFFICES ASSUME NEW i \in 1..Len(s)
                 PROVE  g[i] = IF i = 1 THEN s[i] ELSE g[i - 1] \o s[i]
        OBVIOUS
    <2>1. CASE i = 1
        BY <1>1, <1>3, <2>1
    <2>2. CASE i # 1
        <3>1. i - 1 \in 1..n /\ i - 2 \in 0..n /\ i - 1 \in 1..Len(s) /\ (i - 1) - 1 = i - 2 /\ (i - 1) + 1 = i
            BY <2>2
        <3>2. f[i - 1] = step[i - 1][f[i - 2]] /\ f[i - 2] \in Seq(S)
            BY <1>3, <3>1
        <3>3. step[i - 1][f[i - 2]] = f[i - 2] \o s[i]
            BY <3>1, <3>2
        <3>4. g[i] = f[i - 1] /\ g[i - 1] = f[i - 2]
            BY <3>1
        <3> QED
            BY <2>2, <3>2, <3>3, <3>4
    <2> QED
        BY <2>1, <2>2
<1> DEFINE flat == CHOOSE h : h = E(h)
<1>5. flat = E(flat)
    <2> HIDE DEF g, E
    <2> QED
        BY <1>4
<1>6. FlattenSeq(s) = flat[Len(s)]
    BY DEF FlattenSeq
<1> HIDE DEF flat
<1>7. flat[1] = s[1] /\ \A i \in 2..Len(s) : flat[i] = flat[i - 1] \o s[i]
    <2>1. \A i \in 1..Len(s) : flat[i] = IF i = 1 THEN s[i] ELSE flat[i - 1] \o s[i]
        BY <1>5
    <2>2. 1 \in 1..Len(s) /\ \A i \in 2..Len(s) : i \in 1..Len(s) /\ i # 1
        OBVIOUS
    <2> QED
        BY <2>1, <2>2
<1>8. flat \in [1..Len(s) -> Seq(S)]
    <2> DEFINE P == {i \in Nat : i \in 1..Len(s) => flat[i] \in Seq(S)}
    <2>1. 0 \in P
        OBVIOUS
    <2>2. ASSUME NEW i \in Nat, i \in P PROVE i + 1 \in P
        <3> SUFFICES ASSUME i + 1 \in 1..Len(s) PROVE flat[i + 1] \in Seq(S)
            OBVIOUS
        <3>1. CASE i = 0
            BY <1>1, <1>7, <3>1
        <3>2. CASE i # 0
            <4>1. i \in 1..Len(s) /\ i + 1 \in 2..Len(s) /\ s[i + 1] \in Seq(S) /\ (i + 1) - 1 = i
                BY <3>2
            <4>2. flat[i] \in Seq(S) /\ flat[i + 1] = flat[i] \o s[i + 1]
                BY <1>7, <2>2, <4>1
            <4> QED
                BY <4>1, <4>2, ConcatProperties
        <3> QED
            BY <3>1, <3>2
    <2>3. Nat \subseteq P
        <3> HIDE DEF P
        <3> QED
            BY <2>1, <2>2, SetInduction
    <2>4. flat = [i \in 1..Len(s) |-> flat[i]]
        BY <1>5
    <2> QED
        BY <2>3, <2>4
<1> QED
    BY <1>6, <1>7, <1>8 DEF Flattens

(* FlattenSeq of nothing, of what is typed, of one element more, of two parts.*)
LEMMA FlattenEmpty == FlattenSeq(<< >>) = << >>
<1> QED
    BY DEF FlattenSeq

LEMMA FlattenInto ==
    ASSUME NEW S, NEW s \in Seq(Seq(S))
    PROVE  FlattenSeq(s) \in Seq(S)
<1>1. CASE s = << >>
    BY <1>1, FlattenEmpty, EmptySeq
<1>2. CASE s # << >>
    <2>1. PICK f \in [1..Len(s) -> Seq(S)] : FlattenSeq(s) = f[Len(s)]
        BY <1>2, FlattenFunction DEF Flattens
    <2>2. Len(s) \in 1..Len(s)
        BY <1>2
    <2> QED
        BY <2>1, <2>2
<1> QED
    BY <1>1, <1>2

LEMMA FlattenAppend ==
    ASSUME NEW S, NEW s \in Seq(Seq(S)), NEW x \in Seq(S)
    PROVE  FlattenSeq(Append(s, x)) = FlattenSeq(s) \o x
<1> DEFINE t == Append(s, x)
<1>1. /\ t \in Seq(Seq(S)) /\ t # << >> /\ Len(t) = Len(s) + 1 /\ t[Len(s) + 1] = x
      /\ \A i \in 1..Len(s) : t[i] = s[i]
    BY AppendProperties
<1> HIDE DEF t
<1>2. PICK g \in [1..Len(t) -> Seq(S)] : Flattens(g, t)
    BY <1>1, FlattenFunction
<1> USE DEF Flattens
<1>3. CASE s = << >>
    <2>1. FlattenSeq(t) = x /\ FlattenSeq(s) = << >>
        BY <1>1, <1>2, <1>3, FlattenEmpty
    <2> QED
        BY <2>1, ConcatEmptySeq DEF t
<1>4. CASE s # << >>
    <2>1. PICK f \in [1..Len(s) -> Seq(S)] : Flattens(f, s)
        BY <1>4, FlattenFunction
    <2> DEFINE Same == {i \in Nat : i \in 1..Len(s) => f[i] = g[i]}
    <2>2. ASSUME NEW i \in Nat, i \in Same PROVE i + 1 \in Same
        <3> SUFFICES ASSUME i + 1 \in 1..Len(s) PROVE f[i + 1] = g[i + 1]
            OBVIOUS
        <3>1. CASE i = 0
            BY <1>1, <1>2, <2>1, <3>1
        <3>2. CASE i # 0
            <4>1. i + 1 \in 2..Len(s) /\ i + 1 \in 2..Len(t) /\ i \in 1..Len(s) /\ (i + 1) - 1 = i
                BY <1>1, <3>2
            <4>2. f[i + 1] = f[i] \o s[i + 1] /\ g[i + 1] = g[i] \o t[i + 1]
                BY <1>2, <2>1, <4>1
            <4>3. f[i] = g[i]
                BY <2>2, <4>1
            <4> QED
                BY <1>1, <4>2, <4>3
        <3> QED
            BY <3>1, <3>2
    <2>3. \A i \in 1..Len(s) : f[i] = g[i]
        <3>1. 0 \in Same
            OBVIOUS
        <3>2. Nat \subseteq Same
            <4> HIDE DEF Same
            <4> QED
                BY <2>2, <3>1, SetInduction
        <3> QED
            BY <3>2
    <2>4. Len(s) \in 1..Len(s) /\ Len(t) \in 2..Len(t) /\ Len(t) - 1 = Len(s)
        BY <1>1, <1>4
    <2>5. f[Len(s)] = g[Len(s)]
        BY <2>3, <2>4
    <2>6. g[Len(t)] = g[Len(s)] \o x
        BY <1>1, <1>2, <2>4
    <2> QED
        BY <1>2, <2>1, <2>5, <2>6 DEF t
<1> QED
    BY <1>3, <1>4

LEMMA FlattenConcat ==
    ASSUME NEW S, NEW s \in Seq(Seq(S)), NEW t \in Seq(Seq(S))
    PROVE  FlattenSeq(s \o t) = FlattenSeq(s) \o FlattenSeq(t)
<1> DEFINE Splits == {n \in Nat : \A u \in Seq(Seq(S)) :
                        Len(u) = n => FlattenSeq(s \o u) = FlattenSeq(s) \o FlattenSeq(u)}
<1>1. 0 \in Splits
    <2> SUFFICES FlattenSeq(s \o << >>) = FlattenSeq(s) \o << >>
        BY EmptySeq, FlattenEmpty
    <2>1. FlattenSeq(s) \in Seq(S)
        BY FlattenInto
    <2>2. s \o << >> = s
        BY ConcatEmptySeq
    <2>3. FlattenSeq(s) \o << >> = FlattenSeq(s)
        BY <2>1, ConcatEmptySeq
    <2> QED
        BY <2>2, <2>3
<1>2. ASSUME NEW n \in Nat, n \in Splits PROVE n + 1 \in Splits
    <2> SUFFICES ASSUME NEW u \in Seq(Seq(S)), Len(u) = n + 1
                 PROVE  FlattenSeq(s \o u) = FlattenSeq(s) \o FlattenSeq(u)
        OBVIOUS
    <2>1. PICK v \in Seq(Seq(S)), x \in Seq(S) : u = Append(v, x)
        <3> DEFINE T == Seq(S)
        <3>1. u \in Seq(T) /\ u # << >>
            OBVIOUS
        <3> HIDE DEF T
        <3>2. \E v \in Seq(T), x \in T : u = Append(v, x)
            BY <3>1, SequenceEmptyOrAppend
        <3> QED
            BY <3>2 DEF T
    <2>2. Len(v) = n
        BY <2>1
    <2>3. FlattenSeq(s \o v) = FlattenSeq(s) \o FlattenSeq(v)
        BY <1>2, <2>2
    <2>4. s \o u = Append(s \o v, x) /\ s \o v \in Seq(Seq(S))
        BY <2>1, ConcatProperties
    <2>5. FlattenSeq(s \o u) = FlattenSeq(s \o v) \o x
        BY <2>4, FlattenAppend
    <2>6. FlattenSeq(u) = FlattenSeq(v) \o x
        BY <2>1, FlattenAppend
    <2>7. FlattenSeq(s) \in Seq(S) /\ FlattenSeq(v) \in Seq(S)
        BY FlattenInto
    <2>8. (FlattenSeq(s) \o FlattenSeq(v)) \o x = FlattenSeq(s) \o (FlattenSeq(v) \o x)
        <3> DEFINE a == FlattenSeq(s)
                   b == FlattenSeq(v)
        <3> HIDE DEF a, b
        <3>1. a \in Seq(S) /\ b \in Seq(S)
            BY <2>7 DEF a, b
        <3>2. (a \o b) \o x = a \o (b \o x)
            BY <3>1, ConcatAssociative, SMTT(60)
        <3> QED
            BY <3>2 DEF a, b
    <2> QED
        BY <2>3, <2>5, <2>6, <2>8
<1>3. Nat \subseteq Splits
    <2> HIDE DEF Splits
    <2> QED
        BY <1>1, <1>2, SetInduction
<1> QED
    BY <1>3

(* Induction over the sequences of a set.                                  *)
LEMMA SequenceInduction ==
    ASSUME NEW S, NEW P, << >> \in P,
           \A s \in Seq(S) : \A e \in S : s \in P => Append(s, e) \in P
    PROVE  Seq(S) \subseteq P
<1> DEFINE Lengths == {n \in Nat : \A s \in Seq(S) : Len(s) = n => s \in P}
<1>1. 0 \in Lengths
    BY EmptySeq
<1>2. ASSUME NEW n \in Nat, n \in Lengths PROVE n + 1 \in Lengths
    <2> SUFFICES ASSUME NEW s \in Seq(S), Len(s) = n + 1 PROVE s \in P
        OBVIOUS
    <2>1. PICK t \in Seq(S), e \in S : s = Append(t, e)
        BY SequenceEmptyOrAppend, EmptySeq
    <2> QED
        BY <1>2, <2>1
<1>3. Nat \subseteq Lengths
    <2> HIDE DEF Lengths
    <2> QED
        BY <1>1, <1>2, SetInduction
<1> QED
    BY <1>3

(* Prefixes, by their elements and as the first part of a concatenation.   *)
LEMMA PrefixByElements ==
    ASSUME NEW S, NEW s \in Seq(S), NEW t \in Seq(S)
    PROVE  IsPrefix(s, t) <=> Len(s) <= Len(t) /\ \A i \in 1..Len(s) : s[i] = t[i]
<1> SUFFICES ASSUME Len(s) <= Len(t)
             PROVE SubSeq(s, 1, Len(s)) = SubSeq(t, 1, Len(s)) <=> \A i \in 1..Len(s) : s[i] = t[i]
    BY DEF IsPrefix
<1> DEFINE u == SubSeq(t, 1, Len(s))
<1>1. u \in Seq(S) /\ Len(u) = Len(s) /\ \A i \in 1..Len(s) : u[i] = t[i]
    BY SubSeqProperties
<1>2. SubSeq(s, 1, Len(s)) = s
    BY SubSeqFull
<1> HIDE DEF u
<1>3. s = u <=> \A i \in 1..Len(s) : s[i] = t[i]
    BY <1>1, SeqEqual
<1> QED
    BY <1>2, <1>3 DEF u

LEMMA PrefixTrivial ==
    ASSUME NEW S, NEW s \in Seq(S)
    PROVE  IsPrefix(s, s) /\ IsPrefix(<< >>, s)
<1>1. IsPrefix(s, s)
    BY PrefixByElements
<1>2. << >> \in Seq(S) /\ Len(<< >>) = 0
    BY EmptySeq
<1>3. IsPrefix(<< >>, s)
    <2> DEFINE none == << >>
    <2>1. none \in Seq(S) /\ Len(none) <= Len(s) /\ \A i \in 1..Len(none) : none[i] = s[i]
        BY <1>2
    <2> HIDE DEF none
    <2>2. IsPrefix(none, s)
        BY <2>1, PrefixByElements
    <2> QED
        BY <2>2 DEF none
<1> QED
    BY <1>1, <1>3

LEMMA PrefixOfConcat ==
    ASSUME NEW S, NEW s \in Seq(S), NEW t \in Seq(S)
    PROVE  IsPrefix(s, s \o t)
<1>1. s \o t \in Seq(S) /\ Len(s) <= Len(s \o t) /\ \A i \in 1..Len(s) : s[i] = (s \o t)[i]
    BY ConcatProperties
<1> QED
    BY <1>1, PrefixByElements

LEMMA PrefixTransitive ==
    ASSUME NEW S, NEW s \in Seq(S), NEW t \in Seq(S), NEW u \in Seq(S), IsPrefix(s, t), IsPrefix(t, u)
    PROVE  IsPrefix(s, u)
<1> QED
    BY PrefixByElements

LEMMA PrefixAfter ==
    ASSUME NEW S, NEW s \in Seq(S), NEW t \in Seq(S), NEW u \in Seq(S), IsPrefix(t, u)
    PROVE  IsPrefix(s \o t, s \o u)
<1>1. Len(t) <= Len(u) /\ \A i \in 1..Len(t) : t[i] = u[i]
    BY PrefixByElements
<1>2. /\ s \o t \in Seq(S) /\ s \o u \in Seq(S)
      /\ Len(s \o t) <= Len(s \o u)
      /\ \A i \in 1..Len(s \o t) : (s \o t)[i] = (s \o u)[i]
    BY <1>1, ConcatProperties
<1> QED
    BY <1>2, PrefixByElements

LEMMA PrefixSplits ==
    ASSUME NEW S, NEW s \in Seq(S), NEW t \in Seq(S), IsPrefix(s, t)
    PROVE  \E u \in Seq(S) : t = s \o u
<1> DEFINE u == SubSeq(t, Len(s) + 1, Len(t))
<1>1. Len(s) <= Len(t) /\ \A i \in 1..Len(s) : s[i] = t[i]
    BY PrefixByElements
<1>2. u \in Seq(S) /\ Len(s) + Len(u) = Len(t) /\ \A i \in 1..Len(u) : u[i] = t[Len(s) + i]
    BY <1>1
<1> HIDE DEF u
<1>3. s \o u \in Seq(S) /\ Len(s \o u) = Len(t) /\ \A i \in 1..Len(t) : (s \o u)[i] = t[i]
    BY <1>1, <1>2, ConcatProperties
<1> QED
    BY <1>2, <1>3, SeqEqual

(* Flattening keeps prefixes.                                              *)
LEMMA FlattenPrefix ==
    ASSUME NEW S, NEW s \in Seq(Seq(S)), NEW t \in Seq(Seq(S)), IsPrefix(s, t)
    PROVE  IsPrefix(FlattenSeq(s), FlattenSeq(t))
<1> DEFINE T == Seq(S)
<1>1. \E u \in Seq(T) : t = s \o u
    <2>1. s \in Seq(T) /\ t \in Seq(T)
        OBVIOUS
    <2> HIDE DEF T
    <2> QED
        BY <2>1, PrefixSplits
<1>2. PICK u \in Seq(Seq(S)) : t = s \o u
    BY <1>1
<1>3. FlattenSeq(t) = FlattenSeq(s) \o FlattenSeq(u)
    BY <1>2, FlattenConcat
<1>4. FlattenSeq(s) \in Seq(S) /\ FlattenSeq(u) \in Seq(S)
    BY FlattenInto
<1> DEFINE a == FlattenSeq(s)
           b == FlattenSeq(u)
<1> HIDE DEF a, b
<1>5. a \in Seq(S) /\ b \in Seq(S)
    BY <1>4 DEF a, b
<1>6. IsPrefix(a, a \o b)
    BY <1>5, PrefixOfConcat
<1> QED
    BY <1>3, <1>6 DEF a, b

(* The items of batches, and those of batches put together.                *)
Contents(found) == [b \in 1..Len(found) |-> found[b].of]

LEMMA ContentsTyped ==
    ASSUME NEW T, NEW found \in Seq(Batch(T))
    PROVE  /\ Contents(found) \in Seq(T) /\ Len(Contents(found)) = Len(found)
           /\ \A b \in 1..Len(found) : Contents(found)[b] = found[b].of /\ found[b].of \in T
<1>1. \A b \in 1..Len(found) : found[b].of \in T
    <2> SUFFICES ASSUME NEW b \in 1..Len(found) PROVE found[b].of \in T
        OBVIOUS
    <2>1. found[b] \in Batch(T)
        BY ElementOfSeq
    <2> QED
        BY <2>1 DEF Batch
<1>2. Contents(found) \in Seq(T) /\ Len(Contents(found)) = Len(found)
    BY <1>1 DEF Contents
<1> QED
    BY <1>1, <1>2 DEF Contents

LEMMA ContentsOfAppend ==
    ASSUME NEW T, NEW found \in Seq(Batch(T)), NEW batch \in Batch(T)
    PROVE  /\ Contents(Append(found, batch)) = Append(Contents(found), batch.of)
           /\ batch.of \in T
<1> DEFINE B == Batch(T)
           more == Append(found, batch)
           both == Append(Contents(found), batch.of)
<1>. found \in Seq(B) /\ batch \in B
    OBVIOUS
<1>1. batch.of \in T
    BY DEF Batch
<1> HIDE DEF B
<1>2. /\ more \in Seq(B) /\ Len(more) = Len(found) + 1
      /\ more[Len(found) + 1] = batch
      /\ \A b \in 1..Len(found) : more[b] = found[b]
    BY AppendProperties
<1>3. /\ both \in Seq(T) /\ Len(both) = Len(found) + 1
      /\ both[Len(found) + 1] = batch.of
      /\ \A b \in 1..Len(found) : both[b] = found[b].of
    BY <1>1, ContentsTyped, AppendProperties DEF B
<1> HIDE DEF more, both
<1>4. /\ Contents(more) \in Seq(T) /\ Len(Contents(more)) = Len(both)
      /\ \A b \in 1..Len(both) : Contents(more)[b] = both[b]
    BY <1>2, <1>3, ContentsTyped DEF B
<1>5. Contents(more) = both
    BY <1>3, <1>4, SeqEqual
<1> QED
    BY <1>1, <1>5 DEF more, both

LEMMA ContentsOfConcat ==
    ASSUME NEW T, NEW found \in Seq(Batch(T)), NEW more \in Seq(Batch(T))
    PROVE  Contents(found \o more) = Contents(found) \o Contents(more)
<1> DEFINE B == Batch(T)
           all == found \o more
           both == Contents(found) \o Contents(more)
<1>. found \in Seq(B) /\ more \in Seq(B)
    OBVIOUS
<1> HIDE DEF B
<1>1. /\ all \in Seq(B) /\ Len(all) = Len(found) + Len(more)
      /\ \A b \in 1..Len(all) : all[b] = IF b <= Len(found) THEN found[b] ELSE more[b - Len(found)]
    BY ConcatProperties
<1>2. /\ both \in Seq(T) /\ Len(both) = Len(found) + Len(more)
      /\ \A b \in 1..Len(both) : both[b] = IF b <= Len(found) THEN Contents(found)[b]
                                           ELSE Contents(more)[b - Len(found)]
    <2>1. /\ Contents(found) \in Seq(T) /\ Len(Contents(found)) = Len(found)
          /\ Contents(more) \in Seq(T) /\ Len(Contents(more)) = Len(more)
        BY ContentsTyped DEF B
    <2> DEFINE c == Contents(found)
               d == Contents(more)
    <2> HIDE DEF c, d
    <2>2. /\ c \o d \in Seq(T) /\ Len(c \o d) = Len(c) + Len(d)
          /\ \A b \in 1..Len(c) + Len(d) : (c \o d)[b] = IF b <= Len(c) THEN c[b] ELSE d[b - Len(c)]
        BY <2>1, ConcatProperties DEF c, d
    <2> QED
        BY <2>1, <2>2 DEF c, d
<1> HIDE DEF all, both
<1>3. /\ Contents(all) \in Seq(T) /\ Len(Contents(all)) = Len(all)
      /\ \A b \in 1..Len(all) : Contents(all)[b] = all[b].of
      /\ \A b \in 1..Len(found) : Contents(found)[b] = found[b].of
      /\ \A b \in 1..Len(more) : Contents(more)[b] = more[b].of
    BY <1>1, ContentsTyped DEF B
<1>4. ASSUME NEW b \in 1..Len(all) PROVE Contents(all)[b] = both[b]
    <2>. Len(found) \in Nat /\ Len(more) \in Nat
        OBVIOUS
    <2>1. CASE b <= Len(found)
        <3>1. b \in 1..Len(found) /\ b \in 1..Len(both)
            BY <1>1, <1>2, <2>1
        <3>2. all[b] = found[b]
            BY <1>1, <2>1
        <3>3. both[b] = Contents(found)[b]
            BY <1>2, <2>1, <3>1
        <3> QED
            BY <1>3, <3>1, <3>2, <3>3
    <2>2. CASE ~(b <= Len(found))
        <3>1. b - Len(found) \in 1..Len(more) /\ b \in 1..Len(both)
            BY <1>1, <1>2, <2>2
        <3>2. all[b] = more[b - Len(found)]
            BY <1>1, <2>2
        <3>3. both[b] = Contents(more)[b - Len(found)]
            BY <1>2, <2>2, <3>1
        <3> QED
            BY <1>3, <3>1, <3>2, <3>3
    <2> QED
        BY <2>1, <2>2
<1>5. Contents(all) = both
    BY <1>1, <1>2, <1>3, <1>4, SeqEqual
<1> QED
    BY <1>5 DEF all, both

LEMMA ContentsOfPrefix ==
    ASSUME NEW T, NEW found \in Seq(Batch(T)), NEW n \in 0..Len(found)
    PROVE  /\ SubSeq(found, 1, n) \in Seq(Batch(T))
           /\ IsPrefix(Contents(SubSeq(found, 1, n)), Contents(found))
<1> DEFINE B == Batch(T)
           first == SubSeq(found, 1, n)
<1>. found \in Seq(B)
    OBVIOUS
<1> HIDE DEF B
<1>1. first \in Seq(B) /\ Len(first) = n /\ \A b \in 1..n : first[b] = found[b]
    BY SubSeqProperties
<1> HIDE DEF first
<1>2. /\ Contents(first) \in Seq(T) /\ Len(Contents(first)) = n
      /\ Contents(found) \in Seq(T) /\ Len(Contents(found)) = Len(found)
      /\ \A b \in 1..n : Contents(first)[b] = Contents(found)[b]
    BY <1>1, ContentsTyped DEF B
<1>3. IsPrefix(Contents(first), Contents(found))
    BY <1>2, PrefixByElements
<1> QED
    BY <1>1, <1>3 DEF first, B

(* The statements in batches: none in none, those of each in their order.  *)
LEMMA StatementsInNone == StatementsIn(<< >>) = << >>
<1>1. [b \in 1..Len(<< >>) |-> << >>[b].of] = << >>
    OBVIOUS
<1> QED
    BY <1>1, FlattenEmpty DEF StatementsIn

LEMMA StatementsInTyped ==
    ASSUME NEW S, NEW found \in Seq(Batch(Seq(S)))
    PROVE  /\ Contents(found) \in Seq(Seq(S))
           /\ StatementsIn(found) = FlattenSeq(Contents(found))
           /\ StatementsIn(found) \in Seq(S)
<1> DEFINE T == Seq(S)
<1>1. Contents(found) \in Seq(T)
    <2>1. found \in Seq(Batch(T))
        OBVIOUS
    <2> HIDE DEF T
    <2> QED
        BY <2>1, ContentsTyped
<1>2. FlattenSeq(Contents(found)) \in Seq(S)
    BY <1>1, FlattenInto
<1> QED
    BY <1>1, <1>2 DEF StatementsIn, Contents

LEMMA StatementsInAppend ==
    ASSUME NEW S, NEW found \in Seq(Batch(Seq(S))), NEW batch \in Batch(Seq(S))
    PROVE  StatementsIn(Append(found, batch)) = StatementsIn(found) \o batch.of
<1> DEFINE T == Seq(S)
           more == Append(found, batch)
<1>1. Contents(more) = Append(Contents(found), batch.of) /\ batch.of \in T
    <2>1. found \in Seq(Batch(T)) /\ batch \in Batch(T)
        OBVIOUS
    <2> HIDE DEF T
    <2> QED
        BY <2>1, ContentsOfAppend
<1>2. FlattenSeq(Append(Contents(found), batch.of)) = FlattenSeq(Contents(found)) \o batch.of
    BY <1>1, StatementsInTyped, FlattenAppend
<1>3. StatementsIn(more) = FlattenSeq(Contents(more)) /\ StatementsIn(found) = FlattenSeq(Contents(found))
    BY DEF StatementsIn, Contents
<1> QED
    BY <1>1, <1>2, <1>3

LEMMA StatementsInConcat ==
    ASSUME NEW S, NEW found \in Seq(Batch(Seq(S))), NEW more \in Seq(Batch(Seq(S)))
    PROVE  StatementsIn(found \o more) = StatementsIn(found) \o StatementsIn(more)
<1> DEFINE T == Seq(S)
<1>1. Contents(found \o more) = Contents(found) \o Contents(more)
    <2>1. found \in Seq(Batch(T)) /\ more \in Seq(Batch(T))
        OBVIOUS
    <2> HIDE DEF T
    <2> QED
        BY <2>1, ContentsOfConcat
<1>2. FlattenSeq(Contents(found) \o Contents(more)) = FlattenSeq(Contents(found)) \o FlattenSeq(Contents(more))
    BY StatementsInTyped, FlattenConcat
<1> QED
    BY <1>1, <1>2 DEF StatementsIn, Contents

LEMMA StatementsInPrefix ==
    ASSUME NEW S, NEW found \in Seq(Batch(Seq(S))), NEW n \in 0..Len(found)
    PROVE  /\ SubSeq(found, 1, n) \in Seq(Batch(Seq(S)))
           /\ IsPrefix(StatementsIn(SubSeq(found, 1, n)), StatementsIn(found))
<1> DEFINE T == Seq(S)
           first == SubSeq(found, 1, n)
<1>1. first \in Seq(Batch(T)) /\ IsPrefix(Contents(first), Contents(found))
    <2>1. found \in Seq(Batch(T))
        OBVIOUS
    <2> HIDE DEF T
    <2> QED
        BY <2>1, ContentsOfPrefix
<1> HIDE DEF first
<1>2. IsPrefix(FlattenSeq(Contents(first)), FlattenSeq(Contents(found)))
    BY <1>1, StatementsInTyped, FlattenPrefix
<1>3. IsPrefix(StatementsIn(first), StatementsIn(found))
    BY <1>1, <1>2, StatementsInTyped
<1> QED
    BY <1>1, <1>3 DEF first

(* The same recursion over a set of values.                                *)
RecursIn(T, f, n, base, step) ==
    f[0] = base /\ \A k \in 1..n : f[k - 1] \in T => f[k] = step[k][f[k - 1]]

LEMMA RecursiveFunctionTyped ==
    ASSUME NEW T, NEW n \in Nat, NEW base \in T, NEW step \in [1..n -> [T -> T]],
           NEW f, RecursIn(T, f, n, base, step)
    PROVE  \A k \in 0..n : f[k] \in T
<1> DEFINE S == {k \in Nat : k <= n => f[k] \in T}
<1>1. 0 \in S
    BY DEF RecursIn
<1>2. ASSUME NEW k \in Nat, k \in S PROVE k + 1 \in S
    <2> SUFFICES ASSUME k + 1 <= n PROVE f[k + 1] \in T
        OBVIOUS
    <2>1. k + 1 \in 1..n /\ (k + 1) - 1 = k /\ f[k] \in T
        BY <1>2
    <2>2. f[k + 1] = step[k + 1][f[k]] /\ step[k + 1] \in [T -> T]
        BY <2>1 DEF RecursIn
    <2> QED
        BY <2>1, <2>2
<1>3. Nat \subseteq S
    <2> HIDE DEF S
    <2> QED
        BY <1>1, <1>2, SetInduction
<1> QED
    BY <1>3

(* The executable statements are statements, by their positions.           *)
LEMMA ExecutableTyped ==
    ASSUME NEW statements, Len(statements) \in Nat
    PROVE  Executable(statements) \in Seq(1..Len(statements))
<1> DEFINE n == Len(statements)
           T == Seq(1..n)
           E(h) == [k \in 0..n |-> IF k = 0 THEN << >>
                                   ELSE IF IsWrapper(statements[k]) THEN h[k - 1]
                                   ELSE Append(h[k - 1], k)]
           step == [k \in 1..n |-> [x \in T |-> IF IsWrapper(statements[k]) THEN x ELSE Append(x, k)]]
           kept == CHOOSE h : h = E(h)
<1>1. n \in Nat /\ << >> \in T /\ step \in [1..n -> [T -> T]]
    <2>1. ASSUME NEW k \in 1..n, NEW x \in T
          PROVE  (IF IsWrapper(statements[k]) THEN x ELSE Append(x, k)) \in T
        BY AppendProperties
    <2>2. step \in [1..n -> [T -> T]]
        <3> HIDE DEF T
        <3> QED
            BY <2>1
    <2> QED
        BY <2>2
<1> HIDE DEF T
<1>2. \E g \in [0..n -> T] : Recurs(g, n, << >>, step)
    <2> DEFINE none == << >>
    <2>1. none \in T
        BY <1>1
    <2> HIDE DEF n, T, step, none
    <2>2. \E g \in [0..n -> T] : Recurs(g, n, none, step)
        BY <1>1, <2>1, RecursiveFunction
    <2> QED
        BY <2>2 DEF none
<1>3. PICK g \in [0..n -> T] : Recurs(g, n, << >>, step)
    BY <1>2
<1>4. g = E(g)
    <2>1. ASSUME NEW k \in 1..n
          PROVE g[k] = IF IsWrapper(statements[k]) THEN g[k - 1] ELSE Append(g[k - 1], k)
        <3>1. k - 1 \in 0..n
            BY <1>1
        <3>2. g[k] = step[k][g[k - 1]] /\ g[k - 1] \in T
            BY <1>3, <3>1 DEF Recurs
        <3> QED
            BY <3>2
    <2>2. \A k \in 0..n : k # 0 => k \in 1..n
        BY <1>1
    <2>3. g[0] = << >>
        BY <1>3 DEF Recurs
    <2> QED
        BY <2>1, <2>2, <2>3
<1>5. kept = E(kept)
    <2> HIDE DEF E
    <2> QED
        BY <1>4
<1>6. Executable(statements) = kept[n]
    BY DEF Executable
<1> HIDE DEF kept
<1>7. RecursIn(T, kept, n, << >>, step)
    <2>1. kept[0] = << >>
        BY <1>1, <1>5
    <2>2. ASSUME NEW k \in 1..n, kept[k - 1] \in T PROVE kept[k] = step[k][kept[k - 1]]
        <3>1. kept[k] = IF IsWrapper(statements[k]) THEN kept[k - 1] ELSE Append(kept[k - 1], k)
            <4>1. k \in 0..n /\ k # 0
                BY <1>1
            <4> QED
                BY <1>5, <4>1
        <3> QED
            BY <2>2, <3>1
    <2> QED
        BY <2>1, <2>2 DEF RecursIn
<1>8. \A k \in 0..n : kept[k] \in T
    <2> DEFINE none == << >>
    <2>1. none \in T /\ RecursIn(T, kept, n, none, step)
        BY <1>1, <1>7
    <2> HIDE DEF n, T, step, none
    <2> QED
        BY <1>1, <2>1, RecursiveFunctionTyped
<1> QED
    BY <1>1, <1>6, <1>8

(* No batch is empty, and each is below the target or one item of its own. *)
Small(found, large) ==
    \A b \in 1..Len(found) :
        found[b].of # << >> /\ (found[b].bytes < BatchTarget \/ found[b].bytes \in large)

(* What one more item does to the batches.                                 *)
LEMMA WithItemJoins ==
    ASSUME NEW S, NEW found \in Seq(Batch(Seq(S))), NEW item \in S, NEW length \in Nat,
           NEW large, Small(found, large), length \in large
    PROVE  /\ WithItem(found, item, length) \in Seq(Batch(Seq(S)))
           /\ StatementsIn(WithItem(found, item, length)) = Append(StatementsIn(found), item)
           /\ Small(WithItem(found, item, length), large)
<1> DEFINE B == Batch(Seq(S))
           added == WithItem(found, item, length)
           sum == Last(found).bytes + length
           joined == [of |-> Append(Last(found).of, item), bytes |-> sum]
           single == [of |-> <<item>>, bytes |-> length]
<1>. found \in Seq(B)
    OBVIOUS
<1>1. StatementsIn(found) \in Seq(S)
    BY StatementsInTyped
<1>2. CASE found # << >> /\ Joins(Last(found), length)
    <2>1. Len(found) \in Nat \ {0} /\ found[Len(found)] \in B
        BY <1>2, EmptySeq
    <2>2. Last(found).of \in Seq(S) /\ Last(found).bytes \in Nat /\ Last(found) \in B
        BY <2>1 DEF Batch, Last
    <2>3. joined \in B /\ joined.of = Append(Last(found).of, item) /\ joined.bytes = sum
        BY <2>2, AppendProperties DEF Batch
    <2>4. joined.of # << >>
        BY <2>2, <2>3, AppendProperties
    <2>5. added = Append(Front(found), joined)
        BY <1>2 DEF WithItem
    <2>6. sum < BatchTarget
        BY <1>2 DEF Joins
    <2> HIDE DEF B, joined, sum
    <2>7. /\ Front(found) \in Seq(B) /\ Len(Front(found)) = Len(found) - 1
          /\ \A b \in 1..Len(found) - 1 : Front(found)[b] = found[b]
        <3> DEFINE n == Len(found) - 1
                   first == SubSeq(found, 1, n)
        <3>1. n \in Nat /\ \A b \in 1..n : found[b] \in B
            BY <2>1
        <3> HIDE DEF n
        <3>2. first \in Seq(B) /\ Len(first) = n /\ \A b \in 1..n : first[b] = found[b]
            BY <3>1, SubSeqProperties
        <3> QED
            BY <3>2 DEF Front, n
    <2>8. found = Append(Front(found), Last(found))
        <3> DEFINE whole == Append(Front(found), Last(found))
        <3>1. /\ whole \in Seq(B) /\ Len(whole) = Len(found)
              /\ \A b \in 1..Len(found) : whole[b] = found[b]
            BY <2>1, <2>2, <2>7, AppendProperties DEF Last
        <3> HIDE DEF whole
        <3>2. whole = found
            BY <3>1, SeqEqual
        <3> QED
            BY <3>2 DEF whole
    <2>9. added \in Seq(B)
        BY <2>3, <2>5, <2>7, AppendProperties
    <2>10. Small(added, large)
        <3>1. /\ Len(added) = Len(found) /\ added[Len(found)] = joined
              /\ \A b \in 1..Len(found) - 1 : added[b] = found[b]
            BY <2>1, <2>3, <2>5, <2>7, AppendProperties
        <3> QED
            BY <2>1, <2>3, <2>4, <2>6, <3>1 DEF Small
    <2>11. StatementsIn(added) = Append(StatementsIn(found), item)
        <3> DEFINE a == StatementsIn(Front(found))
                   c == Last(found).of
        <3>1. StatementsIn(found) = a \o c /\ StatementsIn(added) = a \o Append(c, item)
            BY <2>2, <2>3, <2>5, <2>7, <2>8, StatementsInAppend DEF B
        <3>2. a \in Seq(S) /\ c \in Seq(S)
            BY <2>2, <2>7, StatementsInTyped DEF B
        <3> HIDE DEF a, c
        <3>3. a \o Append(c, item) = Append(a \o c, item)
            BY <3>2, ConcatProperties, AppendProperties
        <3> QED
            BY <3>1, <3>3
    <2> QED
        BY <2>9, <2>10, <2>11 DEF B
<1>3. CASE ~(found # << >> /\ Joins(Last(found), length))
    <2>1. added = Append(found, single)
        BY <1>3 DEF WithItem
    <2>2. single \in B /\ single.of = <<item>> /\ single.bytes = length /\ single.of # << >>
        BY DEF Batch
    <2> HIDE DEF B, single
    <2>3. /\ added \in Seq(B) /\ Len(added) = Len(found) + 1 /\ added[Len(found) + 1] = single
          /\ \A b \in 1..Len(found) : added[b] = found[b]
        BY <2>1, <2>2, AppendProperties
    <2>4. Small(added, large)
        <3> SUFFICES ASSUME NEW b \in 1..Len(added)
                     PROVE /\ added[b].of # << >>
                           /\ added[b].bytes < BatchTarget \/ added[b].bytes \in large
            BY DEF Small
        <3>1. b \in 1..Len(found) \/ b = Len(found) + 1
            BY <2>3
        <3> QED
            BY <2>2, <2>3, <3>1 DEF Small
    <2>5. StatementsIn(added) = StatementsIn(found) \o <<item>>
        BY <2>1, <2>2, StatementsInAppend DEF B
    <2>6. StatementsIn(found) \o <<item>> = Append(StatementsIn(found), item)
        BY <1>1, AppendIsConcat
    <2> QED
        BY <2>3, <2>4, <2>5, <2>6 DEF B
<1> QED
    BY <1>2, <1>3

(* The batches by their partial results.                                   *)
LEMMA BatchesFunction ==
    ASSUME NEW S, NEW items \in Seq(S), NEW lengths \in [1..Len(items) -> Nat]
    PROVE  LET found == BatchesUpTo(items, lengths) IN
              /\ found[0] = << >>
              /\ \A k \in 1..Len(items) : found[k] = WithItem(found[k - 1], items[k], lengths[k])
<1> DEFINE n == Len(items)
           large == {lengths[k] : k \in 1..Len(items)}
           T == {x \in Seq(Batch(Seq(S))) : Small(x, large)}
           none == << >>
           E(h) == [k \in 0..n |-> IF k = 0 THEN << >>
                                   ELSE WithItem(h[k - 1], items[k], lengths[k])]
           step == [k \in 1..n |-> [x \in T |-> WithItem(x, items[k], lengths[k])]]
           found == CHOOSE h : h = E(h)
<1>1. n \in Nat /\ none \in T /\ step \in [1..n -> [T -> T]]
    <2>1. ASSUME NEW k \in 1..n, NEW x \in T PROVE WithItem(x, items[k], lengths[k]) \in T
        <3> DEFINE item == items[k]
                   length == lengths[k]
        <3>1. item \in S /\ length \in Nat /\ length \in large
            OBVIOUS
        <3>2. x \in Seq(Batch(Seq(S))) /\ Small(x, large)
            OBVIOUS
        <3> HIDE DEF item, length, large
        <3>3. WithItem(x, item, length) \in T
            BY <3>1, <3>2, WithItemJoins
        <3> QED
            BY <3>3 DEF item, length
    <2>2. n \in Nat /\ none \in T
        BY EmptySeq DEF Small
    <2>3. step \in [1..n -> [T -> T]]
        <3> HIDE DEF T
        <3> QED
            BY <2>1
    <2> QED
        BY <2>2, <2>3
<1> HIDE DEF T
<1>2. PICK g \in [0..n -> T] : Recurs(g, n, none, step)
    <2> HIDE DEF n, step, none
    <2> QED
        BY <1>1, RecursiveFunction
<1>3. g = E(g)
    <2>1. ASSUME NEW k \in 1..n PROVE g[k] = WithItem(g[k - 1], items[k], lengths[k])
        <3>1. k - 1 \in 0..n
            BY <1>1
        <3>2. g[k] = step[k][g[k - 1]] /\ g[k - 1] \in T
            BY <1>2, <3>1 DEF Recurs
        <3> QED
            BY <3>2
    <2>2. \A k \in 0..n : k # 0 => k \in 1..n
        BY <1>1
    <2>3. g[0] = << >>
        BY <1>2 DEF Recurs
    <2> QED
        BY <2>1, <2>2, <2>3
<1>4. found = E(found)
    <2> HIDE DEF E
    <2> QED
        BY <1>3
<1>5. BatchesUpTo(items, lengths) = found
    BY DEF BatchesUpTo
<1> HIDE DEF found
<1>6. \A k \in 1..n : found[k] = WithItem(found[k - 1], items[k], lengths[k])
    <2>1. \A k \in 1..n : k \in 0..n /\ k # 0
        BY <1>1
    <2> QED
        BY <1>4, <2>1
<1>7. found[0] = << >>
    BY <1>1, <1>4
<1> QED
    BY <1>5, <1>6, <1>7

(* The batches hold the items in their order, none of them twice.          *)
LEMMA BatchesHoldItems ==
    ASSUME NEW S, NEW items \in Seq(S), NEW lengths \in [1..Len(items) -> Nat]
    PROVE  /\ BatchesOf(items, lengths) \in Seq(Batch(Seq(S)))
           /\ StatementsIn(BatchesOf(items, lengths)) = items
           /\ Small(BatchesOf(items, lengths), {lengths[k] : k \in 1..Len(items)})
<1> DEFINE large == {lengths[k] : k \in 1..Len(items)}
           found == BatchesUpTo(items, lengths)
           Good(k) == /\ found[k] \in Seq(Batch(Seq(S)))
                      /\ StatementsIn(found[k]) = SubSeq(items, 1, k)
                      /\ Small(found[k], large)
           P == {k \in Nat : k <= Len(items) => Good(k)}
<1>1. /\ found[0] = << >>
      /\ \A k \in 1..Len(items) : found[k] = WithItem(found[k - 1], items[k], lengths[k])
    BY BatchesFunction
<1>2. BatchesOf(items, lengths) = found[Len(items)]
    BY DEF BatchesOf
<1> HIDE DEF found, large
<1>3. 0 \in P
    <2>1. << >> \in Seq(Batch(Seq(S))) /\ Small(<< >>, large)
        BY EmptySeq DEF Small
    <2>2. SubSeq(items, 1, 0) = << >>
        BY SubSeqEmpty
    <2> QED
        BY <1>1, <2>1, <2>2, StatementsInNone
<1>4. ASSUME NEW k \in Nat, k \in P PROVE k + 1 \in P
    <2> SUFFICES ASSUME k + 1 <= Len(items) PROVE Good(k + 1)
        OBVIOUS
    <2> DEFINE item == items[k + 1]
               length == lengths[k + 1]
    <2>1. k + 1 \in 1..Len(items) /\ (k + 1) - 1 = k
        OBVIOUS
    <2>2. item \in S /\ length \in Nat /\ length \in large
        BY <2>1 DEF large
    <2>3. found[k + 1] = WithItem(found[k], item, length)
        BY <1>1, <2>1
    <2>4. Good(k)
        BY <1>4, <2>1
    <2> DEFINE before == found[k]
    <2> HIDE DEF item, length
    <2>5. /\ found[k + 1] \in Seq(Batch(Seq(S)))
          /\ StatementsIn(found[k + 1]) = Append(SubSeq(items, 1, k), item)
          /\ Small(found[k + 1], large)
        <3>1. before \in Seq(Batch(Seq(S))) /\ StatementsIn(before) = SubSeq(items, 1, k) /\ Small(before, large)
            BY <2>4
        <3> HIDE DEF before
        <3>2. /\ WithItem(before, item, length) \in Seq(Batch(Seq(S)))
              /\ StatementsIn(WithItem(before, item, length)) = Append(StatementsIn(before), item)
              /\ Small(WithItem(before, item, length), large)
            BY <2>2, <3>1, WithItemJoins
        <3> QED
            BY <2>3, <3>1, <3>2 DEF before
    <2>6. Append(SubSeq(items, 1, k), item) = SubSeq(items, 1, k + 1)
        BY <2>1, SubSeqRecursiveSecond DEF item
    <2> QED
        BY <2>5, <2>6
<1>5. Good(Len(items))
    <2>1. Nat \subseteq P
        <3> HIDE DEF P
        <3> QED
            BY <1>3, <1>4, SetInduction
    <2> QED
        BY <2>1
<1>6. SubSeq(items, 1, Len(items)) = items
    BY SubSeqFull
<1> QED
    BY <1>2, <1>5, <1>6 DEF large

(* Statements with their numbers and texts, of one part and put together.  *)
LEMMA NumberedTyped ==
    ASSUME NEW p \in Nat, NEW texts \in Seq(Texts), NEW items \in Seq(1..Len(texts))
    PROVE  /\ Numbered(p, items, texts) \in Seq(Item)
           /\ Len(Numbered(p, items, texts)) = Len(items)
           /\ \A k \in 1..Len(items) : Numbered(p, items, texts)[k] =
                 [part |-> p, index |-> items[k], text |-> texts[items[k]]]
<1>1. ASSUME NEW k \in 1..Len(items)
      PROVE  [part |-> p, index |-> items[k], text |-> texts[items[k]]] \in Item
    <2>1. items[k] \in 1..Len(texts)
        BY ElementOfSeq
    <2>2. texts[items[k]] \in Texts
        BY <2>1, ElementOfSeq
    <2> QED
        BY <2>1, <2>2 DEF Item
<1> QED
    BY <1>1 DEF Numbered

LEMMA NumberedConcat ==
    ASSUME NEW p \in Nat, NEW texts \in Seq(Texts),
           NEW items \in Seq(1..Len(texts)), NEW more \in Seq(1..Len(texts))
    PROVE  Numbered(p, items \o more, texts) = Numbered(p, items, texts) \o Numbered(p, more, texts)
<1> DEFINE all == items \o more
           a == Numbered(p, items, texts)
           b == Numbered(p, more, texts)
           I(k) == [part |-> p, index |-> k, text |-> texts[k]]
<1>1. /\ all \in Seq(1..Len(texts)) /\ Len(all) = Len(items) + Len(more)
      /\ \A k \in 1..Len(all) : all[k] = IF k <= Len(items) THEN items[k] ELSE more[k - Len(items)]
    BY ConcatProperties
<1>2. /\ a \in Seq(Item) /\ Len(a) = Len(items) /\ \A k \in 1..Len(items) : a[k] = I(items[k])
      /\ b \in Seq(Item) /\ Len(b) = Len(more) /\ \A k \in 1..Len(more) : b[k] = I(more[k])
    BY NumberedTyped
<1> DEFINE whole == Numbered(p, all, texts)
           both == a \o b
<1> HIDE DEF all, a, b
<1>3. /\ whole \in Seq(Item) /\ Len(whole) = Len(all) /\ \A k \in 1..Len(all) : whole[k] = I(all[k])
    BY <1>1, NumberedTyped
<1>4. /\ both \in Seq(Item) /\ Len(both) = Len(all)
      /\ \A k \in 1..Len(all) : both[k] = IF k <= Len(items) THEN a[k] ELSE b[k - Len(items)]
    BY <1>1, <1>2, ConcatProperties
<1> HIDE DEF whole, both, I
<1>5. ASSUME NEW k \in 1..Len(all) PROVE whole[k] = both[k]
    <2>. Len(items) \in Nat /\ Len(more) \in Nat
        OBVIOUS
    <2>1. CASE k <= Len(items)
        <3>1. k \in 1..Len(items)
            BY <1>1, <2>1
        <3>2. all[k] = items[k] /\ both[k] = a[k]
            BY <1>1, <1>4, <2>1
        <3> QED
            BY <1>2, <1>3, <3>1, <3>2
    <2>2. CASE ~(k <= Len(items))
        <3>1. k - Len(items) \in 1..Len(more)
            BY <1>1, <2>2
        <3>2. all[k] = more[k - Len(items)] /\ both[k] = b[k - Len(items)]
            BY <1>1, <1>4, <2>2
        <3> QED
            BY <1>2, <1>3, <3>1, <3>2
    <2> QED
        BY <2>1, <2>2
<1>6. whole = both
    BY <1>3, <1>4, <1>5, SeqEqual
<1> QED
    BY <1>6 DEF whole, both, all, a, b

LEMMA NumberedPrefix ==
    ASSUME NEW p \in Nat, NEW texts \in Seq(Texts),
           NEW items \in Seq(1..Len(texts)), NEW more \in Seq(1..Len(texts)), IsPrefix(items, more)
    PROVE  IsPrefix(Numbered(p, items, texts), Numbered(p, more, texts))
<1>1. Len(items) <= Len(more) /\ \A k \in 1..Len(items) : items[k] = more[k]
    BY PrefixByElements
<1> DEFINE a == Numbered(p, items, texts)
           b == Numbered(p, more, texts)
           I(k) == [part |-> p, index |-> k, text |-> texts[k]]
<1>2. /\ a \in Seq(Item) /\ Len(a) = Len(items) /\ \A k \in 1..Len(items) : a[k] = I(items[k])
      /\ b \in Seq(Item) /\ Len(b) = Len(more) /\ \A k \in 1..Len(more) : b[k] = I(more[k])
    BY NumberedTyped
<1> HIDE DEF a, b, I
<1>3. a \in Seq(Item) /\ b \in Seq(Item) /\ Len(a) <= Len(b) /\ \A k \in 1..Len(a) : a[k] = b[k]
    <2>1. \A k \in 1..Len(a) : k \in 1..Len(items) /\ k \in 1..Len(more)
        BY <1>1, <1>2
    <2> QED
        BY <1>1, <1>2, <2>1
<1>4. IsPrefix(a, b)
    BY <1>3, PrefixByElements
<1> QED
    BY <1>4 DEF a, b

(* Labels keep what batches hold.                                          *)
LEMMA LabelTyped ==
    ASSUME NEW p \in Nat, NEW texts \in Seq(Texts), NEW found \in Seq(Batch(Seq(1..Len(texts))))
    PROVE  /\ Label(found, p, texts) \in Seq(Batch(Seq(Item)))
           /\ Len(Label(found, p, texts)) = Len(found)
           /\ \A b \in 1..Len(found) :
                 /\ found[b].of \in Seq(1..Len(texts)) /\ found[b].bytes \in Nat
                 /\ Label(found, p, texts)[b] =
                       [of |-> Numbered(p, found[b].of, texts), bytes |-> found[b].bytes]
<1>1. ASSUME NEW b \in 1..Len(found)
      PROVE  /\ found[b].of \in Seq(1..Len(texts)) /\ found[b].bytes \in Nat
             /\ [of |-> Numbered(p, found[b].of, texts), bytes |-> found[b].bytes] \in Batch(Seq(Item))
    <2>1. found[b] \in Batch(Seq(1..Len(texts)))
        BY ElementOfSeq
    <2>2. found[b].of \in Seq(1..Len(texts)) /\ found[b].bytes \in Nat
        BY <2>1 DEF Batch
    <2>3. Numbered(p, found[b].of, texts) \in Seq(Item)
        BY <2>2, NumberedTyped
    <2> QED
        BY <2>2, <2>3 DEF Batch
<1> DEFINE B == Batch(Seq(Item))
<1>2. \A b \in 1..Len(found) : [of |-> Numbered(p, found[b].of, texts), bytes |-> found[b].bytes] \in B
    BY <1>1
<1> HIDE DEF B
<1>3. Label(found, p, texts) \in Seq(B) /\ Len(Label(found, p, texts)) = Len(found)
    BY <1>2 DEF Label
<1> QED
    BY <1>1, <1>3 DEF B, Label

LEMMA LabelOfAppend ==
    ASSUME NEW p \in Nat, NEW texts \in Seq(Texts),
           NEW found \in Seq(Batch(Seq(1..Len(texts)))), NEW batch \in Batch(Seq(1..Len(texts)))
    PROVE  Label(Append(found, batch), p, texts) =
              Append(Label(found, p, texts), [of |-> Numbered(p, batch.of, texts), bytes |-> batch.bytes])
<1> DEFINE more == Append(found, batch)
           B == Batch(Seq(1..Len(texts)))
           C == Batch(Seq(Item))
           last == [of |-> Numbered(p, batch.of, texts), bytes |-> batch.bytes]
           I(b) == [of |-> Numbered(p, b.of, texts), bytes |-> b.bytes]
           both == Append(Label(found, p, texts), last)
<1>1. last \in C
    BY NumberedTyped DEF Batch
<1>2. Label(found, p, texts) \in Seq(C) /\ Len(Label(found, p, texts)) = Len(found)
      /\ \A b \in 1..Len(found) : Label(found, p, texts)[b] = I(found[b])
    BY LabelTyped
<1>3. /\ more \in Seq(B) /\ Len(more) = Len(found) + 1 /\ more[Len(found) + 1] = batch
      /\ \A b \in 1..Len(found) : more[b] = found[b]
    <2>1. found \in Seq(B) /\ batch \in B
        OBVIOUS
    <2> HIDE DEF B
    <2> QED
        BY <2>1, AppendProperties
<1> HIDE DEF more
<1>4. Label(more, p, texts) \in Seq(C) /\ Len(Label(more, p, texts)) = Len(more)
      /\ \A b \in 1..Len(more) : Label(more, p, texts)[b] = I(more[b])
    BY <1>3, LabelTyped
<1>5. last = I(batch)
    OBVIOUS
<1> HIDE DEF C, last, I
<1>6. /\ both \in Seq(C) /\ Len(both) = Len(found) + 1 /\ both[Len(found) + 1] = last
      /\ \A b \in 1..Len(found) : both[b] = Label(found, p, texts)[b]
    BY <1>1, <1>2, AppendProperties
<1> HIDE DEF both
<1>7. ASSUME NEW b \in 1..Len(both) PROVE Label(more, p, texts)[b] = both[b]
    <2>1. b \in 1..Len(more)
        BY <1>3, <1>6
    <2>2. b \in 1..Len(found) \/ b = Len(found) + 1
        BY <1>3, <2>1
    <2> QED
        BY <1>2, <1>3, <1>4, <1>5, <1>6, <2>1, <2>2
<1>8. Label(more, p, texts) = both
    BY <1>3, <1>4, <1>6, <1>7, SeqEqual
<1> QED
    BY <1>8 DEF more, both, last

LEMMA LabelKeepsStatements ==
    ASSUME NEW p \in Nat, NEW texts \in Seq(Texts), NEW found \in Seq(Batch(Seq(1..Len(texts))))
    PROVE  StatementsIn(Label(found, p, texts)) = Numbered(p, StatementsIn(found), texts)
<1> DEFINE B == Batch(Seq(1..Len(texts)))
           P == {f \in Seq(B) :
                    StatementsIn(Label(f, p, texts)) = Numbered(p, StatementsIn(f), texts)}
<1>1. << >> \in P
    <2>1. Label(<< >>, p, texts) = << >> /\ Numbered(p, << >>, texts) = << >>
        BY DEF Label, Numbered
    <2> QED
        BY <2>1, StatementsInNone
<1>2. ASSUME NEW f \in Seq(B), NEW batch \in B, f \in P PROVE Append(f, batch) \in P
    <2> DEFINE last == [of |-> Numbered(p, batch.of, texts), bytes |-> batch.bytes]
               a == StatementsIn(f)
    <2>1. Append(f, batch) \in Seq(B)
        BY AppendProperties
    <2>2. batch.of \in Seq(1..Len(texts)) /\ last \in Batch(Seq(Item)) /\ last.of = Numbered(p, batch.of, texts)
        BY NumberedTyped DEF Batch
    <2>3. Label(Append(f, batch), p, texts) = Append(Label(f, p, texts), last)
        BY LabelOfAppend
    <2>4. StatementsIn(Append(Label(f, p, texts), last)) = StatementsIn(Label(f, p, texts)) \o last.of
        <3>1. Label(f, p, texts) \in Seq(Batch(Seq(Item)))
            BY LabelTyped
        <3> HIDE DEF last
        <3> QED
            BY <2>2, <3>1, StatementsInAppend
    <2>5. StatementsIn(Append(f, batch)) = a \o batch.of /\ a \in Seq(1..Len(texts))
        BY StatementsInAppend, StatementsInTyped
    <2>6. StatementsIn(Label(f, p, texts)) = Numbered(p, a, texts)
        BY <1>2
    <2> HIDE DEF a
    <2>7. Numbered(p, a \o batch.of, texts) = Numbered(p, a, texts) \o Numbered(p, batch.of, texts)
        BY <2>2, <2>5, NumberedConcat
    <2> QED
        BY <2>1, <2>2, <2>3, <2>4, <2>5, <2>6, <2>7
<1>3. Seq(B) \subseteq P
    <2> HIDE DEF P, B
    <2> QED
        BY <1>1, <1>2, SequenceInduction
<1> QED
    BY <1>3

LEMMA LabelledPlan ==
    ASSUME NEW p \in Nat, NEW texts \in Seq(Texts),
           NEW found \in Seq(Batch(Seq(1..Len(texts)))), NEW items \in Seq(1..Len(texts)),
           \A b \in 1..Len(found) : found[b].of # << >>,
           IsPrefix(StatementsIn(found), items)
    PROVE  LET batch == Label(found, p, texts) IN
              /\ batch \in Seq(Batch(Seq(Item))) /\ Len(batch) = Len(found)
              /\ \A b \in 1..Len(batch) : /\ batch[b].of # << >> /\ batch[b].of[1].part = p
                                          /\ batch[b].bytes = found[b].bytes
              /\ Numbered(p, items, texts) \in Seq(Item)
              /\ IsPrefix(StatementsIn(batch), Numbered(p, items, texts))
              /\ StatementsIn(found) = items => StatementsIn(batch) = Numbered(p, items, texts)
<1> DEFINE batch == Label(found, p, texts)
<1>1. batch \in Seq(Batch(Seq(Item))) /\ Len(batch) = Len(found)
    BY LabelTyped
<1>2. ASSUME NEW b \in 1..Len(found)
      PROVE  batch[b].of # << >> /\ batch[b].of[1].part = p /\ batch[b].bytes = found[b].bytes
    <2>1. /\ found[b].of \in Seq(1..Len(texts))
          /\ batch[b] = [of |-> Numbered(p, found[b].of, texts), bytes |-> found[b].bytes]
        BY LabelTyped
    <2> DEFINE items1 == found[b].of
    <2>2. items1 \in Seq(1..Len(texts)) /\ items1 # << >>
        BY <2>1
    <2> HIDE DEF items1
    <2>3. /\ Numbered(p, items1, texts) \in Seq(Item) /\ Len(Numbered(p, items1, texts)) = Len(items1)
          /\ 1 \in 1..Len(items1)
          /\ Numbered(p, items1, texts)[1] = [part |-> p, index |-> items1[1], text |-> texts[items1[1]]]
        BY <2>2, NumberedTyped
    <2>4. Numbered(p, items1, texts) # << >>
        BY <2>3
    <2> QED
        BY <2>1, <2>3, <2>4 DEF items1
<1>3. StatementsIn(batch) = Numbered(p, StatementsIn(found), texts)
    BY LabelKeepsStatements
<1>4. StatementsIn(found) \in Seq(1..Len(texts))
    BY StatementsInTyped
<1>5. IsPrefix(StatementsIn(batch), Numbered(p, items, texts))
    BY <1>3, <1>4, NumberedPrefix
<1>6. Numbered(p, items, texts) \in Seq(Item)
    BY NumberedTyped
<1> QED
    BY <1>1, <1>2, <1>3, <1>5, <1>6

(* What the plan of part p has to be: it holds a prefix of what is given, all*)
(* of it if it is whole, and it is not whole for a statement only.         *)
GoodPlan(i, p, plan) ==
    /\ plan.whole \in BOOLEAN
    /\ plan.batches \in Seq(Batch(Seq(Item)))
    /\ \A b \in 1..Len(plan.batches) :
          plan.batches[b].of # << >> /\ plan.batches[b].of[1].part = p
    /\ GivenBy(i, p) \in Seq(Item)
    /\ IsPrefix(StatementsIn(plan.batches), GivenBy(i, p))
    /\ plan.whole => StatementsIn(plan.batches) = GivenBy(i, p)
    /\ i.command # "csv" =>
          /\ \A b \in 1..Len(plan.batches) : plan.batches[b].bytes <= MaxText
          /\ ~plan.whole => /\ plan.batches = << >>
                            /\ \E k \in 1..Len(i.parts[p]) : Refused(i.parts[p][k])

(* The two limits of a script (sql.rs).                                    *)
LEMMA Limits == BatchTarget \in Nat /\ MaxText \in Nat /\ BatchTarget < MaxText
<1> QED
    BY ScriptAssumption

(* A statement that may be submitted may be submitted with its terminator. *)
LEMMA RenderedFits ==
    ASSUME NEW statement \in Texts, Len(statement) <= MaxText
    PROVE  Rendered(statement) <= MaxText
<1>1. Len(statement) \in Nat /\ BatchTarget \in Nat /\ MaxText \in Nat /\ BatchTarget < MaxText
    BY Limits DEF Texts
<1>2. \/ Rendered(statement) = Len(statement)
      \/ ~(Len(statement) >= BatchTarget) /\ Rendered(statement) = Len(statement) + 1 + 0
      \/ ~(Len(statement) >= BatchTarget) /\ Rendered(statement) = Len(statement) + 1 + 1
    BY DEF Rendered
<1> QED
    BY <1>1, <1>2

LEMMA RenderedTyped ==
    ASSUME NEW statement \in Texts
    PROVE  Rendered(statement) \in Nat
<1>1. Len(statement) \in Nat
    BY DEF Texts
<1>2. \/ Rendered(statement) = Len(statement)
      \/ Rendered(statement) = Len(statement) + 1 + 0
      \/ Rendered(statement) = Len(statement) + 1 + 1
    BY DEF Rendered
<1> QED
    BY <1>1, <1>2

(* The plan of a script (plan_sql_script).                                 *)
LEMMA StatementsPlan ==
    ASSUME NEW statements \in Seq(Texts), NEW p \in Nat
    PROVE  LET plan == PlanStatements(statements)
               found == plan.batches
               items == Executable(statements)
           IN  /\ plan = [batches |-> found, whole |-> plan.whole, texts |-> statements]
               /\ plan.whole \in BOOLEAN
               /\ items \in Seq(1..Len(statements))
               /\ found \in Seq(Batch(Seq(1..Len(statements))))
               /\ \A b \in 1..Len(found) : found[b].of # << >> /\ found[b].bytes <= MaxText
               /\ plan.whole => StatementsIn(found) = items
               /\ ~plan.whole => found = << >> /\ \E k \in 1..Len(statements) : Refused(statements[k])
<1> DEFINE items == Executable(statements)
           lengths == [k \in 1..Len(items) |-> Rendered(statements[items[k]])]
           all == BatchesOf(items, lengths)
           n == Len(statements)
<1>1. items \in Seq(1..n) /\ n \in Nat
    BY ExecutableTyped
<1>2. \A k \in 1..n : statements[k] \in Texts
    BY ElementOfSeq
<1>3. lengths \in [1..Len(items) -> Nat]
    BY <1>1, <1>2, RenderedTyped
<1> HIDE DEF n, items, lengths
<1>4. /\ all \in Seq(Batch(Seq(1..n))) /\ StatementsIn(all) = items
      /\ Small(all, {lengths[k] : k \in 1..Len(items)})
    BY <1>1, <1>3, BatchesHoldItems
<1>5. PlanStatements(statements) = Planned(statements, all)
    BY DEF PlanStatements, ScriptBatches, items, lengths
<1> HIDE DEF all
<1>6. ASSUME ~Fit(statements, all) PROVE \E k \in 1..n : Refused(statements[k])
    <2> SUFFICES ASSUME \A k \in 1..n : ~Refused(statements[k]) PROVE FALSE
        OBVIOUS
    <2>1. PICK b \in 1..Len(all) : ~(all[b].bytes <= MaxText)
        BY <1>6 DEF Fit, n
    <2>2. all[b].bytes < BatchTarget \/ \E k \in 1..Len(items) : all[b].bytes = lengths[k]
        BY <1>4 DEF Small
    <2>3. ASSUME NEW k \in 1..Len(items) PROVE lengths[k] <= MaxText
        <3>1. items[k] \in 1..n /\ lengths[k] = Rendered(statements[items[k]])
            BY <1>1 DEF lengths
        <3>2. statements[items[k]] \in Texts /\ ~(Len(statements[items[k]]) > MaxText)
            BY <1>2, <3>1 DEF Refused
        <3>3. Len(statements[items[k]]) <= MaxText
            BY <3>2, Limits DEF Texts
        <3> QED
            BY <3>1, <3>2, <3>3, RenderedFits
    <2>4. all[b].bytes \in Nat
        <3>1. all[b] \in Batch(Seq(1..n))
            BY <1>4, ElementOfSeq
        <3> QED
            BY <3>1 DEF Batch
    <2> QED
        BY <2>1, <2>2, <2>3, <2>4, Limits
<1>7. CASE Fit(statements, all)
    <2>1. Planned(statements, all) = [batches |-> all, whole |-> TRUE, texts |-> statements]
        BY <1>7 DEF Planned
    <2>2. \A b \in 1..Len(all) : all[b].of # << >> /\ all[b].bytes <= MaxText
        BY <1>4, <1>7 DEF Small, Fit
    <2> QED
        BY <1>1, <1>4, <1>5, <2>1, <2>2 DEF items, n
<1>8. CASE ~Fit(statements, all)
    <2>1. Planned(statements, all) = [batches |-> << >>, whole |-> FALSE, texts |-> statements]
        BY <1>8 DEF Planned, Fit
    <2>2. << >> \in Seq(Batch(Seq(1..n))) /\ Len(<< >>) = 0
        BY EmptySeq
    <2> QED
        BY <1>1, <1>5, <1>6, <1>8, <2>1, <2>2 DEF items, n
<1> QED
    BY <1>7, <1>8

(* A set of numbers that is not empty has a smallest one.                  *)
LEMMA MinOfNumbers ==
    ASSUME NEW S, S \subseteq Nat, S # {}
    PROVE  Min(S) \in S /\ \A n \in S : Min(S) <= n
<1>1. \E m \in S : \A n \in S : m <= n
    <2> SUFFICES ASSUME \A m \in S : \E n \in S : n < m PROVE FALSE
        OBVIOUS
    <2> DEFINE P == {k \in Nat : \A n \in S : k <= n}
    <2>1. ASSUME NEW k \in Nat, k \in P PROVE k + 1 \in P
        <3> SUFFICES ASSUME NEW n \in S, ~(k + 1 <= n) PROVE FALSE
            OBVIOUS
        <3>1. n \in Nat /\ k <= n /\ \E l \in S : l < n
            BY <2>1
        <3>2. n = k
            BY <3>1
        <3>3. PICK l \in S : l < k
            BY <3>1, <3>2
        <3>4. l \in Nat /\ k <= l
            BY <2>1
        <3> QED
            BY <3>3, <3>4
    <2>2. Nat \subseteq P
        <3>1. 0 \in P
            OBVIOUS
        <3> HIDE DEF P
        <3> QED
            BY <2>1, <3>1, SetInduction
    <2>3. PICK n \in S : TRUE
        OBVIOUS
    <2>4. n + 1 \in P
        BY <2>2
    <2> QED
        BY <2>4
<1> QED
    BY <1>1 DEF Min

(* The inserts of a CSV file are texts.                                    *)
LEMMA TextsClosed ==
    /\ <<"insert">> \in Texts /\ <<",">> \in Texts /\ <<";">> \in Texts
    /\ <<"'">> \in Texts /\ <<"'", "'">> \in Texts
    /\ \A a \in Characters : <<a>> \in Texts
    /\ \A s, t \in Texts : s \o t \in Texts
<1>1. {"insert", ",", ";", "'"} \subseteq Characters
    BY ScriptAssumption DEF Marks, Opening
<1>2. \A s, t \in Seq(Characters) : s \o t \in Seq(Characters)
    BY ConcatProperties
<1>3. \A a \in Characters : <<a>> \in Seq(Characters)
    OBVIOUS
<1>4. \A a, b \in Characters : <<a, b>> \in Seq(Characters)
    OBVIOUS
<1> QED
    BY <1>1, <1>2, <1>3, <1>4 DEF Texts

LEMMA InsertTyped ==
    ASSUME NEW row \in Seq(Texts)
    PROVE  InsertOf(row) \in Texts
<1> DEFINE escaped(field) == [c \in 1..Len(field) |->
                                IF field[c] = "'" THEN <<"'", "'">> ELSE <<field[c]>>]
           literal(field) == <<"'">> \o FlattenSeq(escaped(field)) \o <<"'">>
           value(k) == IF k = 1 THEN literal(row[k]) ELSE <<",">> \o literal(row[k])
           values == [k \in 1..Len(row) |-> value(k)]
<1>1. ASSUME NEW field \in Texts PROVE literal(field) \in Texts
    <2> DEFINE T == Seq(Characters)
    <2>1. \A c \in 1..Len(field) : (IF field[c] = "'" THEN <<"'", "'">> ELSE <<field[c]>>) \in T
        <3>1. \A c \in 1..Len(field) : field[c] \in Characters
            BY ElementOfSeq DEF Texts
        <3> QED
            BY <3>1, TextsClosed DEF Texts
    <2>2. Len(field) \in Nat
        BY DEF Texts
    <2>3. escaped(field) \in Seq(T)
        <3> HIDE DEF T
        <3> QED
            BY <2>1, <2>2
    <2>4. FlattenSeq(escaped(field)) \in Seq(Characters)
        BY <2>3, FlattenInto
    <2>5. FlattenSeq(escaped(field)) \in Texts /\ <<"'">> \in Texts
        BY <2>4, TextsClosed DEF Texts
    <2> DEFINE flat == FlattenSeq(escaped(field))
    <2> HIDE DEF flat
    <2>6. <<"'">> \o flat \in Texts
        BY <2>5, TextsClosed DEF flat
    <2>7. (<<"'">> \o flat) \o <<"'">> \in Texts
        BY <2>5, <2>6, TextsClosed
    <2> QED
        BY <2>7 DEF flat
<1> HIDE DEF literal
<1>2. values \in Seq(Texts)
    <2>1. \A k \in 1..Len(row) : literal(row[k]) \in Texts
        BY <1>1, ElementOfSeq
    <2>2. \A k \in 1..Len(row) : <<",">> \o literal(row[k]) \in Texts
        <3>1. <<",">> \in Texts
            BY TextsClosed
        <3> QED
            BY <2>1, <3>1, TextsClosed
    <2>3. \A k \in 1..Len(row) : value(k) \in Texts
        BY <2>1, <2>2
    <2> HIDE DEF value
    <2> QED
        BY <2>3
<1>3. FlattenSeq(values) \in Texts
    BY <1>2, FlattenInto DEF Texts
<1> HIDE DEF values
<1>4. <<"insert">> \o FlattenSeq(values) \o <<";">> \in Texts
    <2> DEFINE flat == FlattenSeq(values)
    <2> HIDE DEF flat
    <2>1. <<"insert">> \in Texts /\ <<";">> \in Texts /\ flat \in Texts
        BY <1>3, TextsClosed DEF flat
    <2>2. <<"insert">> \o flat \in Texts
        BY <2>1, TextsClosed
    <2>3. (<<"insert">> \o flat) \o <<";">> \in Texts
        BY <2>1, <2>2, TextsClosed
    <2> QED
        BY <2>3 DEF flat
<1>5. InsertOf(row) = <<"insert">> \o FlattenSeq(values) \o <<";">>
    BY DEF InsertOf, values, value, literal
<1> QED
    BY <1>4, <1>5

(* The plan of a CSV file (import_csv_with_ou).                            *)
LEMMA InsertsPlan ==
    ASSUME NEW inserts \in Seq(Texts)
    PROVE  LET plan == PlanInserts(inserts)
               found == plan.batches
           IN  /\ plan = [batches |-> found, whole |-> plan.whole, texts |-> inserts]
               /\ plan.whole \in BOOLEAN
               /\ AllOf(inserts) \in Seq(1..Len(inserts))
               /\ found \in Seq(Batch(Seq(1..Len(inserts))))
               /\ \A b \in 1..Len(found) : found[b].of # << >>
               /\ IsPrefix(StatementsIn(found), AllOf(inserts))
               /\ plan.whole => StatementsIn(found) = AllOf(inserts)
<1> DEFINE n == Len(inserts)
           large == {i \in 1..n : Len(inserts[i]) > MaxText}
           m == IF large = {} THEN n ELSE Min(large) - 1
           fit == [i \in 1..m |-> i]
           lengths == [k \in 1..Len(fit) |-> Len(inserts[k]) + 1]
           all == BatchesOf(fit, lengths)
<1>1. n \in Nat /\ m \in 0..n
    <2>1. CASE large = {}
        BY <2>1
    <2>2. CASE large # {}
        <3>1. Min(large) \in large
            <4>1. large \subseteq Nat
                OBVIOUS
            <4> HIDE DEF large
            <4> QED
                BY <2>2, <4>1, MinOfNumbers
        <3> QED
            BY <2>2, <3>1
    <2> QED
        BY <2>1, <2>2
<1>2. large = {} => m = n
    OBVIOUS
<1>3. PlanInserts(inserts) = [batches |-> IF large = {} THEN all ELSE AllButLast(all),
                              whole |-> large = {}, texts |-> inserts]
    BY DEF PlanInserts
<1> HIDE DEF m, large
<1>4. fit \in Seq(1..n) /\ Len(fit) = m /\ AllOf(inserts) \in Seq(1..n) /\ Len(AllOf(inserts)) = n
    BY <1>1 DEF AllOf
<1>5. lengths \in [1..Len(fit) -> Nat]
    <2>1. \A k \in 1..n : Len(inserts[k]) \in Nat
        BY ElementOfSeq DEF Texts
    <2> QED
        BY <1>1, <1>4, <2>1
<1>6. IsPrefix(fit, AllOf(inserts)) /\ (m = n => fit = AllOf(inserts))
    <2>1. \A k \in 1..m : fit[k] = k /\ AllOf(inserts)[k] = k
        BY <1>1 DEF AllOf
    <2>2. m = n => fit = AllOf(inserts)
        BY DEF AllOf
    <2>3. IsPrefix(fit, AllOf(inserts))
        <3> HIDE DEF fit
        <3> QED
            BY <1>1, <1>4, <2>1, PrefixByElements
    <2> QED
        BY <2>2, <2>3
<1> HIDE DEF n, fit, lengths
<1>7. /\ all \in Seq(Batch(Seq(1..n))) /\ StatementsIn(all) = fit
      /\ \A b \in 1..Len(all) : all[b].of # << >>
    BY <1>4, <1>5, BatchesHoldItems DEF Small
<1> HIDE DEF all
<1>8. CASE large = {}
    <2>1. PlanInserts(inserts) = [batches |-> all, whole |-> TRUE, texts |-> inserts]
        BY <1>3, <1>8
    <2> QED
        BY <1>2, <1>4, <1>6, <1>7, <1>8, <2>1 DEF n
<1>9. CASE large # {}
    <2> DEFINE some == AllButLast(all)
    <2>1. PlanInserts(inserts) = [batches |-> some, whole |-> FALSE, texts |-> inserts]
        BY <1>3, <1>9
    <2>2. /\ some \in Seq(Batch(Seq(1..n))) /\ IsPrefix(StatementsIn(some), StatementsIn(all))
          /\ \A b \in 1..Len(some) : some[b].of # << >>
        <3>1. Len(all) \in Nat /\ (all # << >> => Len(all) - 1 \in 0..Len(all))
            BY <1>7, EmptySeq
        <3>2. some = SubSeq(all, 1, IF all = << >> THEN 0 ELSE Len(all) - 1)
            BY <1>7, SubSeqEmpty DEF AllButLast, Front
        <3> DEFINE k == IF all = << >> THEN 0 ELSE Len(all) - 1
        <3>3. k \in 0..Len(all)
            BY <3>1
        <3> HIDE DEF k, some
        <3>4. some = SubSeq(all, 1, k)
            BY <3>2 DEF k
        <3>5. /\ some \in Seq(Batch(Seq(1..n))) /\ IsPrefix(StatementsIn(some), StatementsIn(all))
            BY <1>7, <3>3, <3>4, StatementsInPrefix
        <3>6. Len(some) = k /\ \A b \in 1..k : some[b] = all[b]
            BY <1>7, <3>3, <3>4, SubSeqProperties
        <3> QED
            BY <1>7, <3>3, <3>5, <3>6
    <2> HIDE DEF some
    <2>3. IsPrefix(StatementsIn(some), AllOf(inserts))
        BY <1>4, <1>6, <1>7, <2>2, StatementsInTyped, PrefixTransitive
    <2> QED
        BY <1>4, <2>1, <2>2, <2>3 DEF n
<1> QED
    BY <1>8, <1>9

(* The plan of the write smoke (run_verify_write_smoke).                   *)
LEMMA SmokePlan ==
    ASSUME NEW statements \in Seq(Texts), \A k \in 1..Len(statements) : Len(statements[k]) <= MaxText
    PROVE  LET plan == PlanSmoke(statements)
               found == plan.batches
           IN  /\ plan = [batches |-> found, whole |-> TRUE, texts |-> statements]
               /\ AllOf(statements) \in Seq(1..Len(statements))
               /\ found \in Seq(Batch(Seq(1..Len(statements)))) /\ Len(found) = Len(statements)
               /\ \A b \in 1..Len(found) : found[b].of # << >> /\ found[b].bytes <= MaxText
               /\ StatementsIn(found) = AllOf(statements)
<1> DEFINE n == Len(statements)
           B == Batch(Seq(1..n))
           single(i) == [of |-> <<i>>, bytes |-> Len(statements[i])]
           found == [i \in 1..n |-> single(i)]
<1>1. n \in Nat /\ AllOf(statements) \in Seq(1..n)
    BY DEF AllOf
<1>2. \A i \in 1..n : /\ single(i) \in B /\ single(i).of = <<i>> /\ single(i).of # << >>
                      /\ single(i).bytes <= MaxText
    <2>1. \A i \in 1..n : Len(statements[i]) \in Nat
        BY ElementOfSeq DEF Texts
    <2>2. \A i \in 1..n : <<i>> \in Seq(1..n)
        BY <1>1
    <2> QED
        BY <2>1, <2>2 DEF Batch
<1>3. PlanSmoke(statements) = [batches |-> found, whole |-> TRUE, texts |-> statements]
    BY DEF PlanSmoke
<1> HIDE DEF single, n, B
<1>4. found \in Seq(B) /\ Len(found) = n /\ \A i \in 1..n : found[i] = single(i)
    BY <1>1, <1>2
<1> HIDE DEF found
<1>5. StatementsIn(found) = AllOf(statements)
    <2> DEFINE P == {k \in Nat : k <= n => StatementsIn(SubSeq(found, 1, k)) = [i \in 1..k |-> i]}
    <2>1. 0 \in P
        <3>1. SubSeq(found, 1, 0) = << >> /\ [i \in 1..0 |-> i] = << >>
            BY SubSeqEmpty
        <3> QED
            BY <3>1, StatementsInNone
    <2>2. ASSUME NEW k \in Nat, k \in P PROVE k + 1 \in P
        <3> SUFFICES ASSUME k + 1 <= n
                     PROVE  StatementsIn(SubSeq(found, 1, k + 1)) = [i \in 1..k + 1 |-> i]
            OBVIOUS
        <3> DEFINE first == SubSeq(found, 1, k)
        <3>1. k + 1 \in 1..n /\ k \in 0..Len(found) /\ StatementsIn(first) = [i \in 1..k |-> i]
            BY <1>1, <1>4, <2>2
        <3>2. first \in Seq(B) /\ SubSeq(found, 1, k + 1) = Append(first, single(k + 1))
            BY <1>4, <3>1, SubSeqProperties, SubSeqRecursiveSecond
        <3> DEFINE one == single(k + 1)
        <3>5. one \in B /\ one.of = <<k + 1>>
            BY <1>2, <3>1
        <3> HIDE DEF first, one
        <3>6. StatementsIn(Append(first, one)) = StatementsIn(first) \o one.of
            BY <3>2, <3>5, StatementsInAppend DEF B
        <3>3. StatementsIn(Append(first, single(k + 1))) = [i \in 1..k |-> i] \o <<k + 1>>
            BY <3>1, <3>5, <3>6 DEF one
        <3>4. [i \in 1..k |-> i] \o <<k + 1>> = [i \in 1..k + 1 |-> i]
            OBVIOUS
        <3> QED
            BY <3>2, <3>3, <3>4
    <2>3. n \in P
        <3> HIDE DEF P
        <3> QED
            BY <1>1, <2>1, <2>2, SetInduction
    <2>4. SubSeq(found, 1, n) = found
        BY <1>4, SubSeqFull
    <2>5. n <= n
        BY <1>1
    <2>6. StatementsIn(found) = [i \in 1..n |-> i]
        BY <2>3, <2>4, <2>5
    <2> QED
        BY <2>6 DEF AllOf, n
<1> QED
    BY <1>1, <1>2, <1>3, <1>4, <1>5 DEF n, B

-----------------------------------------------------------------------------
(* A CSV file, character by character.                                     *)

(* What the reader of a CSV file has read: whole rows, whole fields of the *)
(* next row, and a part of its next field, quoted or not.                  *)
Reading(rows, row, field, quoted) ==
    [rows |-> rows, row |-> row, field |-> field, quoted |-> quoted, two |-> FALSE]

Rows == Seq(Seq(Texts))
CsvStates == [rows : Rows, row : Seq(Texts), field : Texts, quoted : BOOLEAN, two : BOOLEAN]

(* No character takes the reader out of these states.                      *)
LEMMA CsvStepTyped ==
    ASSUME NEW text \in Texts, NEW i \in 1..Len(text), NEW read \in CsvStates
    PROVE  CsvStep(text, i, read) \in CsvStates
<1> DEFINE T == Texts
           R == Seq(T)
<1>1. \A c \in Characters : Append(read.field, c) \in T
    BY AppendProperties DEF CsvStates, Texts
<1>2. text[i] \in Characters /\ "\"" \in Characters /\ << >> \in T
    <2>1. text[i] \in Characters
        BY ElementOfSeq DEF Texts
    <2> QED
        BY <2>1, ScriptAssumption, EmptySeq DEF Marks, Opening, Texts
<1> HIDE DEF T
<1>3. /\ read.rows \in Seq(R) /\ read.row \in R /\ read.field \in T
      /\ read.quoted \in BOOLEAN /\ read.two \in BOOLEAN
      /\ read = [rows |-> read.rows, row |-> read.row, field |-> read.field,
                 quoted |-> read.quoted, two |-> read.two]
    BY DEF CsvStates, Rows, T
<1>4. Append(read.row, read.field) \in R /\ << >> \in R
    BY <1>3, AppendProperties, EmptySeq
<1> HIDE DEF R
<1>5. Append(read.rows, Append(read.row, read.field)) \in Seq(R)
    BY <1>3, <1>4, AppendProperties
<1>6. CsvStates = [rows : Seq(R), row : R, field : T, quoted : BOOLEAN, two : BOOLEAN]
    BY DEF CsvStates, Rows, T, R
<1>7. \A c \in Characters : Put(read, c) \in CsvStates /\ [Put(read, c) EXCEPT !.two = TRUE] \in CsvStates
    BY <1>1, <1>3, <1>6 DEF Put
<1>8. EndField(read) \in CsvStates /\ EndRow(read) \in CsvStates
    BY <1>2, <1>3, <1>4, <1>5, <1>6 DEF EndField, EndRow
<1>9. /\ [read EXCEPT !.two = FALSE] \in CsvStates
      /\ \A q \in BOOLEAN : [read EXCEPT !.quoted = q] \in CsvStates
    BY <1>3, <1>6
<1> QED
    BY <1>2, <1>7, <1>8, <1>9 DEF CsvStep

(* The reader takes the characters of a text one by one.                   *)
LEMMA CsvReadSteps ==
    ASSUME NEW text \in Texts
    PROVE  /\ CsvRead(text)[0] = CsvStart
           /\ \A k \in 1..Len(text) :
                 CsvRead(text)[k] = CsvStep(text, k, CsvRead(text)[k - 1])
<1> DEFINE n == Len(text)
           T == CsvStates
           E(h) == [k \in 0..n |-> IF k = 0 THEN CsvStart ELSE CsvStep(text, k, h[k - 1])]
           step == [k \in 1..n |-> [x \in T |-> CsvStep(text, k, x)]]
           kept == CHOOSE h : h = E(h)
<1>1. n \in Nat
    BY LenProperties DEF Texts
<1>2. CsvStart \in T
    <2>1. << >> \in Rows /\ << >> \in Seq(Texts) /\ << >> \in Texts
        BY EmptySeq DEF Rows, Texts
    <2> QED
        BY <2>1 DEF CsvStart, CsvStates
<1>3. step \in [1..n -> [T -> T]]
    <2>1. \A k \in 1..n : \A x \in T : CsvStep(text, k, x) \in T
        BY CsvStepTyped
    <2> HIDE DEF T
    <2> QED
        BY <2>1
<1>4. PICK g \in [0..n -> T] : Recurs(g, n, CsvStart, step)
    <2> HIDE DEF n, T, step
    <2> QED
        BY <1>1, <1>2, <1>3, RecursiveFunction
<1>5. g = E(g)
    <2>1. ASSUME NEW k \in 1..n PROVE g[k] = CsvStep(text, k, g[k - 1])
        <3>1. k - 1 \in 0..n
            BY <1>1
        <3>2. g[k] = step[k][g[k - 1]] /\ g[k - 1] \in T
            BY <1>4, <3>1 DEF Recurs
        <3> HIDE DEF T
        <3> QED
            BY <3>2
    <2>2. \A k \in 0..n : k # 0 => k \in 1..n
        BY <1>1
    <2>3. g[0] = CsvStart
        BY <1>4 DEF Recurs
    <2> HIDE DEF T
    <2> QED
        BY <2>1, <2>2, <2>3
<1>6. kept = E(kept)
    <2> HIDE DEF E
    <2> QED
        BY <1>5
<1>7. CsvRead(text) = kept
    BY DEF CsvRead
<1> HIDE DEF kept
<1>8. kept[0] = CsvStart /\ \A k \in 1..n : kept[k] = CsvStep(text, k, kept[k - 1])
    <2>1. 0 \in 0..n /\ \A k \in 1..n : k \in 0..n /\ k # 0
        BY <1>1
    <2> QED
        BY <1>6, <2>1
<1> QED
    BY <1>7, <1>8

(* s stands in a text after o characters; it may be in two parts.          *)
Occurs(text, o, s) == o + Len(s) <= Len(text) /\ \A k \in 1..Len(s) : text[o + k] = s[k]

LEMMA OccursConcat ==
    ASSUME NEW text \in Texts, NEW o \in 0..Len(text), NEW s \in Texts, NEW t \in Texts,
           Occurs(text, o, s \o t)
    PROVE  /\ Occurs(text, o, s) /\ Occurs(text, o + Len(s), t)
           /\ o + Len(s) \in 0..Len(text) /\ Len(s \o t) = Len(s) + Len(t)
<1>1. /\ Len(s) \in Nat /\ Len(t) \in Nat /\ Len(text) \in Nat /\ Len(s \o t) = Len(s) + Len(t)
      /\ \A k \in 1..Len(s) : (s \o t)[k] = s[k]
      /\ \A k \in 1..Len(t) : (s \o t)[Len(s) + k] = t[k]
    BY DEF Texts
<1>2. Occurs(text, o, s)
    BY <1>1 DEF Occurs
<1>3. o + Len(s) \in 0..Len(text)
    BY <1>1, <1>2 DEF Occurs
<1>4. \A k \in 1..Len(t) : text[(o + Len(s)) + k] = t[k]
    <2> TAKE k \in 1..Len(t)
    <2>1. Len(s) + k \in 1..Len(s \o t) /\ o + (Len(s) + k) = (o + Len(s)) + k
        BY <1>1
    <2>2. text[o + (Len(s) + k)] = (s \o t)[Len(s) + k]
        BY <2>1 DEF Occurs
    <2> QED
        BY <1>1, <2>1, <2>2
<1>5. (o + Len(s)) + Len(t) <= Len(text)
    BY <1>1 DEF Occurs
<1> QED
    BY <1>1, <1>2, <1>3, <1>4, <1>5 DEF Occurs

(* Wherever s stands in a text, the reader gets from a to b through it.    *)
Leads(s, a, b) ==
    \A text \in Texts : \A o \in 0..Len(text) :
        Occurs(text, o, s) /\ CsvRead(text)[o] = a => CsvRead(text)[o + Len(s)] = b

(* What leads from one state to another can be put together.               *)
LEMMA LeadsNowhere == \A a : Leads(<< >>, a, a)
<1> SUFFICES ASSUME NEW a, NEW text \in Texts, NEW o \in 0..Len(text), CsvRead(text)[o] = a
             PROVE  CsvRead(text)[o + 0] = a
    BY DEF Leads
<1> QED
    OBVIOUS

LEMMA LeadsConcat ==
    ASSUME NEW s \in Texts, NEW t \in Texts, NEW a, NEW b, NEW c, Leads(s, a, b), Leads(t, b, c)
    PROVE  Leads(s \o t, a, c)
<1> SUFFICES ASSUME NEW text \in Texts, NEW o \in 0..Len(text), Occurs(text, o, s \o t),
                    CsvRead(text)[o] = a
             PROVE  CsvRead(text)[o + Len(s \o t)] = c
    BY DEF Leads
<1>1. /\ Occurs(text, o, s) /\ Occurs(text, o + Len(s), t)
      /\ o + Len(s) \in 0..Len(text) /\ Len(s \o t) = Len(s) + Len(t)
    BY OccursConcat
<1>2. CsvRead(text)[o + Len(s)] = b
    BY <1>1 DEF Leads
<1>3. CsvRead(text)[(o + Len(s)) + Len(t)] = c
    BY <1>1, <1>2 DEF Leads
<1>4. Len(s) \in Nat /\ Len(t) \in Nat /\ o \in Nat
    BY DEF Texts
<1> QED
    BY <1>1, <1>3, <1>4

(* A character outside quotes, a character within quotes, and the quote    *)
(* that opens: what follows does not matter.                               *)
LEMMA LeadsByOne ==
    ASSUME NEW char \in Characters, NEW a, NEW b,
           \A text \in Texts : \A i \in 1..Len(text) : text[i] = char => CsvStep(text, i, a) = b
    PROVE  Leads(<<char>>, a, b)
<1> SUFFICES ASSUME NEW text \in Texts, NEW o \in 0..Len(text), Occurs(text, o, <<char>>),
                    CsvRead(text)[o] = a
             PROVE  CsvRead(text)[o + 1] = b
    BY DEF Leads
<1>1. o + 1 \in 1..Len(text) /\ (o + 1) - 1 = o /\ text[o + 1] = char
    <2>1. Len(text) \in Nat /\ Len(<<char>>) = 1 /\ <<char>>[1] = char
        BY DEF Texts
    <2> QED
        BY <2>1 DEF Occurs
<1> QED
    BY <1>1, CsvReadSteps

(* Two characters of which the first is a quote within quotes.             *)
LEMMA LeadsByTwo ==
    ASSUME NEW c1 \in Characters, NEW c2 \in Characters, NEW a, NEW b, NEW c,
           \A text \in Texts : \A i \in 1..Len(text) :
              text[i] = c1 /\ Peek(text, i) = c2 => CsvStep(text, i, a) = b,
           \A text \in Texts : \A i \in 1..Len(text) : text[i] = c2 => CsvStep(text, i, b) = c
    PROVE  Leads(<<c1, c2>>, a, c)
<1> SUFFICES ASSUME NEW text \in Texts, NEW o \in 0..Len(text), Occurs(text, o, <<c1, c2>>),
                    CsvRead(text)[o] = a
             PROVE  CsvRead(text)[o + 2] = c
    BY DEF Leads
<1>1. /\ o + 1 \in 1..Len(text) /\ (o + 1) - 1 = o /\ text[o + 1] = c1
      /\ o + 2 \in 1..Len(text) /\ (o + 2) - 1 = o + 1 /\ text[o + 2] = c2
      /\ Peek(text, o + 1) = c2
    <2>1. Len(text) \in Nat /\ Len(<<c1, c2>>) = 2 /\ <<c1, c2>>[1] = c1 /\ <<c1, c2>>[2] = c2
        BY DEF Texts
    <2>2. o + 2 <= Len(text) /\ text[o + 1] = c1 /\ text[o + 2] = c2
        BY <2>1 DEF Occurs
    <2> QED
        BY <2>1, <2>2 DEF Peek
<1>2. CsvRead(text)[o + 1] = b
    BY <1>1, CsvReadSteps
<1> QED
    BY <1>1, <1>2, CsvReadSteps

CsvMarks == {",", "\"", "\n"}

(* What each character does to what has been read.                         *)
LEMMA LeadsByChar ==
    ASSUME NEW rows, NEW row, NEW field \in Texts, NEW char \in Characters
    PROVE  /\ char \notin CsvMarks =>
                 Leads(<<char>>, Reading(rows, row, field, FALSE),
                                 Reading(rows, row, Append(field, char), FALSE))
           /\ char # "\"" =>
                 Leads(<<char>>, Reading(rows, row, field, TRUE),
                                 Reading(rows, row, Append(field, char), TRUE))
           /\ Leads(<<"\"">>, Reading(rows, row, << >>, FALSE), Reading(rows, row, << >>, TRUE))
           /\ Leads(<<",">>, Reading(rows, row, field, FALSE),
                             Reading(rows, Append(row, field), << >>, FALSE))
           /\ Leads(<<"\n">>, Reading(rows, row, field, FALSE),
                              Reading(Append(rows, Append(row, field)), << >>, << >>, FALSE))
<1>1. CsvMarks \subseteq Characters
    BY ScriptAssumption DEF Marks, Opening, CsvMarks
<1>2. ASSUME char \notin CsvMarks
      PROVE  Leads(<<char>>, Reading(rows, row, field, FALSE),
                             Reading(rows, row, Append(field, char), FALSE))
    <2>1. \A text \in Texts : \A i \in 1..Len(text) :
              text[i] = char => CsvStep(text, i, Reading(rows, row, field, FALSE))
                                = Reading(rows, row, Append(field, char), FALSE)
        BY <1>2 DEF CsvStep, Reading, Put, CsvMarks
    <2> QED
        BY <2>1, LeadsByOne
<1>3. ASSUME char # "\""
      PROVE  Leads(<<char>>, Reading(rows, row, field, TRUE),
                             Reading(rows, row, Append(field, char), TRUE))
    <2>1. \A text \in Texts : \A i \in 1..Len(text) :
              text[i] = char => CsvStep(text, i, Reading(rows, row, field, TRUE))
                                = Reading(rows, row, Append(field, char), TRUE)
        BY <1>3 DEF CsvStep, Reading, Put
    <2> QED
        BY <2>1, LeadsByOne
<1>4. Leads(<<"\"">>, Reading(rows, row, << >>, FALSE), Reading(rows, row, << >>, TRUE))
    <2>1. \A text \in Texts : \A i \in 1..Len(text) :
              text[i] = "\"" => CsvStep(text, i, Reading(rows, row, << >>, FALSE))
                                = Reading(rows, row, << >>, TRUE)
        BY DEF CsvStep, Reading
    <2> QED
        BY <1>1, <2>1, LeadsByOne DEF CsvMarks
<1>5. Leads(<<",">>, Reading(rows, row, field, FALSE),
                     Reading(rows, Append(row, field), << >>, FALSE))
    <2>1. \A text \in Texts : \A i \in 1..Len(text) :
              text[i] = "," => CsvStep(text, i, Reading(rows, row, field, FALSE))
                               = Reading(rows, Append(row, field), << >>, FALSE)
        BY DEF CsvStep, Reading, EndField
    <2> QED
        BY <1>1, <2>1, LeadsByOne DEF CsvMarks
<1>6. Leads(<<"\n">>, Reading(rows, row, field, FALSE),
                      Reading(Append(rows, Append(row, field)), << >>, << >>, FALSE))
    <2>1. \A text \in Texts : \A i \in 1..Len(text) :
              text[i] = "\n" => CsvStep(text, i, Reading(rows, row, field, FALSE))
                                = Reading(Append(rows, Append(row, field)), << >>, << >>, FALSE)
        BY DEF CsvStep, Reading, EndRow
    <2> QED
        BY <1>1, <2>1, LeadsByOne DEF CsvMarks
<1> QED
    BY <1>2, <1>3, <1>4, <1>5, <1>6

(* A doubled quote within quotes, and the quote that closes with the mark  *)
(* after it.                                                               *)
LEMMA LeadsByQuote ==
    ASSUME NEW rows, NEW row, NEW field \in Texts
    PROVE  /\ Leads(<<"\"", "\"">>, Reading(rows, row, field, TRUE),
                                    Reading(rows, row, Append(field, "\""), TRUE))
           /\ Leads(<<"\"", ",">>, Reading(rows, row, field, TRUE),
                                   Reading(rows, Append(row, field), << >>, FALSE))
           /\ Leads(<<"\"", "\n">>, Reading(rows, row, field, TRUE),
                                    Reading(Append(rows, Append(row, field)), << >>, << >>, FALSE))
<1>1. "\"" \in Characters /\ "," \in Characters /\ "\n" \in Characters
    BY ScriptAssumption DEF Marks, Opening
<1>2. Leads(<<"\"", "\"">>, Reading(rows, row, field, TRUE),
                            Reading(rows, row, Append(field, "\""), TRUE))
    <2> DEFINE between == [rows |-> rows, row |-> row, field |-> Append(field, "\""),
                           quoted |-> TRUE, two |-> TRUE]
    <2>1. \A text \in Texts : \A i \in 1..Len(text) :
              text[i] = "\"" /\ Peek(text, i) = "\"" =>
                  CsvStep(text, i, Reading(rows, row, field, TRUE)) = between
        BY DEF CsvStep, Reading, Put
    <2>2. \A text \in Texts : \A i \in 1..Len(text) :
              text[i] = "\"" => CsvStep(text, i, between)
                                = Reading(rows, row, Append(field, "\""), TRUE)
        BY DEF CsvStep, Reading
    <2> HIDE DEF between
    <2> QED
        BY <1>1, <2>1, <2>2, LeadsByTwo
<1>3. ASSUME NEW mark \in {",", "\n"}
      PROVE  \A text \in Texts : \A i \in 1..Len(text) :
                 text[i] = "\"" /\ Peek(text, i) = mark =>
                     CsvStep(text, i, Reading(rows, row, field, TRUE))
                     = Reading(rows, row, field, FALSE)
    BY DEF CsvStep, Reading
<1>4. Leads(<<"\"", ",">>, Reading(rows, row, field, TRUE),
                           Reading(rows, Append(row, field), << >>, FALSE))
    <2>1. \A text \in Texts : \A i \in 1..Len(text) :
              text[i] = "," => CsvStep(text, i, Reading(rows, row, field, FALSE))
                               = Reading(rows, Append(row, field), << >>, FALSE)
        BY DEF CsvStep, Reading, EndField
    <2> QED
        BY <1>1, <1>3, <2>1, LeadsByTwo
<1>5. Leads(<<"\"", "\n">>, Reading(rows, row, field, TRUE),
                            Reading(Append(rows, Append(row, field)), << >>, << >>, FALSE))
    <2>1. \A text \in Texts : \A i \in 1..Len(text) :
              text[i] = "\n" => CsvStep(text, i, Reading(rows, row, field, FALSE))
                                = Reading(Append(rows, Append(row, field)), << >>, << >>, FALSE)
        BY DEF CsvStep, Reading, EndRow
    <2> QED
        BY <1>1, <1>3, <2>1, LeadsByTwo
<1> QED
    BY <1>2, <1>4, <1>5

(* A sequence that is another one and one element more.                    *)
LEMMA AppendByElements ==
    ASSUME NEW T, NEW m \in Seq(T), NEW y \in T, NEW n \in Seq(T), Len(n) = Len(m) + 1,
           \A k \in 1..Len(m) : n[k] = m[k], n[Len(m) + 1] = y
    PROVE  n = Append(m, y)
<1>1. /\ Append(m, y) \in Seq(T) /\ Len(m) \in Nat /\ Len(Append(m, y)) = Len(m) + 1
      /\ Append(m, y)[Len(m) + 1] = y /\ \A k \in 1..Len(m) : Append(m, y)[k] = m[k]
    BY AppendProperties
<1>2. \A k \in 1..Len(n) : n[k] = Append(m, y)[k]
    <2> TAKE k \in 1..Len(n)
    <2>1. k \in 1..Len(m) \/ k = Len(m) + 1
        BY <1>1
    <2> QED
        BY <1>1, <2>1
<1> QED
    BY <1>1, <1>2, SeqEqual

(* A field that needs no quotes, and what stands between the quotes of one *)
(* that does.                                                              *)
LEMMA LeadsPlain ==
    ASSUME NEW rows, NEW row
    PROVE  \A field \in Texts :
              (\A c \in 1..Len(field) : field[c] \notin CsvMarks) =>
                  Leads(field, Reading(rows, row, << >>, FALSE), Reading(rows, row, field, FALSE))
<1> DEFINE P == {field \in Texts : (\A c \in 1..Len(field) : field[c] \notin CsvMarks) =>
                     Leads(field, Reading(rows, row, << >>, FALSE), Reading(rows, row, field, FALSE))}
<1>1. << >> \in P
    BY LeadsNowhere, EmptySeq DEF Texts
<1>2. ASSUME NEW s \in Seq(Characters), NEW e \in Characters, s \in P
      PROVE  Append(s, e) \in P
    <2>1. Append(s, e) \in Texts /\ Append(s, e) = s \o <<e>> /\ <<e>> \in Texts /\ s \in Texts
        BY AppendProperties DEF Texts
    <2> SUFFICES ASSUME \A c \in 1..Len(Append(s, e)) : Append(s, e)[c] \notin CsvMarks
                 PROVE  Leads(s \o <<e>>, Reading(rows, row, << >>, FALSE),
                                          Reading(rows, row, Append(s, e), FALSE))
        BY <2>1
    <2>2. e \notin CsvMarks /\ \A c \in 1..Len(s) : s[c] \notin CsvMarks
        <3>1. /\ Len(s) \in Nat /\ Len(Append(s, e)) = Len(s) + 1 /\ Append(s, e)[Len(s) + 1] = e
              /\ \A c \in 1..Len(s) : Append(s, e)[c] = s[c]
            BY AppendProperties
        <3>2. Len(s) + 1 \in 1..Len(Append(s, e)) /\ \A c \in 1..Len(s) : c \in 1..Len(Append(s, e))
            BY <3>1
        <3> QED
            BY <3>1, <3>2
    <2>3. Leads(s, Reading(rows, row, << >>, FALSE), Reading(rows, row, s, FALSE))
        BY <1>2, <2>2
    <2>4. Leads(<<e>>, Reading(rows, row, s, FALSE), Reading(rows, row, Append(s, e), FALSE))
        BY <2>1, <2>2, LeadsByChar
    <2> QED
        BY <2>1, <2>3, <2>4, LeadsConcat
<1>3. Seq(Characters) \subseteq P
    <2> HIDE DEF P
    <2> QED
        BY <1>1, <1>2, SequenceInduction
<1> QED
    BY <1>3 DEF Texts

(* A character, and a field, as they stand between quotes.                 *)
Escaped(char) == IF char = "\"" THEN <<"\"", "\"">> ELSE <<char>>
AllEscaped(field) == [c \in 1..Len(field) |-> Escaped(field[c])]

LEMMA EscapedTyped ==
    /\ \A char \in Characters : Escaped(char) \in Texts
    /\ \A field \in Texts : AllEscaped(field) \in Seq(Texts)
<1>1. \A char \in Characters : Escaped(char) \in Texts
    <2>1. \A a, b \in Characters : <<a>> \in Seq(Characters) /\ <<a, b>> \in Seq(Characters)
        OBVIOUS
    <2> QED
        BY <2>1 DEF Escaped, Texts
<1>2. ASSUME NEW field \in Texts PROVE AllEscaped(field) \in Seq(Texts)
    <2>1. Len(field) \in Nat /\ \A c \in 1..Len(field) : field[c] \in Characters
        BY ElementOfSeq DEF Texts
    <2> DEFINE T == Texts
    <2>2. \A c \in 1..Len(field) : Escaped(field[c]) \in T
        BY <1>1, <2>1
    <2> HIDE DEF T
    <2>3. AllEscaped(field) \in Seq(T)
        BY <2>1, <2>2 DEF AllEscaped
    <2> QED
        BY <2>3 DEF T
<1> QED
    BY <1>1, <1>2

LEMMA LeadsEscaped ==
    ASSUME NEW rows, NEW row
    PROVE  \A field \in Texts :
              Leads(FlattenSeq(AllEscaped(field)), Reading(rows, row, << >>, TRUE),
                                                   Reading(rows, row, field, TRUE))
<1> DEFINE P == {field \in Texts :
                    Leads(FlattenSeq(AllEscaped(field)), Reading(rows, row, << >>, TRUE),
                                                         Reading(rows, row, field, TRUE))}
<1>1. << >> \in P
    <2>1. AllEscaped(<< >>) = << >>
        BY DEF AllEscaped
    <2> QED
        BY <2>1, LeadsNowhere, FlattenEmpty, EmptySeq DEF Texts
<1>2. ASSUME NEW s \in Seq(Characters), NEW e \in Characters, s \in P
      PROVE  Append(s, e) \in P
    <2>1. Append(s, e) \in Texts /\ s \in Texts
        BY AppendProperties DEF Texts
    <2>2. AllEscaped(Append(s, e)) = Append(AllEscaped(s), Escaped(e))
        <3>1. /\ Len(s) \in Nat /\ Len(Append(s, e)) = Len(s) + 1 /\ Append(s, e)[Len(s) + 1] = e
              /\ \A c \in 1..Len(s) : Append(s, e)[c] = s[c]
            BY AppendProperties
        <3>2. /\ AllEscaped(s) \in Seq(Texts) /\ AllEscaped(Append(s, e)) \in Seq(Texts)
              /\ Escaped(e) \in Texts
            BY <2>1, EscapedTyped
        <3>3. /\ Len(AllEscaped(s)) = Len(s) /\ Len(AllEscaped(Append(s, e))) = Len(s) + 1
              /\ \A c \in 1..Len(s) : AllEscaped(Append(s, e))[c] = AllEscaped(s)[c]
              /\ AllEscaped(Append(s, e))[Len(s) + 1] = Escaped(e)
            <4>1. Len(s) + 1 \in 1..(Len(s) + 1) /\ \A c \in 1..Len(s) : c \in 1..(Len(s) + 1)
                BY <3>1
            <4> QED
                BY <3>1, <4>1 DEF AllEscaped
        <3> QED
            BY <3>2, <3>3, AppendByElements
    <2>3. FlattenSeq(AllEscaped(Append(s, e))) = FlattenSeq(AllEscaped(s)) \o Escaped(e)
        BY <2>1, <2>2, EscapedTyped, FlattenAppend DEF Texts
    <2>4. FlattenSeq(AllEscaped(s)) \in Texts /\ Escaped(e) \in Texts
        BY <2>1, EscapedTyped, FlattenInto DEF Texts
    <2>5. Leads(Escaped(e), Reading(rows, row, s, TRUE), Reading(rows, row, Append(s, e), TRUE))
        BY <2>1, LeadsByChar, LeadsByQuote DEF Escaped
    <2>6. Leads(FlattenSeq(AllEscaped(s)), Reading(rows, row, << >>, TRUE), Reading(rows, row, s, TRUE))
        BY <1>2
    <2>7. Leads(FlattenSeq(AllEscaped(s)) \o Escaped(e), Reading(rows, row, << >>, TRUE),
                Reading(rows, row, Append(s, e), TRUE))
        BY <2>4, <2>5, <2>6, LeadsConcat
    <2> QED
        BY <2>1, <2>3, <2>7
<1>3. Seq(Characters) \subseteq P
    <2> HIDE DEF P
    <2> QED
        BY <1>1, <1>2, SequenceInduction
<1> QED
    BY <1>3 DEF Texts

(* Two characters in a row, and a function that is a sequence.             *)
LEMMA QuoteThen ==
    ASSUME NEW s \in Seq(Characters), NEW a \in Characters, NEW b \in Characters
    PROVE  (s \o <<a>>) \o <<b>> = s \o <<a, b>>
<1>2. <<a>> \in Seq(Characters) /\ <<b>> \in Seq(Characters)
    OBVIOUS
<1>1. <<a>> \o <<b>> = <<a, b>>
    <2> DEFINE u == <<a>> \o <<b>>
               v == <<a, b>>
    <2>1. u \in Seq(Characters) /\ Len(u) = 2 /\ u[1] = a /\ u[2] = b
        BY <1>2, ConcatProperties
    <2>2. v \in Seq(Characters) /\ Len(v) = 2 /\ v[1] = a /\ v[2] = b
        OBVIOUS
    <2> HIDE DEF u, v
    <2>3. \A i \in 1..Len(u) : u[i] = v[i]
        BY <2>1, <2>2
    <2>4. u = v
        BY <2>1, <2>2, <2>3, SeqEqual
    <2> QED
        BY <2>4 DEF u, v
<1>3. (s \o <<a>>) \o <<b>> = s \o (<<a>> \o <<b>>)
    BY <1>2, ConcatAssociative
<1> QED
    BY <1>1, <1>3

LEMMA FunctionIsSequence ==
    ASSUME NEW T, NEW n \in Nat, NEW f \in [1..n -> T]
    PROVE  f \in Seq(T) /\ Len(f) = n
<1> QED
    OBVIOUS

(* A field with the mark after it.                                         *)
LEMMA LeadsField ==
    ASSUME NEW rows, NEW row, NEW field \in Texts
    PROVE  /\ CsvField(field) \in Texts
           /\ Leads(CsvField(field) \o <<",">>, Reading(rows, row, << >>, FALSE),
                                                Reading(rows, Append(row, field), << >>, FALSE))
           /\ Leads(CsvField(field) \o <<"\n">>, Reading(rows, row, << >>, FALSE),
                    Reading(Append(rows, Append(row, field)), << >>, << >>, FALSE))
<1>1. "\"" \in Characters /\ "," \in Characters /\ "\n" \in Characters
    BY ScriptAssumption DEF Marks, Opening
<1>2. /\ <<",">> \in Texts /\ <<"\n">> \in Texts /\ <<"\"">> \in Texts
      /\ <<"\"", ",">> \in Texts /\ <<"\"", "\n">> \in Texts
    <2>1. \A a, b \in Characters : <<a>> \in Seq(Characters) /\ <<a, b>> \in Seq(Characters)
        OBVIOUS
    <2> QED
        BY <1>1, <2>1 DEF Texts
<1>3. CASE \A c \in 1..Len(field) : field[c] \notin CsvMarks
    <2>1. CsvField(field) = field
        BY <1>3 DEF CsvField, CsvMarks
    <2>2. Leads(field, Reading(rows, row, << >>, FALSE), Reading(rows, row, field, FALSE))
        BY <1>3, LeadsPlain
    <2> QED
        BY <1>1, <1>2, <2>1, <2>2, LeadsByChar, LeadsConcat
<1>4. CASE ~(\A c \in 1..Len(field) : field[c] \notin CsvMarks)
    <2> DEFINE inner == FlattenSeq(AllEscaped(field))
    <2>1. CsvField(field) = (<<"\"">> \o inner) \o <<"\"">>
        BY <1>4 DEF CsvField, CsvMarks, AllEscaped, Escaped
    <2>2. inner \in Texts
        BY EscapedTyped, FlattenInto DEF Texts
    <2>3. Leads(<<"\"">>, Reading(rows, row, << >>, FALSE), Reading(rows, row, << >>, TRUE))
        BY <1>1, LeadsByChar
    <2>4. Leads(inner, Reading(rows, row, << >>, TRUE), Reading(rows, row, field, TRUE))
        BY LeadsEscaped
    <2> HIDE DEF inner
    <2>5. <<"\"">> \o inner \in Texts
        BY <1>2, <2>2, TextsClosed
    <2>6. Leads(<<"\"">> \o inner, Reading(rows, row, << >>, FALSE), Reading(rows, row, field, TRUE))
        BY <1>2, <2>2, <2>3, <2>4, LeadsConcat
    <2>7. \A m \in Characters : CsvField(field) \o <<m>> = (<<"\"">> \o inner) \o <<"\"", m>>
        <3> DEFINE before == <<"\"">> \o inner
        <3>1. before \in Seq(Characters)
            BY <2>5 DEF Texts
        <3> HIDE DEF before
        <3>2. \A m \in Characters : (before \o <<"\"">>) \o <<m>> = before \o <<"\"", m>>
            BY <1>1, <3>1, QuoteThen
        <3> QED
            BY <2>1, <3>2 DEF before
    <2>8. CsvField(field) \in Texts
        BY <1>2, <2>1, <2>5, TextsClosed
    <2> QED
        BY <1>1, <1>2, <2>5, <2>6, <2>7, <2>8, LeadsByQuote, LeadsConcat
<1> QED
    BY <1>3, <1>4

(* The fields of a row that another one follows, and the row.              *)
Cells(row) == [k \in 1..Len(row) |-> CsvField(row[k]) \o <<",">>]

LEMMA CellsTyped ==
    ASSUME NEW row \in Seq(Texts)
    PROVE  /\ Cells(row) \in Seq(Texts) /\ Len(Cells(row)) = Len(row)
           /\ \A k \in 1..Len(row) : row[k] \in Texts /\ Cells(row)[k] = CsvField(row[k]) \o <<",">>
<1> DEFINE T == Texts
<1>1. \A x, y \in T : x \o y \in T
    BY TextsClosed
<1>2. <<",">> \in T /\ \A field \in T : CsvField(field) \in T
    BY TextsClosed, LeadsField
<1>3. row \in Seq(T)
    OBVIOUS
<1> HIDE DEF T
<1>4. Len(row) \in Nat /\ \A k \in 1..Len(row) : row[k] \in T
    BY <1>3, ElementOfSeq
<1>5. \A k \in 1..Len(row) : CsvField(row[k]) \o <<",">> \in T
    BY <1>1, <1>2, <1>4
<1>6. Cells(row) \in Seq(T) /\ Len(Cells(row)) = Len(row)
    <2>1. Cells(row) \in [1..Len(row) -> T]
        BY <1>5 DEF Cells
    <2> QED
        BY <1>4, <2>1, FunctionIsSequence
<1>7. \A k \in 1..Len(row) : Cells(row)[k] = CsvField(row[k]) \o <<",">>
    BY DEF Cells
<1> QED
    BY <1>4, <1>6, <1>7 DEF T

LEMMA LeadsCells ==
    ASSUME NEW rows
    PROVE  \A row \in Seq(Texts) :
              Leads(FlattenSeq(Cells(row)), Reading(rows, << >>, << >>, FALSE),
                                            Reading(rows, row, << >>, FALSE))
<1> DEFINE T == Texts
           P == {row \in Seq(T) :
                    Leads(FlattenSeq(Cells(row)), Reading(rows, << >>, << >>, FALSE),
                                                  Reading(rows, row, << >>, FALSE))}
<1>1. << >> \in P
    <2>1. Cells(<< >>) = << >>
        BY DEF Cells
    <2> QED
        BY <2>1, LeadsNowhere, FlattenEmpty, EmptySeq
<1>2. ASSUME NEW s \in Seq(T), NEW e \in T, s \in P
      PROVE  Append(s, e) \in P
    <2> DEFINE u == Append(s, e)
               cell == CsvField(e) \o <<",">>
    <2>1. cell \in Texts /\ Cells(s) \in Seq(Texts)
        BY LeadsField, TextsClosed, CellsTyped
    <2>2. /\ u \in Seq(T) /\ Len(s) \in Nat /\ Len(u) = Len(s) + 1 /\ u[Len(s) + 1] = e
          /\ \A k \in 1..Len(s) : u[k] = s[k]
        <3> HIDE DEF T
        <3> QED
            BY AppendProperties
    <2> HIDE DEF u
    <2>3. Cells(u) = Append(Cells(s), cell)
        <3>1. Cells(u) \in Seq(Texts) /\ Len(Cells(u)) = Len(u) /\ Len(Cells(s)) = Len(s)
            BY <2>2, CellsTyped
        <3>2. Cells(u)[Len(s) + 1] = cell /\ \A k \in 1..Len(s) : Cells(u)[k] = Cells(s)[k]
            <4>1. Len(s) + 1 \in 1..Len(u) /\ \A k \in 1..Len(s) : k \in 1..Len(u)
                BY <2>2
            <4> QED
                BY <2>2, <4>1 DEF Cells
        <3> HIDE DEF cell
        <3> QED
            BY <2>1, <2>2, <3>1, <3>2, AppendByElements
    <2> HIDE DEF cell
    <2>4. FlattenSeq(Cells(u)) = FlattenSeq(Cells(s)) \o cell
        BY <2>1, <2>3, FlattenAppend DEF Texts
    <2>5. FlattenSeq(Cells(s)) \in Texts
        BY <2>1, FlattenInto DEF Texts
    <2>6. Leads(FlattenSeq(Cells(s)), Reading(rows, << >>, << >>, FALSE), Reading(rows, s, << >>, FALSE))
        BY <1>2
    <2>7. Leads(cell, Reading(rows, s, << >>, FALSE), Reading(rows, u, << >>, FALSE))
        BY LeadsField DEF cell, u
    <2>8. Leads(FlattenSeq(Cells(u)), Reading(rows, << >>, << >>, FALSE), Reading(rows, u, << >>, FALSE))
        BY <2>1, <2>4, <2>5, <2>6, <2>7, LeadsConcat
    <2> QED
        BY <2>2, <2>8 DEF u
<1>3. Seq(T) \subseteq P
    <2> HIDE DEF P, T
    <2> QED
        BY <1>1, <1>2, SequenceInduction
<1> QED
    BY <1>3

(* A row, which leads from the rows before it to those with it.            *)
LEMMA LeadsLine ==
    ASSUME NEW rows, NEW row \in Seq(Texts) \ {<< >>}
    PROVE  /\ CsvLine(row) \in Texts
           /\ Leads(CsvLine(row), Reading(rows, << >>, << >>, FALSE),
                                  Reading(Append(rows, row), << >>, << >>, FALSE))
<1> DEFINE T == Texts
           line == [k \in 1..Len(row) |->
                       Append(CsvField(row[k]), IF k < Len(row) THEN "," ELSE "\n")]
<1>1. PICK s \in Seq(T), e \in T : row = Append(s, e)
    <2> HIDE DEF T
    <2>1. row \in Seq(T) /\ row # << >>
        BY DEF T
    <2> QED
        BY <2>1, SequenceEmptyOrAppend
<1> DEFINE cell == CsvField(e) \o <<"\n">>
<1>2. <<"\n">> \in Texts
    <2>1. "\n" \in Characters
        BY ScriptAssumption DEF Marks
    <2> QED
        BY <2>1, TextsClosed
<1>3. cell \in Texts /\ Cells(s) \in Seq(Texts) /\ Len(Cells(s)) = Len(s)
    BY <1>2, LeadsField, TextsClosed, CellsTyped
<1>4. /\ Len(s) \in Nat /\ Len(row) = Len(s) + 1 /\ row[Len(s) + 1] = e
      /\ \A k \in 1..Len(s) : row[k] = s[k]
    <2> HIDE DEF T
    <2> QED
        BY <1>1, AppendProperties
<1>5. /\ \A k \in 1..Len(s) : line[k] = Cells(s)[k]
      /\ line[Len(s) + 1] = cell
    <2>1. \A field \in Texts : /\ Append(CsvField(field), ",") = CsvField(field) \o <<",">>
                               /\ Append(CsvField(field), "\n") = CsvField(field) \o <<"\n">>
        <3>1. \A field \in Texts : CsvField(field) \in Seq(Characters)
            BY LeadsField DEF Texts
        <3>2. "," \in Characters /\ "\n" \in Characters
            BY ScriptAssumption DEF Marks
        <3> QED
            BY <3>1, <3>2, AppendIsConcat
    <2>5. \A k \in 1..Len(row) :
              line[k] = Append(CsvField(row[k]), IF k < Len(row) THEN "," ELSE "\n")
        OBVIOUS
    <2> HIDE DEF line
    <2>2. ASSUME NEW k \in 1..Len(s) PROVE line[k] = Append(CsvField(s[k]), ",")
        <3>1. k \in 1..Len(row) /\ k < Len(row) /\ row[k] = s[k]
            BY <1>4
        <3> HIDE DEF T, cell
        <3> QED
            BY <2>5, <3>1
    <2>3. line[Len(s) + 1] = Append(CsvField(e), "\n")
        <3>1. Len(s) + 1 \in 1..Len(row) /\ ~(Len(s) + 1 < Len(row)) /\ row[Len(s) + 1] = e
            BY <1>4
        <3> HIDE DEF T, cell
        <3> QED
            BY <2>5, <3>1
    <2>4. \A k \in 1..Len(s) : s[k] \in Texts /\ Cells(s)[k] = CsvField(s[k]) \o <<",">>
        BY CellsTyped
    <2> QED
        BY <2>1, <2>2, <2>3, <2>4
<1>6. line = Append(Cells(s), cell)
    <2>1. Len(line) = Len(s) + 1
        BY <1>4
    <2>2. line \in Seq(T)
        <3>1. \A k \in 1..(Len(s) + 1) : line[k] \in T
            <4> TAKE k \in 1..(Len(s) + 1)
            <4> HIDE DEF line, cell
            <4>1. k \in 1..Len(s) \/ k = Len(s) + 1
                BY <1>4
            <4>2. Cells(s) \in Seq(T) /\ cell \in T
                BY <1>3
            <4>3. \A j \in 1..Len(Cells(s)) : Cells(s)[j] \in T
                <5> HIDE DEF T
                <5> QED
                    BY <4>2, ElementOfSeq
            <4> QED
                BY <1>3, <1>5, <4>1, <4>2, <4>3
        <3>2. \A k \in 1..Len(row) :
                  Append(CsvField(row[k]), IF k < Len(row) THEN "," ELSE "\n") \in T
            BY <1>4, <3>1
        <3>3. line \in [1..Len(row) -> T]
            BY <3>2
        <3> HIDE DEF T, line
        <3> QED
            BY <1>4, <3>3, FunctionIsSequence
    <2> HIDE DEF line, cell
    <2> QED
        BY <1>3, <1>4, <1>5, <2>1, <2>2, AppendByElements
<1>7. CsvLine(row) = FlattenSeq(line)
    BY DEF CsvLine
<1> HIDE DEF line
<1>8. Leads(cell, Reading(rows, s, << >>, FALSE), Reading(Append(rows, row), << >>, << >>, FALSE))
    BY <1>1, LeadsField
<1> HIDE DEF cell
<1>9. FlattenSeq(line) = FlattenSeq(Cells(s)) \o cell
    BY <1>3, <1>6, FlattenAppend DEF Texts
<1>10. FlattenSeq(Cells(s)) \in Texts
    BY <1>3, FlattenInto DEF Texts
<1>11. Leads(FlattenSeq(Cells(s)), Reading(rows, << >>, << >>, FALSE), Reading(rows, s, << >>, FALSE))
    BY LeadsCells
<1>12. Leads(FlattenSeq(Cells(s)) \o cell, Reading(rows, << >>, << >>, FALSE),
             Reading(Append(rows, row), << >>, << >>, FALSE))
    BY <1>3, <1>8, <1>10, <1>11, LeadsConcat
<1>13. FlattenSeq(Cells(s)) \o cell \in Texts
    BY <1>3, <1>10, TextsClosed
<1> QED
    BY <1>7, <1>9, <1>12, <1>13

(* Whoever writes rows to a CSV file and reads it (parse_csv_records) has  *)
(* the rows, whatever commas, quotes and ends of lines their fields hold.  *)
THEOREM CsvReadsBack ==
    ASSUME NEW rows \in Seq(Seq(Texts) \ {<< >>})
    PROVE  ParseCsv(CsvOf(rows)) = rows
<1> DEFINE R == Seq(Texts) \ {<< >>}
           Lines(some) == [i \in 1..Len(some) |-> CsvLine(some[i])]
           none == Reading(<< >>, << >>, << >>, FALSE)
           P == {some \in Seq(R) : /\ Lines(some) \in Seq(Texts)
                                   /\ Leads(FlattenSeq(Lines(some)), none,
                                            Reading(some, << >>, << >>, FALSE))}
<1>1. << >> \in P
    <2>1. Lines(<< >>) = << >>
        OBVIOUS
    <2> QED
        BY <2>1, LeadsNowhere, FlattenEmpty, EmptySeq
<1>2. ASSUME NEW s \in Seq(R), NEW e \in R, s \in P
      PROVE  Append(s, e) \in P
    <2> DEFINE u == Append(s, e)
               T == Texts
    <2>1. /\ u \in Seq(R) /\ Len(s) \in Nat /\ Len(u) = Len(s) + 1 /\ u[Len(s) + 1] = e
          /\ \A k \in 1..Len(s) : u[k] = s[k]
        <3> HIDE DEF R
        <3> QED
            BY AppendProperties
    <2>2. CsvLine(e) \in T /\ Lines(s) \in Seq(T) /\ Len(Lines(s)) = Len(s)
        <3>1. CsvLine(e) \in T
            BY LeadsLine
        <3>2. Lines(s) \in Seq(T)
            BY <1>2
        <3>3. Len(Lines(s)) = Len(s)
            BY <2>1
        <3> QED
            BY <3>1, <3>2, <3>3
    <2> HIDE DEF u, T
    <2>3. Lines(u) = Append(Lines(s), CsvLine(e))
        <3>1. /\ \A k \in 1..Len(s) : Lines(u)[k] = Lines(s)[k]
              /\ Lines(u)[Len(s) + 1] = CsvLine(e) /\ Len(Lines(u)) = Len(s) + 1
            <4>1. Len(s) + 1 \in 1..Len(u) /\ \A k \in 1..Len(s) : k \in 1..Len(u)
                BY <2>1
            <4> QED
                BY <2>1, <4>1
        <3>2. \A k \in 1..Len(u) : CsvLine(u[k]) \in T
            <4> TAKE k \in 1..Len(u)
            <4>1. k \in 1..Len(s) \/ k = Len(s) + 1
                BY <2>1
            <4>2. \A j \in 1..Len(s) : CsvLine(s[j]) \in T
                <5>1. \A j \in 1..Len(s) : s[j] \in R
                    <6> HIDE DEF R
                    <6> QED
                        BY ElementOfSeq
                <5> QED
                    BY <5>1, LeadsLine DEF T
            <4> QED
                BY <2>1, <2>2, <4>1, <4>2
        <3>3. Lines(u) \in Seq(T)
            BY <2>1, <3>2
        <3> HIDE DEF Lines
        <3> QED
            BY <2>1, <2>2, <3>1, <3>3, AppendByElements
    <2> HIDE DEF Lines
    <2>4. FlattenSeq(Lines(u)) = FlattenSeq(Lines(s)) \o CsvLine(e) /\ Lines(u) \in Seq(T)
        <3>1. Lines(u) \in Seq(T)
            <4> HIDE DEF R
            <4> QED
                BY <2>2, <2>3, AppendProperties
        <3> QED
            BY <2>2, <2>3, <3>1, FlattenAppend DEF T, Texts
    <2>5. FlattenSeq(Lines(s)) \in Texts
        BY <2>2, FlattenInto DEF T, Texts
    <2>6. Leads(FlattenSeq(Lines(s)), none, Reading(s, << >>, << >>, FALSE))
        BY <1>2
    <2>7. Leads(CsvLine(e), Reading(s, << >>, << >>, FALSE), Reading(u, << >>, << >>, FALSE))
        BY LeadsLine DEF u
    <2> HIDE DEF none
    <2>8. Leads(FlattenSeq(Lines(u)), none, Reading(u, << >>, << >>, FALSE))
        BY <2>2, <2>4, <2>5, <2>6, <2>7, LeadsConcat DEF T
    <2> QED
        BY <2>1, <2>4, <2>8 DEF u, T
<1>3. Seq(R) \subseteq P
    <2> HIDE DEF P, R
    <2> QED
        BY <1>1, <1>2, SequenceInduction
<1> DEFINE text == CsvOf(rows)
<1>4. text = FlattenSeq(Lines(rows))
    BY DEF CsvOf
<1>5. Lines(rows) \in Seq(Texts) /\ Leads(text, none, Reading(rows, << >>, << >>, FALSE))
    BY <1>3, <1>4
<1>6. text \in Texts
    BY <1>4, <1>5, FlattenInto DEF Texts
<1> HIDE DEF text
<1>7. CsvRead(text)[0] = none
    BY <1>6, CsvReadSteps DEF CsvStart, Reading
<1>8. 0 \in 0..Len(text) /\ 0 + Len(text) = Len(text) /\ Occurs(text, 0, text)
    <2>1. Len(text) \in Nat
        BY <1>6 DEF Texts
    <2> QED
        BY <2>1 DEF Occurs
<1> HIDE DEF none
<1>9. CsvRead(text)[0 + Len(text)] = Reading(rows, << >>, << >>, FALSE)
    BY <1>5, <1>6, <1>7, <1>8 DEF Leads
<1> QED
    BY <1>8, <1>9 DEF ParseCsv, Reading, text

-----------------------------------------------------------------------------
(* A script, character by character.                                       *)

(* Where the reader of a script may be.                                    *)
Modes == Opening \cup {"sql", "--", "/*"}
SqlStates == [mode : Modes, two : BOOLEAN]

LEMMA SqlStepTyped ==
    ASSUME NEW text, NEW i, NEW read \in SqlStates, NEW splitting \in BOOLEAN
    PROVE  SqlStep(text, i, read, splitting) \in SqlStates
<1>1. CASE read.two
    BY <1>1 DEF SqlStep, SqlStates
<1>2. CASE ~read.two
    <2> DEFINE mode == read.mode
    <2>1. mode \in Modes
        BY DEF SqlStates
    <2> HIDE DEF mode
    <2>2. Read(text, i, mode, splitting) \in SqlStates
        <3>1. CASE mode = "--"
            BY <3>1 DEF Read, SqlStates, Modes, Opening
        <3>2. CASE mode = "/*"
            BY <3>2 DEF Read, SqlStates, Modes, Opening
        <3>3. CASE mode \in Opening
            BY <3>3 DEF Read, SqlStates, Modes, Opening
        <3>4. CASE mode = "sql"
            BY <3>4 DEF Read, SqlStates, Modes, Opening
        <3> QED
            BY <2>1, <3>1, <3>2, <3>3, <3>4 DEF Modes
    <2> QED
        BY <1>2, <2>2 DEF SqlStep, mode
<1> QED
    BY <1>1, <1>2

(* The reader takes the characters of a script one by one.                 *)
LEMMA SqlReadSteps ==
    ASSUME NEW text \in Texts
    PROVE  /\ SqlRead(text, TRUE)[0] = AtSql
           /\ \A k \in 1..Len(text) :
                 SqlRead(text, TRUE)[k] = SqlStep(text, k, SqlRead(text, TRUE)[k - 1], TRUE)
<1> DEFINE n == Len(text)
           T == SqlStates
           E(h) == [k \in 0..n |-> IF k = 0 THEN AtSql ELSE SqlStep(text, k, h[k - 1], TRUE)]
           step == [k \in 1..n |-> [x \in T |-> SqlStep(text, k, x, TRUE)]]
           kept == CHOOSE h : h = E(h)
<1>1. n \in Nat
    BY LenProperties DEF Texts
<1>2. AtSql \in T
    BY DEF AtSql, SqlStates, Modes
<1>3. step \in [1..n -> [T -> T]]
    <2>1. \A k \in 1..n : \A x \in T : SqlStep(text, k, x, TRUE) \in T
        BY SqlStepTyped
    <2> HIDE DEF T
    <2> QED
        BY <2>1
<1>4. PICK g \in [0..n -> T] : Recurs(g, n, AtSql, step)
    <2> HIDE DEF n, T, step
    <2> QED
        BY <1>1, <1>2, <1>3, RecursiveFunction
<1>5. g = E(g)
    <2>1. ASSUME NEW k \in 1..n PROVE g[k] = SqlStep(text, k, g[k - 1], TRUE)
        <3>1. k - 1 \in 0..n
            BY <1>1
        <3>2. g[k] = step[k][g[k - 1]] /\ g[k - 1] \in T
            BY <1>4, <3>1 DEF Recurs
        <3> HIDE DEF T
        <3> QED
            BY <3>2
    <2>2. \A k \in 0..n : k # 0 => k \in 1..n
        BY <1>1
    <2>3. g[0] = AtSql
        BY <1>4 DEF Recurs
    <2> HIDE DEF T
    <2> QED
        BY <2>1, <2>2, <2>3
<1>6. kept = E(kept)
    <2> HIDE DEF E
    <2> QED
        BY <1>5
<1>7. SqlRead(text, TRUE) = kept
    BY DEF SqlRead
<1> HIDE DEF kept
<1>8. kept[0] = AtSql /\ \A k \in 1..n : kept[k] = SqlStep(text, k, kept[k - 1], TRUE)
    <2>1. 0 \in 0..n /\ \A k \in 1..n : k \in 0..n /\ k # 0
        BY <1>1
    <2> QED
        BY <1>6, <2>1
<1> QED
    BY <1>7, <1>8

(* The smallest and the greatest number of a set.                          *)
LEMMA MaxOfNumbers ==
    ASSUME NEW S, S \subseteq Nat, S # {}, NEW n \in Nat, \A x \in S : x <= n
    PROVE  Max(S) \in S /\ \A x \in S : x <= Max(S)
<1> DEFINE D == {n - x : x \in S}
<1>1. D \subseteq Nat /\ D # {}
    OBVIOUS
<1> HIDE DEF D
<1>2. Min(D) \in D /\ \A d \in D : Min(D) <= d
    BY <1>1, MinOfNumbers
<1>3. PICK m \in S : Min(D) = n - m
    BY <1>2 DEF D
<1>4. \A x \in S : m >= x
    <2> TAKE x \in S
    <2>1. n - x \in D
        BY DEF D
    <2>2. n - m <= n - x /\ x \in Nat /\ m \in Nat
        BY <1>2, <1>3, <2>1
    <2> QED
        BY <2>2
<1>5. \E y \in S : \A x \in S : y >= x
    BY <1>4
<1>6. Max(S) \in S /\ \A x \in S : Max(S) >= x
    BY <1>5 DEF Max
<1>7. \A x \in S : x \in Nat
    OBVIOUS
<1> QED
    BY <1>6, <1>7

LEMMA MinAndMaxAre ==
    ASSUME NEW S, S \subseteq Nat, NEW a \in S, NEW b \in S, \A x \in S : a <= x /\ x <= b
    PROVE  Min(S) = a /\ Max(S) = b
<1>1. S # {} /\ b \in Nat /\ a \in Nat
    OBVIOUS
<1>2. Min(S) \in S /\ Min(S) <= a
    BY <1>1, MinOfNumbers
<1>3. Max(S) \in S /\ b <= Max(S)
    BY <1>1, MaxOfNumbers
<1>4. Min(S) \in Nat /\ Max(S) \in Nat /\ a <= Min(S) /\ Max(S) <= b
    BY <1>2, <1>3
<1> QED
    BY <1>1, <1>2, <1>3, <1>4

LEMMA TrimmedTyped ==
    ASSUME NEW text \in Texts
    PROVE  Trimmed(text) \in Texts
<1> DEFINE kept == {i \in 1..Len(text) : text[i] # "\n"}
<1>1. Len(text) \in Nat /\ \A i \in 1..Len(text) : text[i] \in Characters
    BY ElementOfSeq DEF Texts
<1>2. CASE kept = {}
    BY <1>2, EmptySeq DEF Trimmed, TrimmedTo, Texts
<1>3. CASE kept # {}
    <2>1. kept \subseteq 1..Len(text) /\ kept \subseteq Nat /\ \A i \in kept : i <= Len(text)
        BY <1>1
    <2> HIDE DEF kept
    <2>2. Min(kept) \in kept /\ Max(kept) \in kept
        BY <1>1, <1>3, <2>1, MinOfNumbers, MaxOfNumbers
    <2>3. Min(kept) \in Int /\ Max(kept) \in Int /\ \A i \in Min(kept)..Max(kept) : text[i] \in Characters
        <3>1. Min(kept) \in 1..Len(text) /\ Max(kept) \in 1..Len(text)
            BY <2>1, <2>2
        <3>2. \A i \in Min(kept)..Max(kept) : i \in 1..Len(text)
            BY <1>1, <3>1
        <3> QED
            BY <1>1, <3>1, <3>2
    <2>4. SubSeq(text, Min(kept), Max(kept)) \in Seq(Characters)
        BY <2>3, SubSeqProperties
    <2> QED
        BY <1>3, <2>4 DEF Trimmed, TrimmedTo, Texts, kept
<1> QED
    BY <1>2, <1>3

(* Where the last cut is, and what has been cut off.                       *)
CutStates == [start : Nat \ {0}, found : Seq(Texts)]
IsEnd(text, i) == i \in AsSql(text, TRUE) /\ text[i] = ";"

LEMMA CutTyped ==
    ASSUME NEW text \in Texts, NEW i \in 1..Len(text), NEW cut \in CutStates, NEW isEnd \in BOOLEAN
    PROVE  CutAt(text, i, cut, isEnd) \in CutStates
<1> DEFINE T == Texts
           between == SubSeq(text, cut.start, i)
<1>1. Len(text) \in Nat /\ \A j \in 1..Len(text) : text[j] \in Characters
    BY ElementOfSeq DEF Texts
<1>2. cut.start \in Nat \ {0} /\ cut.found \in Seq(T) /\ i \in Nat
    BY <1>1 DEF CutStates
<1>3. between \in T
    <2>1. \A j \in cut.start..i : text[j] \in Characters
        BY <1>1, <1>2
    <2> QED
        BY <1>2, <2>1, SubSeqProperties DEF Texts
<1> HIDE DEF between
<1>4. Trimmed(between) \in T
    BY <1>3, TrimmedTyped
<1> HIDE DEF T
<1>5. Append(cut.found, Trimmed(between)) \in Seq(T)
    BY <1>2, <1>4, AppendProperties
<1>6. [start |-> i + 1, found |-> Append(cut.found, Trimmed(between))] \in CutStates
    BY <1>2, <1>5 DEF CutStates, T
<1> QED
    BY <1>6 DEF CutAt, SinceCut, between

LEMMA SqlCutsSteps ==
    ASSUME NEW text \in Texts
    PROVE  /\ SqlCuts(text)[0] = [start |-> 1, found |-> << >>]
           /\ \A k \in 1..Len(text) :
                 SqlCuts(text)[k] = CutAt(text, k, SqlCuts(text)[k - 1], IsEnd(text, k))
<1> DEFINE n == Len(text)
           T == CutStates
           base == [start |-> 1, found |-> << >>]
           E(h) == [k \in 0..n |-> IF k = 0 THEN base ELSE CutAt(text, k, h[k - 1], IsEnd(text, k))]
           step == [k \in 1..n |-> [x \in T |-> CutAt(text, k, x, IsEnd(text, k))]]
           kept == CHOOSE h : h = E(h)
<1>1. n \in Nat
    BY LenProperties DEF Texts
<1>2. base \in T
    <2>1. << >> \in Seq(Texts)
        BY EmptySeq
    <2> QED
        BY <2>1 DEF CutStates
<1>3. step \in [1..n -> [T -> T]]
    <2>1. \A k \in 1..n : \A x \in T : CutAt(text, k, x, IsEnd(text, k)) \in T
        <3>1. \A k \in 1..n : IsEnd(text, k) \in BOOLEAN
            BY DEF IsEnd
        <3> QED
            BY <3>1, CutTyped
    <2> HIDE DEF T
    <2> QED
        BY <2>1
<1> HIDE DEF base
<1>4. PICK g \in [0..n -> T] : Recurs(g, n, base, step)
    <2> HIDE DEF n, T, step
    <2> QED
        BY <1>1, <1>2, <1>3, RecursiveFunction
<1>5. g = E(g)
    <2>1. ASSUME NEW k \in 1..n PROVE g[k] = CutAt(text, k, g[k - 1], IsEnd(text, k))
        <3>1. k - 1 \in 0..n
            BY <1>1
        <3>2. g[k] = step[k][g[k - 1]] /\ g[k - 1] \in T
            BY <1>4, <3>1 DEF Recurs
        <3> HIDE DEF T
        <3> QED
            BY <3>2
    <2>2. \A k \in 0..n : k # 0 => k \in 1..n
        BY <1>1
    <2>3. g[0] = base
        BY <1>4 DEF Recurs
    <2> HIDE DEF T
    <2> QED
        BY <2>1, <2>2, <2>3
<1>6. kept = E(kept)
    <2> HIDE DEF E
    <2> QED
        BY <1>5
<1>7. SqlCuts(text) = kept
    BY DEF SqlCuts, IsEnd, base
<1> HIDE DEF kept
<1>8. kept[0] = base /\ \A k \in 1..n : kept[k] = CutAt(text, k, kept[k - 1], IsEnd(text, k))
    <2>1. 0 \in 0..n /\ \A k \in 1..n : k \in 0..n /\ k # 0
        BY <1>1
    <2> QED
        BY <1>6, <2>1
<1> QED
    BY <1>7, <1>8 DEF base

(* Within a text a statement is read as it is read by itself, up to its    *)
(* last character.                                                         *)
LEMMA ReadAlone ==
    ASSUME NEW text \in Texts, NEW o \in 0..Len(text), NEW s \in Texts, Occurs(text, o, s),
           SqlRead(text, TRUE)[o] = AtSql
    PROVE  \A k \in 0..Len(s) : k < Len(s) => SqlRead(text, TRUE)[o + k] = SqlRead(s, TRUE)[k]
<1> DEFINE inText == SqlRead(text, TRUE)
           alone == SqlRead(s, TRUE)
           P == {k \in Nat : k < Len(s) => inText[o + k] = alone[k]}
<1>1. Len(s) \in Nat /\ Len(text) \in Nat /\ o \in Nat
    BY DEF Texts
<1>2. inText[o] = AtSql /\ alone[0] = AtSql
    BY SqlReadSteps
<1>3. /\ \A k \in 1..Len(text) : inText[k] = SqlStep(text, k, inText[k - 1], TRUE)
      /\ \A k \in 1..Len(s) : alone[k] = SqlStep(s, k, alone[k - 1], TRUE)
    BY SqlReadSteps
<1> HIDE DEF inText, alone
<1>4. 0 \in P
    BY <1>1, <1>2
<1>5. ASSUME NEW k \in Nat, k \in P PROVE k + 1 \in P
    <2> SUFFICES ASSUME k + 1 < Len(s) PROVE inText[o + (k + 1)] = alone[k + 1]
        OBVIOUS
    <2> DEFINE i == o + (k + 1)
    <2>1. /\ k + 1 \in 1..Len(s) /\ (k + 1) - 1 = k /\ i \in 1..Len(text) /\ i - 1 = o + k
          /\ k + 2 \in 1..Len(s) /\ o + (k + 2) = i + 1 /\ (k + 1) + 1 = k + 2
          /\ i < Len(text)
        BY <1>1 DEF Occurs
    <2>2. text[i] = s[k + 1] /\ text[i + 1] = s[k + 2]
        BY <2>1 DEF Occurs
    <2>3. inText[o + k] = alone[k]
        BY <1>1, <1>5
    <2> HIDE DEF i
    <2>4. Peek(text, i) = Peek(s, k + 1)
        BY <2>1, <2>2 DEF Peek
    <2>5. \A mode : Read(text, i, mode, TRUE) = Read(s, k + 1, mode, TRUE)
        BY <2>2, <2>4 DEF Read
    <2>6. \A read : SqlStep(text, i, read, TRUE) = SqlStep(s, k + 1, read, TRUE)
        BY <2>5 DEF SqlStep
    <2>7. /\ inText[i] = SqlStep(text, i, inText[o + k], TRUE)
          /\ alone[k + 1] = SqlStep(s, k + 1, alone[k], TRUE)
        BY <1>3, <2>1
    <2> QED
        BY <2>3, <2>6, <2>7 DEF i
<1>6. Nat \subseteq P
    <2> HIDE DEF P
    <2> QED
        BY <1>4, <1>5, SetInduction
<1>7. \A k \in 0..Len(s) : k < Len(s) => inText[o + k] = alone[k]
    BY <1>1, <1>6
<1> QED
    BY <1>7, Zenon DEF inText, alone

(* In SQL, a semicolon or the end of a line leaves the reader in SQL.      *)
LEMMA StaysInSql ==
    ASSUME NEW text \in Texts, NEW i \in 1..Len(text), SqlRead(text, TRUE)[i - 1] = AtSql,
           text[i] \in {";", "\n"}
    PROVE  SqlRead(text, TRUE)[i] = AtSql
<1>1. SqlRead(text, TRUE)[i] = SqlStep(text, i, AtSql, TRUE)
    BY SqlReadSteps
<1>2. Read(text, i, "sql", TRUE) = AtSql
    BY DEF Read, Opening, AtSql
<1> QED
    BY <1>1, <1>2 DEF SqlStep, AtSql

(* At i the reader is in SQL; since the last cut there is at most the end  *)
(* of a line.                                                              *)
JustCut(text, i, found) ==
    /\ SqlRead(text, TRUE)[i] = AtSql
    /\ \E start \in Nat \ {0} :
          /\ SqlCuts(text)[i] = [start |-> start, found |-> found]
          /\ start = i + 1 \/ (start = i /\ text[i] = "\n")

(* What there is since the cut, within a statement.                        *)
LEMMA SinceCutIs ==
    ASSUME NEW text \in Texts, NEW o \in 0..Len(text), NEW s \in Texts, Occurs(text, o, s),
           NEW start \in Nat \ {0}, NEW found, start = o + 1 \/ (start = o /\ text[o] = "\n"),
           NEW k \in 1..Len(s), s[1] # "\n", s[k] # "\n"
    PROVE  SinceCut(text, [start |-> start, found |-> found], o + k) = SubSeq(s, 1, k)
<1> DEFINE x == SubSeq(text, start, o + k)
           kept == {i \in 1..Len(x) : x[i] # "\n"}
           first == IF start = o THEN 2 ELSE 1
<1>1. /\ Len(text) \in Nat /\ Len(s) \in Nat /\ o \in Nat /\ k \in Nat /\ o + Len(s) <= Len(text)
      /\ \A j \in 1..Len(text) : text[j] \in Characters
      /\ \A j \in 1..Len(s) : s[j] \in Characters /\ text[o + j] = s[j]
    BY ElementOfSeq DEF Texts, Occurs
<1>2. /\ x \in Seq(Characters) /\ Len(x) = k + first - 1
      /\ \A j \in 1..(k + first - 1) : x[j] = text[start + j - 1]
    <2>1. \A j \in start..(o + k) : text[j] \in Characters
        BY <1>1
    <2>2. o + k - start + 1 = k + first - 1 /\ start <= o + k /\ start \in Int /\ o + k \in Int
        BY <1>1
    <2>3. /\ x \in Seq(Characters)
          /\ Len(x) = IF start <= o + k THEN o + k - start + 1 ELSE 0
          /\ \A j \in 1..(o + k - start + 1) : x[j] = text[start + j - 1]
        BY <2>1, <2>2, SubSeqProperties
    <2> QED
        BY <2>2, <2>3
<1> HIDE DEF x
<1>3. \A j \in 1..k : first - 1 + j \in 1..Len(x) /\ x[first - 1 + j] = s[j]
    <2> TAKE j \in 1..k
    <2>1. first - 1 + j \in 1..(k + first - 1) /\ start + (first - 1 + j) - 1 = o + j /\ j \in 1..Len(s)
        BY <1>1
    <2> QED
        BY <1>1, <1>2, <2>1
<1>4. kept \subseteq Nat /\ first \in kept /\ Len(x) \in kept /\ \A i \in kept : first <= i /\ i <= Len(x)
    <2>1. first \in kept
        <3>1. 1 \in 1..k /\ first - 1 + 1 = first
            BY <1>1
        <3> QED
            BY <1>3, <3>1
    <2>2. Len(x) \in kept
        <3>1. k \in 1..k /\ first - 1 + k = Len(x)
            BY <1>1, <1>2
        <3> QED
            BY <1>3, <3>1
    <2>3. ASSUME NEW i \in kept PROVE i \in Nat /\ first <= i /\ i <= Len(x)
        <3>1. i \in 1..Len(x) /\ x[i] # "\n" /\ Len(x) \in Nat
            BY <1>1, <1>2
        <3>2. start = o => x[1] = "\n"
            <4>1. start = o => 1 \in 1..(k + first - 1) /\ start + 1 - 1 = o /\ text[o] = "\n"
                BY <1>1
            <4> QED
                BY <1>2, <4>1
        <3> QED
            BY <3>1, <3>2
    <2> HIDE DEF kept
    <2> QED
        BY <2>1, <2>2, <2>3
<1> HIDE DEF kept
<1>5. Min(kept) = first /\ Max(kept) = Len(x) /\ kept # {}
    BY <1>4, MinAndMaxAre
<1>6. SinceCut(text, [start |-> start, found |-> found], o + k) = SubSeq(x, first, Len(x))
    BY <1>5 DEF SinceCut, Trimmed, TrimmedTo, x, kept
<1>7. /\ SubSeq(x, first, Len(x)) \in Seq(Characters) /\ Len(SubSeq(x, first, Len(x))) = k
      /\ \A j \in 1..k : SubSeq(x, first, Len(x))[j] = s[j]
    <2>1. \A j \in first..Len(x) : x[j] \in Characters
        BY <1>1, <1>2
    <2>2. first \in Int /\ Len(x) \in Int /\ first <= Len(x) /\ Len(x) - first + 1 = k
        BY <1>1, <1>2
    <2>3. /\ SubSeq(x, first, Len(x)) \in Seq(Characters)
          /\ Len(SubSeq(x, first, Len(x))) = IF first <= Len(x) THEN Len(x) - first + 1 ELSE 0
          /\ \A j \in 1..(Len(x) - first + 1) : SubSeq(x, first, Len(x))[j] = x[first + j - 1]
        BY <2>1, <2>2, SubSeqProperties
    <2>4. \A j \in 1..k : first + j - 1 = first - 1 + j
        BY <1>1
    <2> HIDE DEF first
    <2> QED
        BY <1>3, <2>2, <2>3, <2>4
<1>8. /\ SubSeq(s, 1, k) \in Seq(Characters) /\ Len(SubSeq(s, 1, k)) = k
      /\ \A j \in 1..k : SubSeq(s, 1, k)[j] = s[j]
    <2>1. \A j \in 1..k : s[j] \in Characters
        BY <1>1
    <2>2. 1 \in Int /\ k \in Int /\ 1 <= k /\ k - 1 + 1 = k
        BY <1>1
    <2>3. /\ SubSeq(s, 1, k) \in Seq(Characters)
          /\ Len(SubSeq(s, 1, k)) = IF 1 <= k THEN k - 1 + 1 ELSE 0
          /\ \A j \in 1..(k - 1 + 1) : SubSeq(s, 1, k)[j] = s[1 + j - 1]
        BY <2>1, <2>2, SubSeqProperties
    <2>4. \A j \in 1..k : 1 + j - 1 = j
        BY <1>1
    <2> QED
        BY <2>2, <2>3, <2>4
<1>9. SubSeq(x, first, Len(x)) = SubSeq(s, 1, k)
    <2> DEFINE u == SubSeq(x, first, Len(x))
               v == SubSeq(s, 1, k)
    <2>1. u \in Seq(Characters) /\ v \in Seq(Characters) /\ Len(u) = Len(v)
          /\ \A j \in 1..Len(u) : u[j] = v[j]
        BY <1>7, <1>8
    <2> HIDE DEF u, v
    <2>2. u = v
        BY <2>1, SeqEqual
    <2> QED
        BY <2>2 DEF u, v
<1> HIDE DEF first
<1> QED
    BY <1>6, <1>9

(* A reader that stood at o has come to the last character of s, which it  *)
(* has read as it reads s by itself, and has cut nothing.                  *)
ReadTo(text, o, s, start, found) ==
    /\ Len(s) \in Nat \ {0} /\ Len(text) \in Nat /\ o \in Nat /\ o + Len(s) <= Len(text)
    /\ \A k \in 1..Len(s) :
          /\ text[o + k] = s[k]
          /\ o + k \in 1..Len(text) /\ (o + k) - 1 = o + (k - 1)
          /\ IsEnd(text, o + k) <=> k \in AsSql(s, TRUE) /\ s[k] = ";"
    /\ SqlRead(text, TRUE)[o + (Len(s) - 1)] = SqlRead(s, TRUE)[Len(s) - 1]
    /\ SqlCuts(text)[o + (Len(s) - 1)] = [start |-> start, found |-> found]

(* A statement within a script: where the reader of the script finds       *)
(* semicolons of SQL, and that it cuts nothing before the last character.  *)
LEMMA StatementIsRead ==
    ASSUME NEW text \in Texts, NEW o \in 0..Len(text), NEW s \in Texts, Occurs(text, o, s),
           s # << >>, s[1] # "\n", CutsIn(s) \subseteq {Len(s)},
           NEW start \in Nat \ {0}, NEW found, SqlRead(text, TRUE)[o] = AtSql,
           SqlCuts(text)[o] = [start |-> start, found |-> found],
           start = o + 1 \/ (start = o /\ text[o] = "\n")
    PROVE  ReadTo(text, o, s, start, found)
<1> DEFINE n == Len(s)
           inText == SqlRead(text, TRUE)
           alone == SqlRead(s, TRUE)
           cuts == SqlCuts(text)
<1>1. n \in Nat \ {0} /\ Len(text) \in Nat /\ o \in Nat /\ o + n <= Len(text)
    <2>1. Len(s) \in Nat /\ (Len(s) = 0 => s = << >>)
        BY EmptySeq DEF Texts
    <2>2. Len(text) \in Nat
        BY DEF Texts
    <2> QED
        BY <2>1, <2>2 DEF Occurs
<1>3. \A k \in 1..n : text[o + k] = s[k]
    BY DEF Occurs
<1>5. \A i \in AsSql(s, TRUE) :
          s[i] = ";" /\ i # n => IsOpenTrigger(Tokens(SubSeq(s, 1, i)))
    BY DEF CutsIn
<1>7. \A k \in 0..n : k < n => SqlRead(text, TRUE)[o + k] = SqlRead(s, TRUE)[k]
    BY ReadAlone
<1>8. ASSUME NEW k \in 1..n, s[k] # "\n"
      PROVE  SinceCut(text, [start |-> start, found |-> found], o + k) = SubSeq(s, 1, k)
    <2>1. k \in 1..Len(s) /\ s[1] # "\n" /\ s[k] # "\n"
        BY <1>8
    <2> HIDE DEF n
    <2> QED
        BY <2>1, SinceCutIs
<1> HIDE DEF n
<1>10. inText[o] = AtSql /\ \A k \in 0..n : k < n => inText[o + k] = alone[k]
    BY <1>7
<1>11. ASSUME NEW k \in 1..n
      PROVE  /\ o + k \in 1..Len(text) /\ (o + k) - 1 = o + (k - 1)
             /\ k - 1 \in 0..n /\ k - 1 < n
    BY <1>1
<1>12. \A k \in 1..n : IsEnd(text, o + k) <=> k \in AsSql(s, TRUE) /\ s[k] = ";"
    <2> TAKE k \in 1..n
    <2>1. o + k \in AsSql(text, TRUE) <=> inText[o + (k - 1)] = AtSql
        BY <1>11 DEF AsSql
    <2>2. k \in AsSql(s, TRUE) <=> alone[k - 1] = AtSql
        BY DEF AsSql, n
    <2> HIDE DEF inText, alone
    <2>3. inText[o + (k - 1)] = alone[k - 1]
        BY <1>10, <1>11
    <2> QED
        BY <1>3, <2>1, <2>2, <2>3 DEF IsEnd
<1>13. inText[o + (n - 1)] = alone[n - 1]
    <2>1. n \in 1..n
        BY <1>1
    <2> HIDE DEF inText, alone
    <2> QED
        BY <1>10, <1>11, <2>1
<1>15. \A k \in 1..Len(text) : cuts[k] = CutAt(text, k, cuts[k - 1], IsEnd(text, k))
    BY SqlCutsSteps
<1>9. cuts[o] = [start |-> start, found |-> found]
    OBVIOUS
<1> HIDE DEF cuts
<1> DEFINE cut == [start |-> start, found |-> found]
<1>16. ASSUME NEW k \in 1..n, k < n, IsEnd(text, o + k)
      PROVE  /\ SinceCut(text, cut, o + k) = SubSeq(s, 1, k)
             /\ IsOpenTrigger(Tokens(SubSeq(s, 1, k)))
    <2>1. k \in AsSql(s, TRUE) /\ s[k] = ";"
        BY <1>12, <1>16
    <2>3. k # n
        BY <1>1, <1>16
    <2>2. SinceCut(text, cut, o + k) = SubSeq(s, 1, k)
        <3>1. s[k] # "\n"
            BY <2>1
        <3> QED
            BY <1>8, <3>1
    <2> QED
        BY <1>5, <2>1, <2>2, <2>3
<1> HIDE DEF cut
<1>17. \A k \in Nat : k < n => cuts[o + k] = cut
    <2> DEFINE P == {k \in Nat : k < n => cuts[o + k] = cut}
    <2>1. 0 \in P
        <3>1. o + 0 = o
            BY <1>1
        <3> QED
            BY <1>9, <3>1 DEF cut
    <2>2. ASSUME NEW k \in Nat, k \in P PROVE k + 1 \in P
        <3> SUFFICES ASSUME k + 1 < n PROVE cuts[o + (k + 1)] = cut
            OBVIOUS
        <3>1. /\ k + 1 \in 1..n /\ o + (k + 1) \in 1..Len(text) /\ (o + (k + 1)) - 1 = o + k
              /\ cuts[o + k] = cut
            <4>1. k + 1 \in 1..n /\ k < n /\ (o + (k + 1)) - 1 = o + k
                BY <1>1
            <4> QED
                BY <1>11, <2>2, <4>1
        <3>2. cuts[o + (k + 1)] = CutAt(text, o + (k + 1), cut, IsEnd(text, o + (k + 1)))
            BY <1>15, <3>1
        <3>3. CASE IsEnd(text, o + (k + 1))
            <4>1. SinceCut(text, cut, o + (k + 1)) = SubSeq(s, 1, k + 1)
                BY <1>16, <3>1, <3>3
            <4>2. IsOpenTrigger(Tokens(SubSeq(s, 1, k + 1)))
                BY <1>16, <3>1, <3>3
            <4> QED
                BY <3>2, <4>1, <4>2 DEF CutAt
        <3>4. CASE ~IsEnd(text, o + (k + 1))
            BY <3>2, <3>4 DEF CutAt
        <3> QED
            BY <3>3, <3>4
    <2>3. Nat \subseteq P
        <3> HIDE DEF P
        <3> QED
            BY <2>1, <2>2, SetInduction
    <2> QED
        BY <2>3
<1>18. cuts[o + (n - 1)] = cut
    <2>1. n - 1 \in Nat /\ n - 1 < n
        BY <1>1
    <2> QED
        BY <1>17, <2>1
<1> HIDE DEF inText, alone
<1>19. \A k \in 1..n : o + k \in 1..Len(text) /\ (o + k) - 1 = o + (k - 1)
    BY <1>11
<1> QED
    BY <1>1, <1>3, <1>12, <1>13, <1>18, <1>19 DEF ReadTo, n, cuts, cut, inText, alone

(* A complete statement and the end of its line: the reader cuts the       *)
(* statement off.                                                          *)
LEMMA StatementIsCut ==
    ASSUME NEW text \in Texts, NEW o \in 0..Len(text), NEW s \in Texts, IsComplete(s),
           Occurs(text, o, s), NEW found, JustCut(text, o, found),
           o + Len(s) + 1 <= Len(text), text[o + Len(s) + 1] = "\n"
    PROVE  JustCut(text, o + Len(s) + 1, Append(found, s))
<1> DEFINE n == Len(s)
           inText == SqlRead(text, TRUE)
           alone == SqlRead(s, TRUE)
           cuts == SqlCuts(text)
<1>2. /\ s # << >> /\ s[1] # "\n" /\ s[n] = ";" /\ text[o + n + 1] = "\n" /\ CutsIn(s) = {n}
      /\ n \in AsSql(s, TRUE) /\ ~IsOpenTrigger(Tokens(SubSeq(s, 1, n)))
    BY DEF IsComplete, CutsIn
<1>6. SubSeq(s, 1, n) = s
    BY SubSeqFull DEF Texts
<1>9. PICK start \in Nat \ {0} : /\ cuts[o] = [start |-> start, found |-> found]
                                 /\ start = o + 1 \/ (start = o /\ text[o] = "\n")
    BY DEF JustCut
<1>10. inText[o] = AtSql
    BY DEF JustCut
<1>11. /\ n \in Nat \ {0} /\ Len(text) \in Nat /\ o \in Nat
       /\ \A k \in 1..n :
             /\ text[o + k] = s[k]
             /\ o + k \in 1..Len(text) /\ (o + k) - 1 = o + (k - 1)
             /\ IsEnd(text, o + k) <=> k \in AsSql(s, TRUE) /\ s[k] = ";"
       /\ inText[o + (n - 1)] = alone[n - 1]
       /\ cuts[o + (n - 1)] = [start |-> start, found |-> found]
    <2>1. CutsIn(s) \subseteq {Len(s)}
        BY <1>2
    <2>2. SqlRead(text, TRUE)[o] = AtSql
        BY <1>10
    <2>3. /\ SqlCuts(text)[o] = [start |-> start, found |-> found]
          /\ start = o + 1 \/ (start = o /\ text[o] = "\n")
        BY <1>9
    <2>4. s # << >> /\ s[1] # "\n"
        BY <1>2
    <2>5. ReadTo(text, o, s, start, found)
        BY <2>1, <2>2, <2>3, <2>4, StatementIsRead, Zenon
    <2> QED
        BY <2>5, Zenon DEF ReadTo
<1>1. n \in Nat \ {0} /\ Len(text) \in Nat /\ o \in Nat /\ o + n + 1 <= Len(text) /\ n \in 1..n
    <2>1. n \in Nat \ {0} /\ Len(text) \in Nat /\ o \in Nat /\ o + n + 1 <= Len(text)
        <3>1. n \in Nat \ {0} /\ Len(text) \in Nat /\ o \in Nat
            BY <1>11, Zenon
        <3> QED
            BY <3>1
    <2> HIDE DEF n
    <2> QED
        BY <2>1
<1>8. SinceCut(text, [start |-> start, found |-> found], o + n) = s
    <2>1. n \in 1..Len(s) /\ s[1] # "\n" /\ s[n] # "\n"
        BY <1>1, <1>2
    <2> HIDE DEF n
    <2> QED
        BY <1>6, <1>9, <2>1, SinceCutIs
<1>13. inText[o + (n - 1)] = AtSql
    <2>1. alone[n - 1] = AtSql
        BY <1>2 DEF AsSql
    <2> HIDE DEF inText, alone, n
    <2> QED
        BY <1>11, <2>1
<1> HIDE DEF n, alone
<1>14. inText[o + n] = AtSql /\ inText[o + n + 1] = AtSql
    <2>1. SqlRead(text, TRUE)[o + n] = AtSql
        <3>1. n \in 1..n
            BY <1>1
        <3>3. o + n \in 1..Len(text) /\ (o + n) - 1 = o + (n - 1)
            BY <1>11, <3>1
        <3>4. text[o + n] \in {";", "\n"}
            BY <1>2, <1>11, <3>1
        <3>2. SqlRead(text, TRUE)[(o + n) - 1] = AtSql
            BY <1>13, <3>3, Zenon
        <3> QED
            BY <3>2, <3>3, <3>4, StaysInSql
    <2>2. SqlRead(text, TRUE)[o + n + 1] = AtSql
        <3>1. (o + n + 1) - 1 = o + n /\ o + n + 1 \in 1..Len(text)
            BY <1>1
        <3>2. SqlRead(text, TRUE)[(o + n + 1) - 1] = AtSql
            BY <2>1, <3>1, Zenon
        <3>3. text[o + n + 1] \in {";", "\n"}
            BY <1>2
        <3> QED
            BY <3>1, <3>2, <3>3, StaysInSql
    <2> QED
        BY <2>1, <2>2
<1>15. \A k \in 1..Len(text) : cuts[k] = CutAt(text, k, cuts[k - 1], IsEnd(text, k))
    BY SqlCutsSteps
<1> HIDE DEF cuts, inText
<1> DEFINE cut == [start |-> start, found |-> found]
<1>18. cuts[o + n] = [start |-> o + n + 1, found |-> Append(found, s)]
    <2>1. n \in 1..n /\ o + n \in 1..Len(text) /\ (o + n) - 1 = o + (n - 1)
        BY <1>1, <1>11
    <2>2. cuts[o + n] = CutAt(text, o + n, cut, IsEnd(text, o + n))
        BY <1>11, <1>15, <2>1
    <2>3. IsEnd(text, o + n)
        BY <1>2, <1>11, <2>1
    <2>4. SinceCut(text, cut, o + n) = s /\ ~IsOpenTrigger(Tokens(s))
        BY <1>2, <1>6, <1>8
    <2>5. cut.found = found
        OBVIOUS
    <2> HIDE DEF cut
    <2> QED
        BY <2>2, <2>3, <2>4, <2>5 DEF CutAt
<1>19. cuts[o + n + 1] = [start |-> o + n + 1, found |-> Append(found, s)]
    <2>1. ~IsEnd(text, o + n + 1)
        BY <1>2 DEF IsEnd
    <2>2. (o + n + 1) - 1 = o + n
        BY <1>1
    <2>3. o + n + 1 \in 1..Len(text)
        BY <1>1
    <2> QED
        BY <1>15, <1>18, <2>1, <2>2, <2>3 DEF CutAt
<1>20. o + n + 1 \in Nat \ {0} /\ text[o + n + 1] = "\n"
    <2>1. o + n + 1 \in Nat \ {0}
        BY <1>1
    <2> QED
        BY <1>2, <2>1
<1>21. SqlRead(text, TRUE)[o + n + 1] = AtSql
    BY <1>14 DEF inText
<1> QED
    BY <1>19, <1>20, <1>21 DEF JustCut, cuts, n

(* What there is since the cut is trimmed of the end of a line.             *)
LEMMA TrimsLineEnd ==
    ASSUME NEW text \in Texts, NEW a \in Nat \ {0}, NEW b \in Nat, a <= b, b + 1 <= Len(text),
           text[b + 1] = "\n"
    PROVE  Trimmed(SubSeq(text, a, b + 1)) = Trimmed(SubSeq(text, a, b))
<1> DEFINE x == SubSeq(text, a, b)
           y == SubSeq(text, a, b + 1)
           n == Len(x)
           kept == {i \in 1..n : x[i] # "\n"}
           keptMore == {i \in 1..Len(y) : y[i] # "\n"}
<1>1. Len(text) \in Nat /\ \A i \in 1..Len(text) : text[i] \in Characters
    BY ElementOfSeq DEF Texts
<1>2. /\ x \in Seq(Characters) /\ n = b - a + 1 /\ n \in Nat
      /\ \A i \in 1..n : x[i] = text[a + i - 1]
    <2>1. (\A i \in a..b : text[i] \in Characters) /\ a \in Int /\ b \in Int
        BY <1>1
    <2>2. /\ x \in Seq(Characters) /\ Len(x) = IF a <= b THEN b - a + 1 ELSE 0
          /\ \A i \in 1..(b - a + 1) : x[i] = text[a + i - 1]
        BY <2>1, SubSeqProperties
    <2> HIDE DEF x
    <2> QED
        BY <2>2
<1>3. /\ y \in Seq(Characters) /\ Len(y) = n + 1
      /\ \A i \in 1..(n + 1) : y[i] = text[a + i - 1]
    <2>1. (\A i \in a..(b + 1) : text[i] \in Characters) /\ a \in Int /\ b + 1 \in Int
        BY <1>1
    <2>2. /\ y \in Seq(Characters) /\ Len(y) = IF a <= b + 1 THEN (b + 1) - a + 1 ELSE 0
          /\ \A i \in 1..((b + 1) - a + 1) : y[i] = text[a + i - 1]
        BY <2>1, SubSeqProperties
    <2>3. (b + 1) - a + 1 = n + 1 /\ a <= b + 1
        BY <1>2
    <2> HIDE DEF x, y, n
    <2> QED
        BY <2>2, <2>3
<1> HIDE DEF x, y, n
<1>4. (\A i \in 1..n : y[i] = x[i]) /\ y[n + 1] = "\n"
    <2>1. \A i \in 1..n : i \in 1..(n + 1)
        BY <1>2
    <2>2. n + 1 \in 1..(n + 1) /\ a + (n + 1) - 1 = b + 1
        BY <1>2
    <2> QED
        BY <1>2, <1>3, <2>1, <2>2
<1>5. keptMore = kept
    <2>1. \A i \in 1..(n + 1) : i # n + 1 => i \in 1..n
        BY <1>2
    <2>2. \A i \in 1..n : i \in 1..(n + 1)
        BY <1>2
    <2> QED
        BY <1>3, <1>4, <2>1, <2>2
<1>6. CASE kept = {}
    BY <1>5, <1>6 DEF Trimmed, TrimmedTo, x, y, n
<1>7. CASE kept # {}
    <2>1. kept \subseteq Nat /\ (\A i \in kept : i <= n) /\ \A i \in kept : i \in 1..n
        BY <1>2
    <2> HIDE DEF kept
    <2> DEFINE low == Min(kept)
               high == Max(kept)
    <2>2. low \in 1..n /\ high \in 1..n /\ low <= high
        <3>1. low \in kept /\ high \in kept /\ \A i \in kept : i <= high
            BY <1>2, <1>7, <2>1, MinOfNumbers, MaxOfNumbers
        <3> QED
            BY <2>1, <3>1
    <2> HIDE DEF low, high
    <2>3. low \in Int /\ high \in Int /\ \A i \in low..high : i \in 1..n
        BY <1>2, <2>2
    <2>4. \A i \in low..high : x[i] \in Characters /\ y[i] \in Characters /\ y[i] = x[i]
        <3>1. \A i \in 1..n : i \in 1..Len(x)
            BY DEF n
        <3>2. \A i \in 1..n : x[i] \in Characters
            BY <1>2, <3>1, ElementOfSeq
        <3> QED
            BY <1>4, <2>3, <3>2
    <2> DEFINE u == SubSeq(x, low, high)
               v == SubSeq(y, low, high)
    <2>5. /\ u \in Seq(Characters) /\ Len(u) = IF low <= high THEN high - low + 1 ELSE 0
          /\ \A i \in 1..(high - low + 1) : u[i] = x[low + i - 1]
        BY <2>3, <2>4, SubSeqProperties
    <2>6. /\ v \in Seq(Characters) /\ Len(v) = IF low <= high THEN high - low + 1 ELSE 0
          /\ \A i \in 1..(high - low + 1) : v[i] = y[low + i - 1]
        BY <2>3, <2>4, SubSeqProperties
    <2>7. \A i \in 1..(high - low + 1) : low + i - 1 \in low..high
        BY <2>3
    <2> HIDE DEF u, v
    <2>8. u = v
        BY <2>2, <2>4, <2>5, <2>6, <2>7, SeqEqual
    <2> QED
        BY <1>5, <1>7, <2>8 DEF Trimmed, TrimmedTo, x, y, n, u, v, low, high, kept
<1> QED
    BY <1>6, <1>7

(* A last statement that nothing ends is what there is since the last cut. *)
LEMMA UnendedIsKept ==
    ASSUME NEW text \in Texts, NEW o \in 0..Len(text), NEW s \in Texts, IsUnended(s),
           Occurs(text, o, s), NEW found, JustCut(text, o, found),
           Len(text) = o + Len(s) + 1, text[o + Len(s) + 1] = "\n"
    PROVE  SplitSql(text) = Append(found, s)
<1> DEFINE n == Len(s)
           cuts == SqlCuts(text)
<1>1. s # << >> /\ s[1] # "\n" /\ s[n] # "\n" /\ CutsIn(s) = {}
    BY DEF IsUnended, Last
<1>2. PICK start \in Nat \ {0} : /\ cuts[o] = [start |-> start, found |-> found]
                                 /\ start = o + 1 \/ (start = o /\ text[o] = "\n")
    BY DEF JustCut
<1>3. ReadTo(text, o, s, start, found)
    <2>1. CutsIn(s) \subseteq {Len(s)}
        BY <1>1
    <2>2. SqlRead(text, TRUE)[o] = AtSql
        BY DEF JustCut
    <2>3. /\ SqlCuts(text)[o] = [start |-> start, found |-> found]
          /\ start = o + 1 \/ (start = o /\ text[o] = "\n")
        BY <1>2
    <2>4. s # << >> /\ s[1] # "\n"
        BY <1>1
    <2> QED
        BY <2>1, <2>2, <2>3, <2>4, StatementIsRead, Zenon
<1>4. n \in Nat \ {0} /\ Len(text) \in Nat /\ o \in Nat /\ n \in 1..n
    <2>1. n \in Nat \ {0} /\ Len(text) \in Nat /\ o \in Nat
        BY <1>3, Zenon DEF ReadTo
    <2> HIDE DEF n
    <2> QED
        BY <2>1
<1>5. SinceCut(text, [start |-> start, found |-> found], o + n) = s
    <2>1. n \in 1..Len(s) /\ s[1] # "\n" /\ s[n] # "\n"
        BY <1>1, <1>4
    <2>2. SubSeq(s, 1, n) = s
        BY SubSeqFull DEF Texts
    <2> HIDE DEF n
    <2> QED
        BY <1>2, <2>1, <2>2, SinceCutIs
<1>6. \A k \in 1..Len(text) : cuts[k] = CutAt(text, k, cuts[k - 1], IsEnd(text, k))
    BY SqlCutsSteps
<1>7. /\ o + n \in 1..Len(text) /\ (o + n) - 1 = o + (n - 1)
      /\ IsEnd(text, o + n) <=> n \in AsSql(s, TRUE) /\ s[n] = ";"
    BY <1>3, <1>4 DEF ReadTo
<1>8. cuts[o + (n - 1)] = [start |-> start, found |-> found]
    BY <1>3 DEF ReadTo
<1>9. IsEnd(text, o + n) => IsOpenTrigger(Tokens(s))
    <2>1. SubSeq(s, 1, n) = s
        BY SubSeqFull DEF Texts
    <2> QED
        BY <1>1, <1>7, <2>1 DEF CutsIn
<1> HIDE DEF cuts
<1> DEFINE cut == [start |-> start, found |-> found]
<1> HIDE DEF cut
<1>10. cuts[o + n] = cut
    <2>1. cuts[o + n] = CutAt(text, o + n, cut, IsEnd(text, o + n))
        BY <1>6, <1>7, <1>8 DEF cut
    <2>2. SinceCut(text, cut, o + n) = s
        BY <1>5 DEF cut
    <2> QED
        BY <1>9, <2>1, <2>2 DEF CutAt
<1>11. cuts[o + n + 1] = cut
    <2>1. ~IsEnd(text, o + n + 1)
        BY DEF IsEnd
    <2>2. (o + n + 1) - 1 = o + n /\ o + n + 1 \in 1..Len(text)
        BY <1>4
    <2> QED
        BY <1>6, <1>10, <2>1, <2>2 DEF CutAt
<1>12. SinceCut(text, cut, o + n + 1) = s
    <2>1. /\ start <= o + n /\ o + n \in Nat /\ (o + n) + 1 = o + n + 1
          /\ (o + n) + 1 <= Len(text)
        <3>1. start <= o + 1
            BY <1>2, <1>4
        <3> HIDE DEF n
        <3>2. Len(text) = o + n + 1
            BY DEF n
        <3> QED
            BY <1>4, <3>1, <3>2
    <2>2. text[(o + n) + 1] = "\n"
        BY <2>1
    <2> HIDE DEF n
    <2>3. Trimmed(SubSeq(text, start, (o + n) + 1)) = Trimmed(SubSeq(text, start, o + n))
        BY <2>1, <2>2, TrimsLineEnd
    <2> QED
        BY <1>5, <2>1, <2>3 DEF SinceCut, cut
<1>13. SplitSql(text) = CutLast(text, cut) /\ Len(text) = o + n + 1
    BY <1>11 DEF SplitSql, cuts
<1>14. cut.found = found
    BY DEF cut
<1> QED
    BY <1>1, <1>12, <1>13, <1>14 DEF CutLast

(* Statements that are complete, and the lines of a script.                *)
CompleteTexts == {s \in Texts : IsComplete(s)}
LinesOf(statements) == [i \in 1..Len(statements) |-> Append(statements[i], "\n")]

LEMMA LinesTyped ==
    ASSUME NEW statements \in Seq(Texts)
    PROVE  LinesOf(statements) \in Seq(Texts) /\ Len(LinesOf(statements)) = Len(statements)
<1> DEFINE T == Texts
<1>1. \A s \in T : Append(s, "\n") \in T
    <2>1. "\n" \in Characters
        BY ScriptAssumption DEF Marks
    <2> QED
        BY <2>1, AppendProperties DEF Texts
<1> HIDE DEF T
<1>2. statements \in Seq(T)
    BY DEF T
<1>3. Len(statements) \in Nat /\ \A k \in 1..Len(statements) : statements[k] \in T
    BY <1>2, ElementOfSeq
<1>4. LinesOf(statements) \in [1..Len(statements) -> T]
    BY <1>1, <1>3 DEF LinesOf
<1> QED
    BY <1>3, <1>4, FunctionIsSequence DEF T

LEMMA LinesOfAppend ==
    ASSUME NEW statements \in Seq(Texts), NEW s \in Texts
    PROVE  TextOf(Append(statements, s)) = TextOf(statements) \o Append(s, "\n")
<1> DEFINE T == Texts
           u == Append(statements, s)
<1>1. /\ u \in Seq(T) /\ Len(statements) \in Nat /\ Len(u) = Len(statements) + 1
      /\ u[Len(statements) + 1] = s /\ \A k \in 1..Len(statements) : u[k] = statements[k]
    <2> HIDE DEF T
    <2>1. statements \in Seq(T) /\ s \in T
        BY DEF T
    <2> QED
        BY <2>1, AppendProperties
<1> HIDE DEF u
<1>2. Append(s, "\n") \in T
    <2>1. "\n" \in Characters
        BY ScriptAssumption DEF Marks
    <2> QED
        BY <2>1, AppendProperties DEF Texts
<1>3. /\ LinesOf(statements) \in Seq(T) /\ LinesOf(u) \in Seq(T)
      /\ Len(LinesOf(statements)) = Len(statements) /\ Len(LinesOf(u)) = Len(statements) + 1
    BY <1>1, LinesTyped
<1>4. /\ \A k \in 1..Len(statements) : LinesOf(u)[k] = LinesOf(statements)[k]
      /\ LinesOf(u)[Len(statements) + 1] = Append(s, "\n")
    <2>1. /\ Len(statements) + 1 \in 1..Len(u)
          /\ \A k \in 1..Len(statements) : k \in 1..Len(u)
        BY <1>1
    <2> HIDE DEF T
    <2> QED
        BY <1>1, <2>1 DEF LinesOf
<1>5. LinesOf(u) = Append(LinesOf(statements), Append(s, "\n"))
    <2> HIDE DEF T
    <2> QED
        BY <1>2, <1>3, <1>4, AppendByElements
<1>6. FlattenSeq(LinesOf(u)) = FlattenSeq(LinesOf(statements)) \o Append(s, "\n")
    BY <1>2, <1>3, <1>5, FlattenAppend DEF Texts
<1> QED
    BY <1>6 DEF TextOf, LinesOf, u

(* A script of complete statements is cut into them.                       *)
LEMMA ScriptIsCut ==
    \A statements \in Seq(CompleteTexts) :
        /\ TextOf(statements) \in Texts
        /\ \A text \in Texts : Occurs(text, 0, TextOf(statements)) =>
              JustCut(text, Len(TextOf(statements)), statements)
<1> DEFINE C == CompleteTexts
           P == {statements \in Seq(C) :
                    /\ TextOf(statements) \in Texts
                    /\ \A text \in Texts : Occurs(text, 0, TextOf(statements)) =>
                          JustCut(text, Len(TextOf(statements)), statements)}
<1>1. << >> \in P
    <2>1. TextOf(<< >>) = << >>
        BY FlattenEmpty DEF TextOf
    <2>2. << >> \in Texts /\ << >> \in Seq(C) /\ Len(<< >>) = 0
        BY EmptySeq DEF Texts
    <2>3. ASSUME NEW text \in Texts PROVE JustCut(text, 0, << >>)
        <3>1. SqlRead(text, TRUE)[0] = AtSql /\ SqlCuts(text)[0] = [start |-> 1, found |-> << >>]
            BY SqlReadSteps, SqlCutsSteps
        <3>2. 1 \in Nat \ {0} /\ 1 = 0 + 1
            OBVIOUS
        <3> QED
            BY <3>1, <3>2, Zenon DEF JustCut
    <2> QED
        BY <2>1, <2>2, <2>3
<1>2. ASSUME NEW ss \in Seq(C), NEW s \in C, ss \in P
      PROVE  Append(ss, s) \in P
    <2> DEFINE before == TextOf(ss)
               line == Append(s, "\n")
    <2>1. s \in Texts /\ IsComplete(s)
        BY DEF CompleteTexts
    <2>2. ss \in Seq(Texts)
        <3>1. C \subseteq Texts
            BY DEF CompleteTexts
        <3> HIDE DEF C
        <3> QED
            BY <3>1, SeqMonotonic
    <2>3. TextOf(Append(ss, s)) = before \o line
        BY <2>1, <2>2, LinesOfAppend
    <2>4. /\ line \in Texts /\ Len(line) = Len(s) + 1 /\ line[Len(s) + 1] = "\n" /\ Len(s) \in Nat
          /\ \A k \in 1..Len(s) : line[k] = s[k]
        <3>1. "\n" \in Characters
            BY ScriptAssumption DEF Marks
        <3> QED
            BY <2>1, <3>1, AppendProperties DEF Texts
    <2>5. before \in Texts
        BY <1>2
    <2> HIDE DEF before, line
    <2>6. before \o line \in Texts
        BY <2>4, <2>5, TextsClosed
    <2>7. ASSUME NEW text \in Texts, Occurs(text, 0, before \o line)
          PROVE  JustCut(text, Len(before \o line), Append(ss, s))
        <3> DEFINE o == Len(before)
        <3>0. 0 \in 0..Len(text)
            BY DEF Texts
        <3>1. /\ Occurs(text, 0, before) /\ Occurs(text, 0 + o, line)
              /\ 0 + o \in 0..Len(text) /\ Len(before \o line) = o + Len(line)
            BY <2>4, <2>5, <2>7, <3>0, OccursConcat
        <3>2. 0 + o = o /\ o \in Nat
            BY <2>5 DEF Texts
        <3>3. JustCut(text, o, ss)
            BY <1>2, <3>1 DEF before
        <3> HIDE DEF o
        <3>4. Occurs(text, o, line) /\ o \in 0..Len(text)
            BY <3>1, <3>2
        <3>5. Occurs(text, o, s)
            <4>1. \A k \in 1..Len(s) : k \in 1..Len(line)
                BY <2>4
            <4>2. \A k \in 1..Len(s) : text[o + k] = s[k]
                BY <2>4, <3>4, <4>1 DEF Occurs
            <4>3. o + Len(s) <= Len(text)
                <5>1. Len(text) \in Nat
                    BY DEF Texts
                <5> QED
                    BY <2>4, <3>2, <3>4, <5>1 DEF Occurs
            <4> QED
                BY <4>2, <4>3 DEF Occurs
        <3>6. o + Len(s) + 1 <= Len(text) /\ text[o + Len(s) + 1] = "\n" /\ o + Len(line) = o + Len(s) + 1
            <4>1. o + Len(line) = o + Len(s) + 1 /\ o + (Len(s) + 1) = o + Len(s) + 1
                BY <2>4, <3>2
            <4>2. Len(s) + 1 \in 1..Len(line)
                BY <2>4
            <4>3. text[o + (Len(s) + 1)] = "\n" /\ o + Len(line) <= Len(text)
                BY <2>4, <3>4, <4>2 DEF Occurs
            <4> QED
                BY <4>1, <4>3
        <3>7. JustCut(text, o + Len(s) + 1, Append(ss, s))
            BY <2>1, <3>3, <3>4, <3>5, <3>6, StatementIsCut
        <3> QED
            BY <3>1, <3>6, <3>7
    <2>8. Append(ss, s) \in Seq(C)
        <3> HIDE DEF C
        <3> QED
            BY AppendProperties
    <2> QED
        BY <2>3, <2>6, <2>7, <2>8
<1>3. Seq(C) \subseteq P
    <2> HIDE DEF P, C
    <2> QED
        BY <1>1, <1>2, SequenceInduction
<1> QED
    BY <1>3

LEMMA CompleteSplits ==
    ASSUME NEW statements \in Seq(Texts),
           \A k \in 1..Len(statements) : IsComplete(statements[k])
    PROVE  SplitSql(TextOf(statements)) = statements
<1> DEFINE text == TextOf(statements)
           n == Len(text)
<1>1. statements \in Seq(CompleteTexts)
    <2> DEFINE T == Texts
               C == CompleteTexts
    <2>1. \A s \in T : IsComplete(s) => s \in C
        BY DEF CompleteTexts
    <2> HIDE DEF T, C
    <2>2. statements \in Seq(T)
        BY DEF T
    <2>3. Len(statements) \in Nat /\ \A k \in 1..Len(statements) : statements[k] \in C
        BY <2>1, <2>2, ElementOfSeq
    <2>4. statements \in [1..Len(statements) -> C]
        BY <2>2, <2>3, LenProperties
    <2>5. statements \in Seq(C)
        BY <2>3, <2>4, FunctionIsSequence
    <2> QED
        BY <2>5 DEF C
<1>2. /\ text \in Texts
      /\ \A t \in Texts : Occurs(t, 0, text) => JustCut(t, n, statements)
    BY <1>1, ScriptIsCut
<1> HIDE DEF text
<1>3. n \in Nat
    BY <1>2 DEF Texts
<1>4. Occurs(text, 0, text)
    BY <1>3 DEF Occurs
<1>5. PICK start \in Nat \ {0} : /\ SqlCuts(text)[n] = [start |-> start, found |-> statements]
                                 /\ start = n + 1 \/ (start = n /\ text[n] = "\n")
    BY <1>2, <1>4 DEF JustCut
<1> DEFINE cut == [start |-> start, found |-> statements]
           rest == SubSeq(text, start, n)
           kept == {i \in 1..Len(rest) : rest[i] # "\n"}
<1>6. kept = {}
    <2>1. CASE start = n + 1
        <3>1. rest = << >>
            <4>1. start \in Int /\ n \in Int /\ n < start
                BY <1>3, <2>1
            <4> QED
                BY <4>1, SubSeqEmpty
        <3> HIDE DEF rest
        <3> QED
            BY <3>1
    <2>2. CASE start = n /\ text[n] = "\n"
        <3>1. /\ start \in Int /\ n \in Int /\ start <= n /\ n - start + 1 = 1
              /\ \A i \in 1..1 : start + i - 1 = n
            BY <1>3, <2>2
        <3>2. \A i \in start..n : text[i] \in Characters
            <4>1. \A i \in 1..n : text[i] \in Characters
                BY <1>2, ElementOfSeq DEF Texts
            <4>2. \A i \in start..n : i \in 1..n
                BY <1>3, <2>2
            <4> QED
                BY <4>1, <4>2
        <3>3. /\ Len(rest) = IF start <= n THEN n - start + 1 ELSE 0
              /\ \A i \in 1..(n - start + 1) : rest[i] = text[start + i - 1]
            BY <3>1, <3>2, SubSeqProperties
        <3> HIDE DEF rest
        <3>4. Len(rest) = 1 /\ \A i \in 1..1 : rest[i] = "\n"
            BY <2>2, <3>1, <3>3
        <3> QED
            BY <3>4
    <2> QED
        BY <1>5, <2>1, <2>2
<1>7. SinceCut(text, cut, n) = << >>
    BY <1>6 DEF SinceCut, Trimmed, TrimmedTo
<1>8. SplitSql(text) = CutLast(text, cut)
    BY <1>5 DEF SplitSql
<1>9. cut.found = statements
    OBVIOUS
<1> HIDE DEF cut, n
<1> QED
    BY <1>7, <1>8, <1>9 DEF CutLast, text, n

(* A script of statements, each ended by a semicolon of its own but perhaps *)
(* the last, whatever quotes, comments and triggers they hold, is cut into  *)
(* exactly these statements (split_sql_statements).                         *)
THEOREM SplitReadsBack ==
    ASSUME NEW statements \in Seq(Texts), IsScript(statements)
    PROVE  SplitSql(TextOf(statements)) = statements
<1> DEFINE n == Len(statements)
           T == Texts
           C == CompleteTexts
           s == statements[n]
           before == SubSeq(statements, 1, n - 1)
<1>1. /\ n \in Nat /\ statements \in Seq(T)
      /\ \A k \in 1..n : statements[k] \in T
    BY ElementOfSeq
<1>2. CASE \A k \in 1..n : IsComplete(statements[k])
    BY <1>2, CompleteSplits
<1>3. CASE n # 0 /\ IsUnended(s)
    <2> HIDE DEF n, T, C, s
    <2>1. n \in 1..n /\ n - 1 \in Nat /\ \A k \in 1..(n - 1) : k \in 1..n /\ k # n
        BY <1>1, <1>3
    <2>2. /\ before \in Seq(C) /\ Len(before) = n - 1
          /\ \A k \in 1..(n - 1) : before[k] = statements[k]
        <3>1. \A k \in 1..(n - 1) : statements[k] \in C
            BY <1>1, <2>1 DEF IsScript, CompleteTexts, n, T, C
        <3>2. 1 \in Int /\ n - 1 \in Int /\ (n - 1) - 1 + 1 = n - 1
              /\ \A k \in 1..(n - 1) : 1 + k - 1 = k
            BY <2>1
        <3>3. /\ before \in Seq(C)
              /\ Len(before) = IF 1 <= n - 1 THEN (n - 1) - 1 + 1 ELSE 0
              /\ \A k \in 1..((n - 1) - 1 + 1) : before[k] = statements[1 + k - 1]
            BY <3>1, <3>2, SubSeqProperties
        <3> HIDE DEF before
        <3> QED
            BY <2>1, <3>2, <3>3
    <2> HIDE DEF before
    <2>3. before \in Seq(T) /\ s \in T
        <3>1. C \subseteq T
            BY DEF CompleteTexts, C, T
        <3> QED
            BY <1>1, <2>1, <2>2, <3>1, SeqMonotonic DEF s
    <2>4. statements = Append(before, s)
        <3>1. n = Len(before) + 1 /\ Len(before) + 1 = n
            BY <1>1, <2>2
        <3> QED
            BY <1>1, <2>2, <2>3, <3>1, AppendByElements DEF n, s
    <2> DEFINE head == TextOf(before)
               line == Append(s, "\n")
               text == TextOf(statements)
               o == Len(head)
    <2>5. text = head \o line
        BY <2>3, <2>4, LinesOfAppend DEF T
    <2>6. /\ head \in Texts
          /\ \A t \in Texts : Occurs(t, 0, head) => JustCut(t, o, before)
        BY <2>2, ScriptIsCut DEF C
    <2>7. /\ line \in Texts /\ Len(line) = Len(s) + 1 /\ line[Len(s) + 1] = "\n" /\ Len(s) \in Nat
          /\ \A k \in 1..Len(s) : line[k] = s[k]
        <3>1. "\n" \in Characters
            BY ScriptAssumption DEF Marks
        <3> QED
            BY <2>3, <3>1, AppendProperties DEF Texts, T
    <2> HIDE DEF head, line, text
    <2>8. text \in Texts /\ Len(text) \in Nat
        <3>1. text \in Texts
            BY <2>5, <2>6, <2>7, TextsClosed
        <3> QED
            BY <3>1 DEF Texts
    <2>9. /\ Occurs(text, 0, head) /\ Occurs(text, 0 + o, line)
          /\ 0 + o \in 0..Len(text) /\ Len(text) = o + Len(line)
        <3>1. 0 \in 0..Len(text) /\ Occurs(text, 0, head \o line)
            BY <2>5, <2>8 DEF Occurs
        <3>2. head \in Texts /\ line \in Texts
            BY <2>6, <2>7
        <3>3. /\ Occurs(text, 0, head) /\ Occurs(text, 0 + Len(head), line)
              /\ 0 + Len(head) \in 0..Len(text) /\ Len(head \o line) = Len(head) + Len(line)
            BY <2>8, <3>1, <3>2, OccursConcat
        <3> QED
            BY <2>5, <3>3
    <2>10. JustCut(text, o, before)
        BY <2>6, <2>8, <2>9
    <2>11. 0 + o = o /\ o \in Nat
        BY <2>6 DEF Texts
    <2> HIDE DEF o
    <2>12. Occurs(text, o, line) /\ o \in 0..Len(text)
        BY <2>9, <2>11
    <2>13. Len(text) = o + Len(s) + 1 /\ text[o + Len(s) + 1] = "\n"
        <3>1. Len(s) + 1 \in 1..Len(line) /\ o + (Len(s) + 1) = o + Len(s) + 1
            BY <2>7, <2>11
        <3>2. Len(text) = o + Len(s) + 1
            BY <2>7, <2>9, <2>11
        <3> QED
            BY <2>7, <2>12, <3>1, <3>2 DEF Occurs
    <2>14. Occurs(text, o, s)
        <3>1. \A k \in 1..Len(s) : k \in 1..Len(line)
            BY <2>7
        <3>2. \A k \in 1..Len(s) : text[o + k] = s[k]
            BY <2>7, <2>12, <3>1 DEF Occurs
        <3>3. o + Len(s) <= Len(text)
            BY <2>7, <2>11, <2>13
        <3> QED
            BY <3>2, <3>3 DEF Occurs
    <2>15. SplitSql(text) = Append(before, s)
        <3>1. s \in Texts
            BY <2>3 DEF T
        <3> QED
            BY <1>3, <2>8, <2>10, <2>12, <2>13, <2>14, <3>1, UnendedIsKept
    <2> QED
        BY <2>4, <2>15 DEF text
<1>4. (\A k \in 1..n : IsComplete(statements[k])) \/ (n # 0 /\ IsUnended(s))
    <2>1. \A k \in 1..n : IsComplete(statements[k]) \/ (k = n /\ IsUnended(statements[k]))
        BY DEF IsScript
    <2>2. \A k \in 1..n : k = n => n # 0
        BY <1>1
    <2> HIDE DEF n
    <2> QED
        BY <2>1, <2>2
<1> QED
    BY <1>2, <1>3, <1>4

-----------------------------------------------------------------------------
(* The plan of every command, and what is applied of it.                   *)

(* The scripts of a command are sequences of texts or of rows.             *)
LEMMA InputTyped ==
    ASSUME NEW i \in Inputs
    PROVE  /\ i.command \in Commands /\ Len(i.parts) \in Nat
           /\ \A p \in 1..Len(i.parts) :
                 IF i.command = "csv" THEN i.parts[p] \in Seq(Seq(Texts) \ {<< >>})
                 ELSE i.parts[p] \in Seq(Texts)
<1>1. CASE i.command = "csv"
    <2> DEFINE T == Seq(Seq(Texts) \ {<< >>})
    <2>1. i.parts \in Seq(T)
        BY <1>1, ScriptAssumption
    <2> HIDE DEF T
    <2>2. Len(i.parts) \in Nat /\ \A p \in 1..Len(i.parts) : i.parts[p] \in T
        BY <2>1, ElementOfSeq
    <2> QED
        BY <1>1, <2>2, ScriptAssumption DEF T
<1>2. CASE i.command # "csv"
    <2> DEFINE T == Seq(Texts)
    <2>1. i.parts \in Seq(T)
        BY <1>2, ScriptAssumption
    <2> HIDE DEF T
    <2>2. Len(i.parts) \in Nat /\ \A p \in 1..Len(i.parts) : i.parts[p] \in T
        BY <2>1, ElementOfSeq
    <2> QED
        BY <1>2, <2>2, ScriptAssumption DEF T
<1> QED
    BY <1>1, <1>2

(* A command all of whose statements are complete finds them again.        *)
THEOREM CompleteReadsBack ==
    ASSUME NEW i \in Inputs, AllComplete(i)
    PROVE  ReadsBack(i)
<1> SUFFICES ASSUME i.command \notin {"csv", "verify"}, NEW p \in 1..Len(i.parts)
             PROVE  SplitSql(TextOf(i.parts[p])) = i.parts[p]
    BY DEF ReadsBack
<1>1. i.parts[p] \in Seq(Texts)
    BY InputTyped
<1>2. IsScript(i.parts[p])
    BY DEF AllComplete
<1> QED
    BY <1>1, <1>2, SplitReadsBack

(* A plan holds the statements that are given, in their order: all of      *)
(* them, if it is whole.                                                   *)
LEMMA PlanIsGood ==
    ASSUME NEW i \in Inputs, ReadsBack(i), NEW p \in 1..Len(i.parts)
    PROVE  GoodPlan(i, p, PlansOf(i.command, i.parts)[p])
<1>1. p \in Nat /\ i.command \in Commands
    BY InputTyped
<1> DEFINE plan == PlansOf(i.command, i.parts)[p]
<1>2. CASE i.command = "csv"
    <2> DEFINE inserts == InsertsOf(i.parts[p])
               made == PlanInserts(inserts)
               found == made.batches
    <2>1. inserts \in Seq(Texts)
        <3> DEFINE R == Seq(Texts) \ {<< >>}
        <3>2. i.parts[p] \in Seq(R)
            BY <1>2, InputTyped
        <3> HIDE DEF R
        <3>3. Len(i.parts[p]) \in Nat /\ \A k \in 1..Len(i.parts[p]) : i.parts[p][k] \in R
            BY <3>2, ElementOfSeq
        <3>4. \A k \in 1..Len(i.parts[p]) : InsertOf(i.parts[p][k]) \in Texts
            BY <3>3, InsertTyped DEF R
        <3> QED
            BY <3>3, <3>4 DEF InsertsOf
    <2>2. plan = Labelled(made, p)
        <3>1. ParseCsv(CsvOf(i.parts[p])) = i.parts[p]
            BY <1>2, InputTyped, CsvReadsBack
        <3> QED
            BY <1>2, <3>1 DEF PlansOf, PlanCsv
    <2>3. GivenBy(i, p) = Numbered(p, AllOf(inserts), inserts)
        BY <1>2 DEF GivenBy, TextsOf
    <2> HIDE DEF inserts
    <2>4. /\ made = [batches |-> found, whole |-> made.whole, texts |-> inserts]
          /\ made.whole \in BOOLEAN
          /\ AllOf(inserts) \in Seq(1..Len(inserts))
          /\ found \in Seq(Batch(Seq(1..Len(inserts))))
          /\ \A b \in 1..Len(found) : found[b].of # << >>
          /\ IsPrefix(StatementsIn(found), AllOf(inserts))
          /\ made.whole => StatementsIn(found) = AllOf(inserts)
        BY <2>1, InsertsPlan
    <2> HIDE DEF made
    <2>5. plan.batches = Label(found, p, inserts) /\ plan.whole = made.whole
        BY <2>2, <2>4 DEF Labelled
    <2> HIDE DEF plan, found
    <2> QED
        BY <1>1, <1>2, <2>1, <2>3, <2>4, <2>5, LabelledPlan DEF GoodPlan, plan
<1>3. CASE i.command = "verify"
    <2> DEFINE texts == i.parts[p]
               made == PlanSmoke(texts)
               found == made.batches
    <2>1. texts \in Seq(Texts) /\ \A k \in 1..Len(texts) : Len(texts[k]) <= MaxText
        <3>1. Len(i.parts) = 1 /\ Len(i.parts[1]) = 3 /\ \A k \in 1..3 : Len(i.parts[1][k]) <= MaxText
            BY <1>3, ScriptAssumption
        <3> QED
            BY <1>3, <3>1, InputTyped
    <2>2. plan = Labelled(made, p)
        BY <1>3 DEF PlansOf
    <2>3. GivenBy(i, p) = Numbered(p, AllOf(texts), texts)
        BY <1>3 DEF GivenBy, TextsOf
    <2> HIDE DEF texts
    <2>4. /\ made = [batches |-> found, whole |-> TRUE, texts |-> texts]
          /\ AllOf(texts) \in Seq(1..Len(texts))
          /\ found \in Seq(Batch(Seq(1..Len(texts))))
          /\ \A b \in 1..Len(found) : found[b].of # << >> /\ found[b].bytes <= MaxText
          /\ StatementsIn(found) = AllOf(texts)
        BY <2>1, SmokePlan
    <2> HIDE DEF made
    <2>5. plan.batches = Label(found, p, texts) /\ plan.whole = TRUE
        BY <2>2, <2>4 DEF Labelled
    <2>6. IsPrefix(AllOf(texts), AllOf(texts))
        BY <2>4, PrefixTrivial
    <2> HIDE DEF plan, found
    <2>7. /\ plan.batches \in Seq(Batch(Seq(Item))) /\ Len(plan.batches) = Len(found)
          /\ \A b \in 1..Len(plan.batches) : /\ plan.batches[b].of # << >> /\ plan.batches[b].of[1].part = p
                                               /\ plan.batches[b].bytes = found[b].bytes
          /\ Numbered(p, AllOf(texts), texts) \in Seq(Item)
          /\ IsPrefix(StatementsIn(plan.batches), Numbered(p, AllOf(texts), texts))
          /\ StatementsIn(plan.batches) = Numbered(p, AllOf(texts), texts)
        BY <1>1, <2>1, <2>4, <2>5, <2>6, LabelledPlan
    <2> QED
        BY <1>3, <2>3, <2>4, <2>5, <2>7 DEF GoodPlan, plan
<1>4. CASE i.command \notin {"csv", "verify"}
    <2> DEFINE texts == i.parts[p]
               made == PlanStatements(texts)
               found == made.batches
               items == Executable(texts)
    <2>1. texts \in Seq(Texts)
        BY <1>4, InputTyped
    <2>2. plan = Labelled(made, p)
        BY <1>4 DEF PlansOf, PlanScript, ReadsBack
    <2>3. GivenBy(i, p) = Numbered(p, items, texts)
        BY <1>4 DEF GivenBy, TextsOf
    <2>4. \A k \in 1..Len(texts) : Refused(texts[k]) <=> Refused(i.parts[p][k])
        OBVIOUS
    <2> HIDE DEF texts
    <2>5. /\ made = [batches |-> found, whole |-> made.whole, texts |-> texts]
          /\ made.whole \in BOOLEAN
          /\ items \in Seq(1..Len(texts))
          /\ found \in Seq(Batch(Seq(1..Len(texts))))
          /\ \A b \in 1..Len(found) : found[b].of # << >> /\ found[b].bytes <= MaxText
          /\ made.whole => StatementsIn(found) = items
          /\ ~made.whole => found = << >> /\ \E k \in 1..Len(texts) : Refused(texts[k])
        BY <2>1, StatementsPlan
    <2> HIDE DEF made, items
    <2>6. plan.batches = Label(found, p, texts) /\ plan.whole = made.whole
        BY <2>2, <2>5 DEF Labelled
    <2>7. IsPrefix(StatementsIn(found), items)
        <3>1. IsPrefix(items, items) /\ IsPrefix(<< >>, items)
            BY <2>5, PrefixTrivial
        <3> QED
            BY <2>5, <3>1, StatementsInNone
    <2> HIDE DEF plan, found
    <2>8. /\ plan.batches \in Seq(Batch(Seq(Item))) /\ Len(plan.batches) = Len(found)
          /\ \A b \in 1..Len(plan.batches) : /\ plan.batches[b].of # << >> /\ plan.batches[b].of[1].part = p
                                               /\ plan.batches[b].bytes = found[b].bytes
          /\ Numbered(p, items, texts) \in Seq(Item)
          /\ IsPrefix(StatementsIn(plan.batches), Numbered(p, items, texts))
          /\ StatementsIn(found) = items => StatementsIn(plan.batches) = Numbered(p, items, texts)
        BY <1>1, <2>1, <2>5, <2>6, <2>7, LabelledPlan
    <2>9. ~plan.whole => plan.batches = << >> /\ \E k \in 1..Len(i.parts[p]) : Refused(i.parts[p][k])
        <3> SUFFICES ASSUME ~plan.whole
                     PROVE  plan.batches = << >> /\ \E k \in 1..Len(i.parts[p]) : Refused(i.parts[p][k])
            OBVIOUS
        <3>1. Len(plan.batches) = 0
            BY <2>5, <2>6, <2>8, EmptySeq
        <3> QED
            BY <2>5, <2>6, <2>8, <3>1, EmptySeq DEF texts
    <2> QED
        BY <2>3, <2>5, <2>6, <2>8, <2>9 DEF GoodPlan, plan
<1> QED
    BY <1>2, <1>3, <1>4

-----------------------------------------------------------------------------
(* What is given, and what is applied of it.                               *)

(* What is given by the first scripts of a command.                        *)
LEMMA GivenTyped ==
    ASSUME NEW i \in Inputs, ReadsBack(i), NEW n \in 0..Len(i.parts)
    PROVE  /\ [p \in 1..n |-> GivenBy(i, p)] \in Seq(Seq(Item))
           /\ GivenUpTo(i, n) \in Seq(Item)
           /\ IsPrefix(GivenUpTo(i, n), GivenUpTo(i, Len(i.parts)))
<1> DEFINE of(k) == [p \in 1..k |-> GivenBy(i, p)]
           T == Seq(Item)
<1>1. Len(i.parts) \in Nat
    BY InputTyped
<1>2. \A p \in 1..Len(i.parts) : GivenBy(i, p) \in T
    BY PlanIsGood DEF GoodPlan
<1>3. \A k \in 0..Len(i.parts) :
          /\ of(k) \in Seq(T) /\ Len(of(k)) = k
          /\ \A p \in 1..k : of(k)[p] = GivenBy(i, p)
    <2> HIDE DEF T
    <2> QED
        BY <1>1, <1>2
<1>4. GivenUpTo(i, n) = FlattenSeq(of(n)) /\ GivenUpTo(i, Len(i.parts)) = FlattenSeq(of(Len(i.parts)))
    BY DEF GivenUpTo
<1> HIDE DEF of
<1>5. of(n) \in Seq(T) /\ of(Len(i.parts)) \in Seq(T)
    BY <1>1, <1>3
<1>6. IsPrefix(of(n), of(Len(i.parts)))
    <2> HIDE DEF T
    <2> QED
        BY <1>1, <1>3, <1>5, PrefixByElements
<1>7. FlattenSeq(of(n)) \in Seq(Item)
    BY <1>5, FlattenInto
<1>8. IsPrefix(FlattenSeq(of(n)), FlattenSeq(of(Len(i.parts))))
    BY <1>5, <1>6, FlattenPrefix
<1> QED
    BY <1>4, <1>5, <1>7, <1>8 DEF of

(* One script more.                                                        *)
LEMMA GivenByNext ==
    ASSUME NEW i \in Inputs, ReadsBack(i), NEW n \in 0..(Len(i.parts) - 1)
    PROVE  GivenUpTo(i, n + 1) = GivenUpTo(i, n) \o GivenBy(i, n + 1)
<1> DEFINE of(k) == [p \in 1..k |-> GivenBy(i, p)]
           T == Seq(Item)
<1>1. Len(i.parts) \in Nat /\ n \in Nat /\ n \in 0..Len(i.parts) /\ n + 1 \in 0..Len(i.parts)
    BY InputTyped
<1>2. of(n) \in Seq(T) /\ of(n + 1) \in Seq(T)
    BY <1>1, GivenTyped
<1>3. GivenBy(i, n + 1) \in T
    BY <1>1, PlanIsGood DEF GoodPlan
<1>4. of(n + 1) = Append(of(n), GivenBy(i, n + 1))
    <2> HIDE DEF T
    <2>1. Len(of(n)) = n /\ Len(of(n + 1)) = n + 1
        BY <1>1
    <2>2. Append(of(n), GivenBy(i, n + 1)) \in Seq(T)
        BY <1>2, <1>3
    <2>3. \A p \in 1..(n + 1) : of(n + 1)[p] = Append(of(n), GivenBy(i, n + 1))[p]
        <3>1. \A p \in 1..(n + 1) : of(n + 1)[p] = GivenBy(i, p)
            OBVIOUS
        <3>2. \A p \in 1..n : of(n)[p] = GivenBy(i, p)
            OBVIOUS
        <3> HIDE DEF of
        <3> QED
            BY <1>1, <1>2, <1>3, <2>1, <3>1, <3>2
    <2> HIDE DEF of
    <2> QED
        BY <1>1, <1>2, <1>3, <2>1, <2>2, <2>3, SeqEqual
<1> HIDE DEF of
<1>5. FlattenSeq(Append(of(n), GivenBy(i, n + 1))) = FlattenSeq(of(n)) \o GivenBy(i, n + 1)
    BY <1>2, <1>3, FlattenAppend
<1>6. GivenUpTo(i, n) = FlattenSeq(of(n)) /\ GivenUpTo(i, n + 1) = FlattenSeq(of(n + 1))
    BY DEF GivenUpTo, of
<1> QED
    BY <1>4, <1>5, <1>6

-----------------------------------------------------------------------------
(* Only planned batches are applied, and none after the one the command    *)
(* stands at.                                                              *)
LEMMA AppliedInPlan ==
    ASSUME ScriptInv, NotBegun
    PROVE  \A i \in 1..Len(applied) :
              applied[i] # Other => applied[i] \in 1..Len(batches) /\ applied[i] <= at
<1> SUFFICES ASSUME NEW i \in 1..Len(applied), applied[i] # Other
             PROVE  applied[i] \in 1..Len(batches) /\ applied[i] <= at
    OBVIOUS
<1>1. applied[i] \in Writers \ {Other}
    BY DEF ScriptInv, WriteInv, TypeOK
<1>2. applied[i] \in Nat \ {0} /\ at \in Nat
    BY <1>1, WritersAreNumbers DEF Other, ScriptInv
<1>3. pc[applied[i]] # "start"
    BY <1>1 DEF ScriptInv, WriteInv, BelowWatermark, SignedFirst
<1>4. ~(applied[i] > at) /\ ~(applied[i] > Len(batches))
    BY <1>1, <1>3 DEF ScriptInv, BatchAfter, NotBegun
<1> QED
    BY <1>2, <1>4

(* How many batches are applied, when they are applied in order.           *)
Done == IF WasApplied(at) THEN at ELSE at - 1

(* No more batches are applied than are planned.                           *)
LEMMA DoneTyped ==
    ASSUME ScriptInv, NotBegun, at \in 1..Len(batches) + 1, Len(batches) \in Nat
    PROVE  Done \in 0..Len(batches)
<1>1. WasApplied(at) => at <= Len(batches)
    BY AppliedInPlan DEF WasApplied, Other
<1>2. (Done = at /\ WasApplied(at)) \/ Done = at - 1
    BY DEF Done
<1> QED
    BY <1>1, <1>2

(* The texts that are applied.                                            *)
AppliedTexts ==
    [i \in 1..Len(applied) |-> IF applied[i] = Other THEN << >> ELSE batches[applied[i]].of]

LEMMA AppliedTextsTyped ==
    ASSUME ScriptInv, NotBegun, batches \in Seq(Batch(Seq(Item)))
    PROVE  /\ AppliedTexts \in Seq(Seq(Item)) /\ Len(AppliedTexts) = Len(applied)
           /\ \A i \in 1..Len(applied) :
                 AppliedTexts[i] = IF applied[i] = Other THEN << >> ELSE batches[applied[i]].of
           /\ StatementsApplied = FlattenSeq(AppliedTexts)
<1> DEFINE T == Seq(Item)
           B == Batch(T)
<1>1. << >> \in T
    OBVIOUS
<1>2. \A b \in B : b.of \in T
    BY DEF Batch
<1>3. Len(applied) \in Nat
    BY DEF ScriptInv, WriteInv, TypeOK
<1> HIDE DEF T, B
<1>4. \A b \in 1..Len(batches) : batches[b] \in B
    BY ElementOfSeq DEF B, T
<1>5. \A i \in 1..Len(applied) :
          (IF applied[i] = Other THEN << >> ELSE batches[applied[i]].of) \in T
    BY <1>1, <1>2, <1>4, AppliedInPlan
<1>6. AppliedTexts \in Seq(T) /\ Len(AppliedTexts) = Len(applied)
    BY <1>3, <1>5 DEF AppliedTexts
<1> QED
    BY <1>6 DEF T, AppliedTexts, StatementsApplied

-----------------------------------------------------------------------------
LEMMA InitialTextsPlanned == ScriptInit => TextsPlanned
<1> SUFFICES ASSUME ScriptInit, ReadsBack(input) PROVE PlanInv
    BY DEF ScriptInit, TextsPlanned
<1>1. /\ input \in Inputs /\ part = 0 /\ batches = << >> /\ planned = TRUE /\ at = 1
      /\ failed = FALSE /\ outcome = "running" /\ applied = << >>
      /\ \A w \in Writers : pc[w] = "start"
    BY DEF ScriptInit, Init
<1>2. Len(batches) = 0 /\ Len(input.parts) \in Nat
    BY <1>1, InputTyped
<1>3. ScriptTypeOK
    <2>1. part \in 0..Len(input.parts) /\ at \in 1..Len(batches) + 1
        BY <1>1, <1>2
    <2>2. {planned, failed} \subseteq BOOLEAN /\ outcome \in Outcomes
        BY <1>1 DEF Outcomes
    <2> QED
        BY <1>1, <2>1, <2>2 DEF ScriptTypeOK
<1>4. StatementsPlanned = << >> /\ GivenUpTo(input, part) = << >>
    <2>1. [p \in 1..0 |-> GivenBy(input, p)] = << >>
        OBVIOUS
    <2> QED
        BY <1>1, <2>1, FlattenEmpty, StatementsInNone DEF StatementsPlanned, GivenUpTo
<1>5. IsPrefix(<< >>, << >>)
    <2>1. << >> \in Seq(Nat)
        OBVIOUS
    <2> QED
        BY <2>1, PrefixTrivial
<1>6. PlannedFromGiven
    BY <1>4, <1>5 DEF PlannedFromGiven
<1>7. PlannedBatches
    <2> DEFINE B == Batch(Seq(Item))
    <2> HIDE DEF B
    <2>1. << >> \in Seq(B)
        OBVIOUS
    <2> QED
        BY <1>1, <1>2, <2>1 DEF PlannedBatches, B
<1>8. NotPlanned /\ Ended /\ NotBegun
    BY <1>1 DEF NotPlanned, Ended, NotBegun
<1>9. AppliedUpToHere
    <2>1. StatementsApplied = << >>
        <3>1. [i \in 1..0 |-> IF applied[i] = Other THEN << >> ELSE batches[applied[i]].of] = << >>
            OBVIOUS
        <3>2. Len(applied) = 0
            BY <1>1
        <3> QED
            BY <3>1, <3>2, FlattenEmpty DEF StatementsApplied
    <2>2. ~WasApplied(at)
        BY <1>1 DEF WasApplied
    <2>3. SubSeq(batches, 1, at - 1) = << >>
        BY <1>1
    <2> QED
        BY <2>1, <2>2, <2>3, StatementsInNone DEF AppliedUpToHere
<1> QED
    BY <1>3, <1>6, <1>7, <1>8, <1>9 DEF PlanInv

-----------------------------------------------------------------------------
(* The next script of a command adds its batches after the others.         *)
LEMMA PlanKeepsPlan ==
    ASSUME ScriptInv, PlanInv, Plan, input \in Inputs, ReadsBack(input),
           plans = PlansOf(input.command, input.parts)
    PROVE  PlanInv'
<1> DEFINE more == plans[part + 1].batches
           whole == plans[part + 1].whole
           B == Batch(Seq(Item))
<1>1. /\ Running /\ ~BatchesLeft /\ planned /\ part < Len(input.parts)
      /\ batches' = batches \o more /\ planned' = whole /\ part' = part + 1
      /\ UNCHANGED <<given, at, failed, outcome, vars>>
    BY DEF Plan
<1>2. /\ part \in Nat /\ part + 1 \in 1..Len(input.parts) /\ Len(input.parts) \in Nat
      /\ part \in 0..(Len(input.parts) - 1)
    BY <1>1, InputTyped DEF PlanInv, ScriptTypeOK
<1>3. GoodPlan(input, part + 1, plans[part + 1])
    BY <1>2, PlanIsGood
<1>4. /\ more \in Seq(B) /\ batches \in Seq(B)
      /\ \A b \in 1..Len(more) : more[b].of # << >> /\ more[b].of[1].part = part + 1
    BY <1>3 DEF GoodPlan, PlanInv, PlannedBatches
<1> HIDE DEF more, whole, B
<1>5. /\ batches' \in Seq(B) /\ Len(batches) \in Nat /\ Len(more) \in Nat
      /\ Len(batches') = Len(batches) + Len(more)
      /\ \A b \in 1..Len(batches) : batches'[b] = batches[b]
      /\ \A b \in 1..Len(batches') : b > Len(batches) => batches'[b] = more[b - Len(batches)]
                                                         /\ b - Len(batches) \in 1..Len(more)
    BY <1>1, <1>4, ConcatProperties
<1>6. ScriptTypeOK'
    <2>1. whole \in BOOLEAN
        BY <1>3 DEF GoodPlan, whole
    <2> QED
        BY <1>1, <1>2, <1>5, <2>1 DEF PlanInv, ScriptTypeOK, given
<1>7. PlannedFromGiven'
    <2>1. StatementsPlanned' = StatementsPlanned \o StatementsIn(more)
        <3>1. StatementsIn(batches \o more) = StatementsIn(batches) \o StatementsIn(more)
            BY <1>4, StatementsInConcat DEF B
        <3> QED
            BY <1>1, <3>1 DEF StatementsPlanned
    <2>2. StatementsPlanned = GivenUpTo(input, part)
        BY <1>1 DEF PlanInv, PlannedFromGiven
    <2>3. GivenUpTo(input, part + 1) = GivenUpTo(input, part) \o GivenBy(input, part + 1)
        BY <1>2, GivenByNext
    <2>4. GivenUpTo(input, part) \in Seq(Item)
        BY <1>2, GivenTyped
    <2>5. /\ StatementsIn(more) \in Seq(Item)
          /\ GivenBy(input, part + 1) \in Seq(Item)
          /\ IsPrefix(StatementsIn(more), GivenBy(input, part + 1))
          /\ whole => StatementsIn(more) = GivenBy(input, part + 1)
        BY <1>3, <1>4, StatementsInTyped DEF GoodPlan, more, whole, B
    <2>6. IsPrefix(GivenUpTo(input, part) \o StatementsIn(more),
                   GivenUpTo(input, part) \o GivenBy(input, part + 1))
        BY <2>4, <2>5, PrefixAfter
    <2>7. GivenUpTo(input, part)' = GivenUpTo(input, part + 1)
        BY <1>1 DEF given, GivenUpTo, GivenBy, TextsOf, InsertsOf
    <2> QED
        BY <1>1, <2>1, <2>2, <2>3, <2>5, <2>6, <2>7 DEF PlannedFromGiven
<1>8. PlannedBatches'
    <2>1. input' = input /\ (planned' <=> whole)
        BY <1>1 DEF given
    <2>2. input.command # "csv" =>
              /\ \A b \in 1..Len(more) : more[b].bytes <= MaxText
              /\ ~whole => Len(more) = 0
        BY <1>3 DEF GoodPlan, more, whole
    <2>3. ASSUME NEW b \in 1..Len(batches')
          PROVE  /\ batches'[b].of # << >> /\ batches'[b].of[1].part \in 1..(part + 1)
                 /\ input.command # "csv" => batches'[b].bytes <= MaxText
                 /\ input.command # "csv" /\ ~whole => batches'[b].of[1].part # part + 1
        <3>1. CASE b \in 1..Len(batches)
            BY <1>2, <1>5, <3>1 DEF PlanInv, PlannedBatches
        <3>2. CASE b > Len(batches)
            BY <1>2, <1>4, <1>5, <2>2, <3>2
        <3> QED
            BY <1>5, <3>1, <3>2
    <2> QED
        BY <1>1, <1>5, <2>1, <2>3 DEF PlannedBatches, B
<1>9. NotPlanned'
    BY <1>1, <1>2, <1>3 DEF NotPlanned, GoodPlan, given, whole
<1>10. Ended'
    BY <1>1 DEF Ended, Running
<1>11. NotBegun'
    <2>1. pc' = pc
        BY <1>1 DEF vars, calls
    <2>2. \A b \in Writers : b \in Nat
        BY WritersAreNumbers
    <2>3. \A b \in Writers : b > Len(batches') => b > Len(batches)
        BY <1>5, <2>2
    <2> QED
        BY <2>1, <2>3 DEF PlanInv, NotBegun
<1>12. AppliedUpToHere'
    <2> SUFFICES ASSUME InOrder PROVE AppliedUpToHere'
        BY <1>1 DEF AppliedUpToHere, given, InOrder, NoWait, Smoke
    <2>1. applied' = applied /\ at' = at
        BY <1>1 DEF vars, circle
    <2>2. StatementsApplied' = StatementsApplied
        <3>1. \A i \in 1..Len(applied) :
                  applied[i] # Other => batches'[applied[i]] = batches[applied[i]]
            BY <1>5, AppliedInPlan DEF PlanInv
        <3> QED
            BY <2>1, <3>1 DEF StatementsApplied
    <2>3. Done \in 0..Len(batches)
        BY <1>5, DoneTyped DEF PlanInv, ScriptTypeOK
    <2>4. SubSeq(batches', 1, Done) = SubSeq(batches, 1, Done)
        <3> DEFINE d == Done
        <3>1. d \in 0..Len(batches)
            BY <2>3
        <3> HIDE DEF d
        <3>2. SubSeq(batches', 1, d) = SubSeq(batches, 1, d)
            BY <1>4, <1>5, <3>1, SubSeqProperties
        <3> QED
            BY <3>2 DEF d
    <2>5. (IF WasApplied(at) THEN at ELSE at - 1)' = Done
        BY <2>1 DEF Done, WasApplied
    <2>6. StatementsApplied = StatementsIn(SubSeq(batches, 1, Done))
        BY DEF PlanInv, AppliedUpToHere, Done
    <2> QED
        BY <2>2, <2>4, <2>5, <2>6 DEF AppliedUpToHere
<1> QED
    BY <1>6, <1>7, <1>8, <1>9, <1>10, <1>11, <1>12 DEF PlanInv

-----------------------------------------------------------------------------
(* A call of a batch, or of the other process, applies nothing.            *)
LEMMA CallKeepsPlan ==
    ASSUME ScriptInv, PlanInv, NEW w \in Writers, CallStep(w), UNCHANGED script,
           w = Other \/ w <= Len(batches)
    PROVE  PlanInv'
<1>1. /\ UNCHANGED circle
      /\ \A v \in Writers \ {w} : pc'[v] = pc[v]
    BY CallStepFrame DEF ScriptInv
<1>2. UNCHANGED <<input, plans, part, batches, planned, at, failed, outcome, applied>>
    BY <1>1 DEF script, given, circle
<1>3. /\ ScriptTypeOK' /\ PlannedFromGiven' /\ PlannedBatches' /\ NotPlanned' /\ Ended'
    BY <1>2 DEF PlanInv, ScriptTypeOK, PlannedFromGiven, PlannedBatches, NotPlanned, Ended,
                StatementsPlanned, BatchesLeft, Submits
<1>4. NotBegun'
    <2> DEFINE B == Batch(Seq(Item))
    <2>1. batches \in Seq(B)
        BY DEF PlanInv, PlannedBatches
    <2> HIDE DEF B
    <2>2. Len(batches) \in Nat
        BY <2>1
    <2>3. \A b \in Writers : b \in Nat
        BY WritersAreNumbers
    <2> QED
        BY <1>1, <1>2, <2>2, <2>3 DEF PlanInv, NotBegun
<1>5. AppliedUpToHere'
    BY <1>2 DEF PlanInv, AppliedUpToHere, StatementsApplied, WasApplied, InOrder, NoWait, Smoke
<1> QED
    BY <1>3, <1>4, <1>5 DEF PlanInv

(* What the chain applies is the batch the command stands at, or another   *)
(* process's write.                                                        *)
LEMMA AppliesTheOneAt ==
    ASSUME ScriptInv, InOrder, NEW w \in Writers \ {Other}, Acceptable(w), nonce[w] > 0
    PROVE  w = at /\ ~WasApplied(w)
<1>1. w \in Nat /\ at \in Nat
    BY WritersAreNumbers DEF ScriptInv
<1>2. nonce[w] \in Nat /\ ownerSequence \in Nat
    BY DEF ScriptInv, WriteInv, TypeOK
<1>3. ~WasApplied(w)
    BY <1>2 DEF ScriptInv, WriteInv, BelowWatermark, WasApplied, Acceptable
<1>4. ~(w < at)
    BY <1>3 DEF ScriptInv, BatchBefore, WriteInv, ResultsFromReceipts
<1>5. ~(w > at)
    BY <1>2 DEF ScriptInv, BatchAfter, WriteInv, SignedFirst
<1> QED
    BY <1>1, <1>3, <1>4, <1>5

LEMMA ChainKeepsPlan ==
    ASSUME ScriptInv, PlanInv, NEW w \in Writers, ChainStep(w), UNCHANGED script, ScriptInv'
    PROVE  PlanInv'
<1>1. UNCHANGED <<input, plans, part, batches, planned, at, failed, outcome>>
    BY DEF script, given
<1>2. UNCHANGED calls /\ \/ applied' = applied
                         \/ applied' = Append(applied, w) /\ Acceptable(w) /\ nonce[w] > 0
    BY ChainStepFrame DEF ScriptInv
<1>3. /\ ScriptTypeOK' /\ PlannedFromGiven' /\ PlannedBatches' /\ NotPlanned' /\ Ended'
    BY <1>1 DEF PlanInv, ScriptTypeOK, PlannedFromGiven, PlannedBatches, NotPlanned, Ended,
                StatementsPlanned, BatchesLeft, Submits
<1>4. NotBegun'
    BY <1>1, <1>2 DEF PlanInv, NotBegun, calls
<1>5. InOrder' = InOrder
    BY <1>1 DEF InOrder, NoWait, Smoke
<1>6. CASE applied' = applied
    <2>1. AppliedUpToHere'
        BY <1>1, <1>5, <1>6 DEF PlanInv, AppliedUpToHere, StatementsApplied, WasApplied
    <2> QED
        BY <1>3, <1>4, <2>1 DEF PlanInv
<1>7. CASE applied' = Append(applied, w) /\ Acceptable(w) /\ nonce[w] > 0
    <2> SUFFICES ASSUME InOrder PROVE AppliedUpToHere'
        BY <1>3, <1>4, <1>5 DEF PlanInv, AppliedUpToHere
    <2> DEFINE text == IF w = Other THEN << >> ELSE batches[w].of
               T == Seq(Item)
    <2>1. /\ applied \in Seq(Writers)
          /\ Len(applied') = Len(applied) + 1 /\ Len(applied) \in Nat
          /\ \A i \in 1..Len(applied) : applied'[i] = applied[i]
          /\ applied'[Len(applied) + 1] = w
        BY <1>7 DEF ScriptInv, WriteInv, TypeOK
    <2>2. batches \in Seq(Batch(T)) /\ at \in 1..Len(batches) + 1 /\ NotBegun
        BY DEF PlanInv, PlannedBatches, ScriptTypeOK
    <2>3. /\ AppliedTexts \in Seq(T)
          /\ StatementsApplied = FlattenSeq(AppliedTexts)
          /\ Len(AppliedTexts) = Len(applied)
        BY <2>2, AppliedTextsTyped
    <2>4. Len(batches) \in Nat /\ \A b \in 1..Len(batches) : batches[b] \in Batch(T)
        <3> DEFINE B == Batch(T)
        <3>1. batches \in Seq(B)
            BY <2>2
        <3> HIDE DEF B
        <3>2. Len(batches) \in Nat /\ \A b \in 1..Len(batches) : batches[b] \in B
            BY <3>1, ElementOfSeq
        <3> QED
            BY <3>2 DEF B
    <2>10. w # Other => w \in 1..Len(batches)
        <3>1. w \in Nat
            BY WritersAreNumbers
        <3>2. pc[w] # "start"
            BY <1>7 DEF ScriptInv, WriteInv, SignedFirst
        <3> QED
            BY <2>2, <2>4, <3>1, <3>2 DEF NotBegun, Other
    <2>5. AppliedTexts' = Append(AppliedTexts, text) /\ text \in T
        <3>1. text \in T
            <4>1. << >> \in T
                OBVIOUS
            <4> HIDE DEF T
            <4>2. w # Other => batches[w].of \in T
                BY <2>4, <2>10 DEF Batch
            <4> QED
                BY <4>1, <4>2
        <3>2. AppliedTexts' = [i \in 1..(Len(applied) + 1) |->
                  IF applied'[i] = Other THEN << >> ELSE batches[applied'[i]].of]
            BY <1>1, <2>1 DEF AppliedTexts
        <3>3. \A i \in 1..Len(applied) : AppliedTexts'[i] = AppliedTexts[i]
            BY <2>1, <3>2 DEF AppliedTexts
        <3>4. AppliedTexts'[Len(applied) + 1] = text
            BY <2>1, <3>2
        <3> DEFINE longer == [i \in 1..(Len(applied) + 1) |-> AppliedTexts'[i]]
        <3>5. AppliedTexts' = longer
            BY <3>2
        <3> HIDE DEF T, text
        <3>6. /\ AppliedTexts' \in Seq(T) /\ Len(AppliedTexts') = Len(applied) + 1
              /\ Append(AppliedTexts, text) \in Seq(T)
              /\ Len(Append(AppliedTexts, text)) = Len(applied) + 1
            <4>1. \A i \in 1..(Len(applied) + 1) : AppliedTexts'[i] \in T
                BY <2>1, <2>3, <3>1, <3>3, <3>4, ElementOfSeq
            <4>2. longer \in Seq(T) /\ Len(longer) = Len(applied) + 1
                BY <2>1, <4>1 DEF longer
            <4> QED
                BY <2>1, <2>3, <3>1, <3>5, <4>2, AppendProperties
        <3>7. \A i \in 1..(Len(applied) + 1) : AppliedTexts'[i] = Append(AppliedTexts, text)[i]
            BY <2>1, <2>3, <3>1, <3>3, <3>4, AppendProperties
        <3> QED
            BY <2>1, <3>1, <3>6, <3>7, SeqEqual
    <2>6. StatementsApplied' = StatementsApplied \o text
        <3>1. StatementsApplied' = FlattenSeq(AppliedTexts')
            BY DEF StatementsApplied, AppliedTexts
        <3>2. FlattenSeq(Append(AppliedTexts, text)) = FlattenSeq(AppliedTexts) \o text
            BY <2>3, <2>5, FlattenAppend
        <3> QED
            BY <2>3, <2>5, <3>1, <3>2
    <2>7. CASE w = Other
        <3>1. text = << >>
            BY <2>7
        <3>2. at # w
            BY <2>7 DEF ScriptInv, Other
        <3>3. WasApplied(at)' = WasApplied(at)
            BY <1>1, <2>1, <3>2 DEF WasApplied
        <3>4. StatementsApplied \in T
            BY <2>3, FlattenInto
        <3>5. StatementsApplied \o << >> = StatementsApplied
            BY <3>4
        <3> QED
            BY <1>1, <2>6, <3>1, <3>3, <3>5 DEF PlanInv, AppliedUpToHere
    <2>8. CASE w # Other
        <3>1. w = at /\ ~WasApplied(at)
            BY <1>7, <2>8, AppliesTheOneAt
        <3>2. WasApplied(at)'
            BY <1>1, <2>1, <3>1 DEF WasApplied
        <3>3. at \in 1..Len(batches)
            BY <2>8, <2>10, <3>1
        <3>4. text = batches[at].of
            BY <2>8, <3>1
        <3>5. SubSeq(batches, 1, at) = Append(SubSeq(batches, 1, at - 1), batches[at])
            <4> DEFINE B == Batch(T)
            <4>1. batches \in Seq(B)
                BY <2>2
            <4> HIDE DEF B
            <4> QED
                BY <2>2, <3>3, <4>1
        <3>6. /\ SubSeq(batches, 1, at - 1) \in Seq(Batch(Seq(Item)))
              /\ batches[at] \in Batch(Seq(Item))
            <4>1. at - 1 \in 0..Len(batches)
                BY <2>2, <3>3
            <4>2. SubSeq(batches, 1, at - 1) \in Seq(Batch(Seq(Item)))
                BY <2>2, <4>1, StatementsInPrefix
            <4> DEFINE B == Batch(Seq(Item))
            <4>3. batches \in Seq(B)
                BY <2>2
            <4> HIDE DEF B
            <4>4. batches[at] \in B
                BY <3>3, <4>3, ElementOfSeq
            <4> QED
                BY <4>2, <4>4 DEF B
        <3>7. StatementsIn(SubSeq(batches, 1, at)) =
              StatementsIn(SubSeq(batches, 1, at - 1)) \o batches[at].of
            BY <3>5, <3>6, StatementsInAppend
        <3>8. StatementsApplied = StatementsIn(SubSeq(batches, 1, at - 1))
            BY <3>1 DEF PlanInv, AppliedUpToHere
        <3> QED
            BY <1>1, <2>6, <3>2, <3>4, <3>7, <3>8 DEF AppliedUpToHere
    <2> QED
        BY <2>7, <2>8
<1> QED
    BY <1>2, <1>6, <1>7

(* A batch that is left behind by a command that waits is applied, and     *)
(* the next one is not.                                                    *)
LEMMA NextBatchKeepsPlan ==
    ASSUME ScriptInv, PlanInv, NextBatch \/ InsertFails
    PROVE  PlanInv'
<1>1. /\ Running /\ at \in 1..Len(batches) /\ pc[at] = "done" /\ at' = at + 1
      /\ UNCHANGED <<input, plans, part, batches, planned, vars>>
      /\ failed' \in BOOLEAN /\ outcome' \in {"running", "unverified"}
    BY DEF NextBatch, InsertFails, OwnerUnverified, BatchesLeft, given, Running, PlanInv, ScriptTypeOK
<1>2. Len(batches) \in Nat
    <2> DEFINE B == Batch(Seq(Item))
    <2>1. batches \in Seq(B)
        BY DEF PlanInv, PlannedBatches
    <2> HIDE DEF B
    <2> QED
        BY <2>1
<1>3. ScriptTypeOK'
    <2>1. at' \in 1..Len(batches') + 1
        BY <1>1, <1>2
    <2>2. outcome' \in Outcomes
        BY <1>1 DEF Outcomes
    <2> QED
        BY <1>1, <2>1, <2>2 DEF PlanInv, ScriptTypeOK
<1>4. PlannedFromGiven' /\ PlannedBatches' /\ NotPlanned' /\ NotBegun'
    BY <1>1 DEF PlanInv, PlannedFromGiven, PlannedBatches, NotPlanned, NotBegun,
                StatementsPlanned, vars, calls
<1>5. Ended'
    BY <1>1 DEF Ended
<1>6. AppliedUpToHere'
    <2> SUFFICES ASSUME InOrder PROVE AppliedUpToHere'
        BY <1>1 DEF AppliedUpToHere, InOrder, NoWait, Smoke
    <2>1. applied' = applied /\ pc' = pc /\ nonce' = nonce
        BY <1>1 DEF vars, calls, circle
    <2>2. at \in Writers \ {Other}
        BY <1>1 DEF ScriptInv, Other
    <2>3. result[at] = "ok"
        BY <2>2 DEF NextBatch, InsertFails, OwnerUnverified, Succeeded, InOrder, ScriptInv, BatchWaits
    <2>4. WasApplied(at)
        BY <2>2, <2>3 DEF ScriptInv, WriteInv, ResultsFromReceipts
    <2>5. ~WasApplied(at + 1)
        <3> SUFFICES ASSUME NEW i \in 1..Len(applied), applied[i] = at + 1 PROVE FALSE
            BY DEF WasApplied
        <3>1. at + 1 # Other /\ ~(at + 1 <= at)
            BY <1>1, <1>2 DEF Other
        <3> QED
            BY <3>1, AppliedInPlan DEF PlanInv
    <2>6. (at + 1) - 1 = at
        BY <1>1, <1>2
    <2>7. StatementsApplied' = StatementsApplied /\ ~WasApplied(at)' /\ at' - 1 = at
        BY <1>1, <2>1, <2>5, <2>6 DEF StatementsApplied, WasApplied
    <2> QED
        BY <1>1, <2>4, <2>7 DEF PlanInv, AppliedUpToHere
<1> QED
    BY <1>3, <1>4, <1>5, <1>6 DEF PlanInv

(* The end of a command.                                                   *)
LEMMA EndKeepsPlan ==
    ASSUME PlanInv, Refuse \/ RefuseBatch \/ Stop \/ Complete \/ UNCHANGED allVars
    PROVE  PlanInv'
<1>1. UNCHANGED <<input, plans, part, batches, planned, at, failed, vars>>
    BY DEF Refuse, RefuseBatch, Stop, Complete, allVars, script, given
<1>2. outcome' \in Outcomes
    BY DEF Refuse, RefuseBatch, Stop, Complete, allVars, script, Outcomes, PlanInv, ScriptTypeOK
<1>3. ScriptTypeOK' /\ PlannedFromGiven' /\ PlannedBatches' /\ NotPlanned' /\ NotBegun'
    BY <1>1, <1>2 DEF PlanInv, ScriptTypeOK, PlannedFromGiven, PlannedBatches, NotPlanned, NotBegun,
                StatementsPlanned, vars, calls
<1>4. AppliedUpToHere'
    BY <1>1 DEF PlanInv, AppliedUpToHere, StatementsApplied, WasApplied, InOrder, NoWait, Smoke,
                vars, circle
<1>5. Ended'
    <2>1. CASE Refuse \/ Stop \/ Complete
        BY <1>1, <2>1 DEF Refuse, Stop, Complete, Ended, BatchesLeft, Submits, PlanInv
    <2>2. CASE RefuseBatch
        <3>1. at \in 1..Len(batches) /\ ~(batches[at].bytes <= MaxText) /\ outcome' = "refused"
            BY <2>2 DEF RefuseBatch, BatchesLeft, BatchFits
        <3>2. input.command = "csv"
            BY <3>1 DEF PlanInv, PlannedBatches
        <3> QED
            BY <1>1, <3>1, <3>2 DEF Ended
    <2>3. CASE UNCHANGED allVars
        BY <1>1, <2>3 DEF allVars, script, Ended, PlanInv, BatchesLeft, Submits
    <2> QED
        BY <2>1, <2>2, <2>3
<1> QED
    BY <1>3, <1>4, <1>5 DEF PlanInv

(* Every step keeps the invariant.                                         *)
LEMMA StepKeepsTextsPlanned ==
    ScriptInv /\ ScriptInv' /\ TextsPlanned /\ [ScriptNext]_allVars => TextsPlanned'
<1> SUFFICES ASSUME ScriptInv, ScriptInv', TextsPlanned, [ScriptNext]_allVars PROVE TextsPlanned'
    OBVIOUS
<1>1. UNCHANGED given
    BY DEF ScriptNext, CommandStep, Plan, Refuse, RefuseBatch, ExecBatch, NextBatch, InsertFails,
           Stop, Complete, OthersStep, script, allVars
<1> SUFFICES ASSUME ReadsBack(input) PROVE PlanInv'
    BY <1>1 DEF TextsPlanned, given
<1>2. input \in Inputs /\ plans = PlansOf(input.command, input.parts) /\ PlanInv
    BY DEF TextsPlanned
<1>3. CASE Plan
    BY <1>2, <1>3, PlanKeepsPlan
<1>4. CASE OthersStep
    <2>1. Other \in Writers
        BY WritersAreNumbers
    <2> QED
        BY <1>2, <1>4, <2>1, CallKeepsPlan, ChainKeepsPlan DEF OthersStep
<1>5. CASE ExecBatch
    <2>1. at \in Writers /\ at <= Len(batches) /\ CallStep(at) /\ UNCHANGED script
        BY <1>2, <1>5 DEF ExecBatch, BatchesLeft, ScriptInv
    <2> QED
        BY <1>2, <2>1, CallKeepsPlan
<1>6. CASE NextBatch \/ InsertFails
    BY <1>2, <1>6, NextBatchKeepsPlan
<1>7. CASE Refuse \/ RefuseBatch \/ Stop \/ Complete \/ UNCHANGED allVars
    BY <1>2, <1>7, EndKeepsPlan
<1> QED
    BY <1>3, <1>4, <1>5, <1>6, <1>7 DEF ScriptNext, CommandStep

(* The inductive invariant of the texts (plan_sql_script,                  *)
(* import_csv_with_ou, execute_sql_script_with_submitter_ou).              *)
THEOREM AlwaysTextsPlanned == ScriptSpec => []TextsPlanned
<1> QED
    BY InitialTextsPlanned, StepKeepsTextsPlanned, ScriptInvHolds, PTL DEF ScriptSpec

-----------------------------------------------------------------------------
(* What TextsPlanned says of a command that has read its scripts back.     *)
LEMMA PlanInvOfTexts == TextsPlanned /\ ReadsBack(input) => PlanInv /\ input \in Inputs
<1> QED
    BY DEF TextsPlanned

(* A command that has read its scripts back stays where its variables      *)
(* belong: it stands at a batch of its plan or right after the last one    *)
(* (execute_sql_script_with_submitter_ou).                                 *)
THEOREM ScriptTyped == ScriptSpec => [](ReadsBack(input) => ScriptTypeOK)
<1>1. TextsPlanned => (ReadsBack(input) => ScriptTypeOK)
    BY PlanInvOfTexts DEF PlanInv
<1> QED
    BY <1>1, AlwaysTextsPlanned, PTL

(* Batching loses, repeats and reorders no statement, for every script and *)
(* CSV file that is read back from its text: those planned are those       *)
(* given; those applied by a command that waits are a prefix of them,      *)
(* whatever happens to its transactions, and all of them when it reports   *)
(* that it is complete (plan_sql_script, script_batches,                   *)
(* import_csv_with_ou).                                                    *)
THEOREM StatementsAlwaysInOrder == ScriptSpec => [](ReadsBack(input) => StatementsInOrder)
<1>1. ScriptInv /\ TextsPlanned => (ReadsBack(input) => StatementsInOrder)
    <2> SUFFICES ASSUME ScriptInv, TextsPlanned, ReadsBack(input) PROVE StatementsInOrder
        OBVIOUS
    <2> DEFINE n == Len(input.parts)
               first == SubSeq(batches, 1, Done)
    <2>1. PlanInv /\ input \in Inputs
        BY PlanInvOfTexts
    <2>2. n \in Nat /\ part \in 0..n /\ n \in 0..n /\ at \in 1..Len(batches) + 1
        BY <2>1, InputTyped DEF PlanInv, ScriptTypeOK
    <2>3. batches \in Seq(Batch(Seq(Item))) /\ NotBegun
        BY <2>1 DEF PlanInv, PlannedBatches
    <2>4. Len(batches) \in Nat
        <3> DEFINE B == Batch(Seq(Item))
        <3>1. batches \in Seq(B)
            BY <2>3
        <3> HIDE DEF B
        <3> QED
            BY <3>1
    <2>5. Done \in 0..Len(batches)
        BY <2>2, <2>3, <2>4, DoneTyped
    <2>6. GivenUpTo(input, part) \in Seq(Item) /\ StatementsGiven \in Seq(Item)
        BY <2>1, <2>2, GivenTyped DEF StatementsGiven
    <2>7. IsPrefix(GivenUpTo(input, part), StatementsGiven)
        BY <2>1, <2>2, GivenTyped DEF StatementsGiven
    <2>8. /\ first \in Seq(Batch(Seq(Item)))
          /\ IsPrefix(StatementsIn(first), StatementsPlanned)
        BY <2>3, <2>5, StatementsInPrefix DEF StatementsPlanned
    <2>9. StatementsIn(first) \in Seq(Item) /\ StatementsPlanned \in Seq(Item)
        BY <2>3, <2>8, StatementsInTyped DEF StatementsPlanned
    <2>10. InOrder => StatementsApplied = StatementsIn(first)
        BY <2>1 DEF PlanInv, AppliedUpToHere, Done
    <2>11. planned /\ part = n => StatementsPlanned = StatementsGiven
        BY <2>1 DEF PlanInv, PlannedFromGiven, StatementsGiven
    <2>12. IsPrefix(StatementsIn(first), StatementsGiven)
        <3>1. IsPrefix(StatementsPlanned, GivenUpTo(input, part))
            BY <2>1 DEF PlanInv, PlannedFromGiven
        <3>2. IsPrefix(StatementsIn(first), GivenUpTo(input, part))
            BY <2>6, <2>8, <2>9, <3>1, PrefixTransitive
        <3> QED
            BY <2>6, <2>7, <2>9, <3>2, PrefixTransitive
    <2>13. Submits /\ outcome = "complete" => first = batches /\ planned /\ part = n
        <3> SUFFICES ASSUME Submits, outcome = "complete"
                     PROVE  first = batches /\ planned /\ part = n
            OBVIOUS
        <3>1. ~BatchesLeft /\ planned /\ part = n
            BY <2>1 DEF PlanInv, Ended
        <3>2. at = Len(batches) + 1
            BY <2>2, <2>4, <3>1 DEF BatchesLeft
        <3>3. ~WasApplied(at)
            BY <2>3, <2>4, <3>2, AppliedInPlan DEF WasApplied, Other
        <3>4. Done = Len(batches)
            BY <2>4, <3>2, <3>3 DEF Done
        <3>5. SubSeq(batches, 1, Len(batches)) = batches
            <4> DEFINE B == Batch(Seq(Item))
            <4>1. batches \in Seq(B)
                BY <2>3
            <4> HIDE DEF B
            <4> QED
                BY <4>1, SubSeqFull
        <3> QED
            BY <3>1, <3>4, <3>5
    <2> HIDE DEF first
    <2> QED
        BY <2>10, <2>11, <2>12, <2>13 DEF StatementsInOrder, StatementsPlanned
<1> QED
    BY <1>1, ScriptInvHolds, AlwaysTextsPlanned, PTL

(* A script that is read back from its text is refused for a statement in  *)
(* it only, and before any statement of it is signed: with its terminators *)
(* no batch exceeds the limit when no statement does (ensure_exec_payload_ *)
(* size, script_batches).                                                  *)
THEOREM AlwaysRefusedForAStatement ==
    ScriptSpec => [](ReadsBack(input) => RefusedForAStatement)
<1>1. TextsPlanned => (ReadsBack(input) => RefusedForAStatement)
    <2> SUFFICES ASSUME TextsPlanned, ReadsBack(input), outcome = "refused",
                        input.command # "csv"
                 PROVE  /\ \E i \in 1..Len(input.parts[part]) : Refused(input.parts[part][i])
                        /\ \A b \in 1..Len(batches) : batches[b].of[1].part # part
        BY DEF RefusedForAStatement
    <2>1. ~planned
        BY PlanInvOfTexts DEF PlanInv, Ended
    <2> QED
        BY <2>1, PlanInvOfTexts DEF PlanInv, NotPlanned, PlannedBatches
<1> QED
    BY <1>1, AlwaysTextsPlanned, PTL

-----------------------------------------------------------------------------
(* The write smoke is planned whole, as three batches.                     *)
LEMMA SmokePlanWhole ==
    ASSUME NEW i \in Inputs, i.command = "verify"
    PROVE  /\ Len(i.parts) = 1
           /\ PlansOf(i.command, i.parts)[1].whole = TRUE
           /\ PlansOf(i.command, i.parts)[1].batches \in Seq(Batch(Seq(Item)))
           /\ Len(PlansOf(i.command, i.parts)[1].batches) = 3
<1> DEFINE texts == i.parts[1]
           made == PlanSmoke(texts)
           found == made.batches
<1>1. Len(i.parts) = 1 /\ Len(i.parts[1]) = 3 /\ \A k \in 1..3 : Len(i.parts[1][k]) <= MaxText
    BY ScriptAssumption
<1>2. texts \in Seq(Texts)
    BY <1>1, InputTyped
<1>3. PlansOf(i.command, i.parts)[1] = Labelled(made, 1)
    BY <1>1 DEF PlansOf
<1> HIDE DEF texts
<1>4. /\ made = [batches |-> found, whole |-> TRUE, texts |-> texts]
      /\ found \in Seq(Batch(Seq(1..Len(texts)))) /\ Len(found) = 3
    BY <1>1, <1>2, SmokePlan DEF texts
<1> HIDE DEF made
<1>5. Labelled(made, 1) = [batches |-> Label(found, 1, texts), whole |-> TRUE]
    <2>1. made.whole = TRUE /\ made.texts = texts
        BY <1>4
    <2> QED
        BY <2>1 DEF Labelled
<1> HIDE DEF found
<1>6. Label(found, 1, texts) \in Seq(Batch(Seq(Item))) /\ Len(Label(found, 1, texts)) = 3
    BY <1>2, <1>4, LabelTyped
<1> QED
    BY <1>1, <1>3, <1>5, <1>6

(* The write smoke has its statements, and no text to read.                *)
LEMMA SmokeReadsBack ==
    ASSUME TextsPlanned, Smoke
    PROVE  ReadsBack(input) /\ PlanInv /\ input \in Inputs
<1>1. ReadsBack(input)
    BY DEF ReadsBack, Smoke
<1> QED
    BY <1>1 DEF TextsPlanned

LEMMA StepKeepsSmokeEnds ==
    ASSUME ScriptInv, TextsPlanned, SmokeEnds, [ScriptNext]_allVars
    PROVE  SmokeEnds'
<1>1. UNCHANGED given
    BY DEF ScriptNext, CommandStep, Plan, Refuse, RefuseBatch, ExecBatch, NextBatch, InsertFails,
           Stop, Complete, OthersStep, script, allVars
<1> SUFFICES ASSUME Smoke PROVE SmokeEnds'
    BY <1>1 DEF SmokeEnds, Smoke, given
<1>2. PlanInv /\ input \in Inputs /\ input.command = "verify"
    BY SmokeReadsBack DEF Smoke
<1>3. Len(input.parts) = 1 /\ part \in 0..1 /\ at \in 1..Len(batches) + 1
    BY <1>2, SmokePlanWhole DEF PlanInv, ScriptTypeOK
<1>4. planned /\ Len(batches) = 3 * part /\ Smoke'
    BY <1>1 DEF SmokeEnds, Smoke, given
<1>5. CASE Plan
    <2> DEFINE more == plans[1].batches
               B == Batch(Seq(Item))
    <2>1. part = 0
        BY <1>3, <1>5 DEF Plan
    <2>2. plans[1].whole = TRUE /\ more \in Seq(B) /\ Len(more) = 3
        BY <1>2, SmokePlanWhole DEF TextsPlanned
    <2>3. batches' = batches \o more /\ planned' = TRUE /\ part' = 1 /\ outcome' = "running"
        BY <1>5, <2>1, <2>2 DEF Plan, Running
    <2>4. batches \in Seq(B)
        BY <1>2 DEF PlanInv, PlannedBatches
    <2> HIDE DEF more, B
    <2>5. Len(batches') = 3
        BY <1>4, <2>1, <2>2, <2>3, <2>4, ConcatProperties
    <2> QED
        BY <2>3, <2>5 DEF SmokeEnds
<1>6. CASE Refuse \/ RefuseBatch
    <2>1. ~Refuse
        BY <1>4 DEF Refuse
    <2>2. ~RefuseBatch
        BY <1>2 DEF RefuseBatch, BatchesLeft, BatchFits, PlanInv, PlannedBatches
    <2> QED
        BY <1>6, <2>1, <2>2
<1>7. CASE NextBatch \/ InsertFails
    <2>1. outcome' = "running" /\ UNCHANGED <<planned, batches, part>>
        BY <1>2, <1>7 DEF NextBatch, OwnerUnverified, InsertFails, Running
    <2> QED
        BY <1>4, <2>1 DEF SmokeEnds
<1>8. CASE Stop
    <2>1. /\ at \in 1..Len(batches) /\ at # Insert /\ pc[at] = "done" /\ ~Succeeded(at)
          /\ UNCHANGED <<planned, batches, part, vars>>
        BY <1>8 DEF Stop, BatchesLeft
    <2>2. part = 1 /\ at \in {Create, Cleanup}
        BY <1>3, <1>4, <2>1 DEF Create, Insert, Cleanup
    <2>3. at = Create => result[Create] # "ok"
        BY <2>1 DEF Succeeded
    <2> QED
        BY <1>4, <2>1, <2>2, <2>3 DEF SmokeEnds, vars, calls
<1>9. CASE Complete
    <2>1. ~BatchesLeft /\ part = 1 /\ UNCHANGED <<planned, batches, part, vars>>
        BY <1>3, <1>9 DEF Complete
    <2>2. at = 4 /\ Len(batches) = 3
        BY <1>2, <1>3, <1>4, <2>1 DEF BatchesLeft, Submits
    <2>3. Cleanup \in Writers \ {Other} /\ Cleanup < at
        BY <2>2 DEF ScriptInv, Cleanup, Other
    <2>4. pc[Cleanup] = "done"
        BY <2>3 DEF ScriptInv, BatchBefore
    <2> QED
        BY <1>4, <2>1, <2>4 DEF SmokeEnds, vars, calls
<1>10. CASE ExecBatch
    BY <1>4, <1>10 DEF ExecBatch, Running, SmokeEnds, script
<1>11. CASE OthersStep
    <2>1. UNCHANGED <<planned, batches, part, outcome>>
        BY <1>11 DEF OthersStep, script
    <2>2. ASSUME NEW b \in {Create, Cleanup} 
          PROVE  outcome # "running" => pc'[b] = pc[b] /\ result'[b] = result[b]
        <3> SUFFICES ASSUME outcome # "running" PROVE pc'[b] = pc[b] /\ result'[b] = result[b]
            OBVIOUS
        <3>1. b \in Writers \ {Other} /\ Other \in Writers
            <4>1. Len(batches) = 3 /\ 1..Len(batches) \subseteq Writers
                BY DEF SmokeEnds, ScriptInv
            <4>2. Other \in Writers
                BY WritersAreNumbers
            <4> QED
                BY <4>1, <4>2 DEF Create, Cleanup, Other
        <3> QED
            BY <1>11, <3>1, CallStepFrame, ChainStepFrame DEF OthersStep, ScriptInv, calls
    <2> QED
        BY <1>4, <2>1, <2>2 DEF SmokeEnds
<1>12. CASE UNCHANGED allVars
    BY <1>4, <1>12 DEF allVars, script, given, vars, calls, SmokeEnds
<1> QED
    BY <1>5, <1>6, <1>7, <1>8, <1>9, <1>10, <1>11, <1>12 DEF ScriptNext, CommandStep

(* A write smoke ends after its first statement has failed or its last one *)
(* has returned (run_verify_write_smoke).                                  *)
THEOREM AlwaysSmokeEnds == ScriptSpec => []SmokeEnds
<1>1. ScriptInit => SmokeEnds
    BY DEF ScriptInit, SmokeEnds
<1>2. ScriptInv /\ TextsPlanned /\ SmokeEnds /\ [ScriptNext]_allVars => SmokeEnds'
    BY StepKeepsSmokeEnds
<1> QED
    BY <1>1, <1>2, ScriptInvHolds, AlwaysTextsPlanned, PTL DEF ScriptSpec

(* A write smoke that has created its table tries to drop it whatever      *)
(* becomes of its insert and its query, and when the drop is confirmed no  *)
(* late or repeated transaction brings the table back                      *)
(* (run_verify_write_smoke).                                               *)
THEOREM SmokeAlwaysCleansUp == ScriptSpec => []SmokeCleansUp
<1>1. ScriptInv /\ SmokeEnds => SmokeCleansUp
    <2> SUFFICES ASSUME ScriptInv, SmokeEnds, Smoke, outcome # "running", result[Create] = "ok"
                 PROVE  /\ pc[Cleanup] = "done"
                        /\ result[Cleanup] = "ok" => WasAppliedBefore(Create, Cleanup)
        BY DEF SmokeCleansUp, TableThere
    <2>1. pc[Cleanup] = "done" /\ Len(batches) = 3
        BY DEF SmokeEnds
    <2>2. {Create, Cleanup} \subseteq Writers \ {Other} /\ Create < Cleanup
        BY <2>1 DEF ScriptInv, Create, Cleanup, Other
    <2> QED
        BY <2>1, <2>2 DEF ScriptInv, AppliedAfterOk, WriteInv, ResultsFromReceipts
<1> QED
    BY <1>1, ScriptInvHolds, AlwaysSmokeEnds, PTL
=============================================================================
