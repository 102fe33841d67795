----------------------------- MODULE Query_proofs -----------------------------
(* Proofs about the read path: what sql shows, what is submitted, and what  *)
(* the readiness checks and verify report, for every input, every database  *)
(* and all limits.                                                          *)
EXTENDS Query, SequenceTheorems, TLAPS

(* What is appended without overflow is everything.                        *)
LEMMA AppendedRows ==
    ASSUME NEW pieces \in Seq(Nat) \ {<< >>}
    PROVE  /\ Appended(pieces).rows \in Seq(Nat)
           /\ ~Appended(pieces).overflow => Appended(pieces).rows = Tail(pieces)
<1> DEFINE used[k \in 0..Len(pieces)] ==
               IF k = 0 THEN 0
               ELSE LET before == used[k - 1]
                    IN  IF before + pieces[k] <= OutBytes THEN before + pieces[k] ELSE before
           fits == {k \in 1..Len(pieces) : used[k - 1] + pieces[k] <= OutBytes}
           rows == [k \in 1..Len(pieces) - 1 |-> IF k + 1 \in fits THEN pieces[k + 1] ELSE 0]
<1>1. /\ Appended(pieces).rows = rows
      /\ Appended(pieces).overflow = (fits # 1..Len(pieces))
  BY Zenon DEF Appended
<1> HIDE DEF used, fits
<1>2. /\ Len(pieces) \in Nat \ {0} /\ \A k \in 1..Len(pieces) : pieces[k] \in Nat
      /\ Tail(pieces) \in Seq(Nat)
      /\ Len(Tail(pieces)) = Len(pieces) - 1
      /\ \A k \in 1..Len(pieces) - 1 : Tail(pieces)[k] = pieces[k + 1]
  OBVIOUS
<1>3. rows \in Seq(Nat)
  <2>1. rows \in [1..Len(pieces) - 1 -> Nat]
    BY <1>2
  <2>2. Len(pieces) - 1 \in Nat
    BY <1>2
  <2> QED
    BY <2>1, <2>2
<1>4. ASSUME fits = 1..Len(pieces)
      PROVE  rows = Tail(pieces)
  <2>1. \A k \in 1..Len(pieces) - 1 : rows[k] = pieces[k + 1]
    <3> TAKE k \in 1..Len(pieces) - 1
    <3>1. k + 1 \in fits
      BY <1>2, <1>4
    <3> QED
      BY <3>1
  <2>2. Len(rows) = Len(pieces) - 1
    BY <1>2
  <2> HIDE DEF rows
  <2>3. /\ Len(rows) = Len(Tail(pieces))
        /\ \A k \in 1..Len(rows) : rows[k] = Tail(pieces)[k]
    BY <2>1, <2>2, <1>2
  <2> QED
    BY <2>3, <1>2, <1>3, SeqEqual
<1> QED
  BY <1>1, <1>3, <1>4

(* The budget of a statement is exact to one interval, and exact where the *)
(* interval divides it.                                                    *)
LEMMA BudgetIsKept ==
    ASSUME NEW steps \in Nat
    PROVE  IF Interrupted(steps) THEN steps > MaxSteps - Interval ELSE steps < MaxSteps
<1> DEFINE granted == MaxSteps \div Interval
           callbacks == steps \div Interval
           a == Interval * callbacks
           b == Interval * granted
<1>1. /\ MaxSteps \in Nat /\ Interval \in Nat \ {0} /\ MaxSteps >= Interval
  BY QueryAssumption
<1>2. /\ granted \in Nat /\ callbacks \in Nat /\ a \in Nat /\ b \in Nat
      /\ b <= MaxSteps /\ MaxSteps < b + Interval
      /\ a <= steps /\ steps < a + Interval
  BY <1>1, SMTT(60)
<1>3. Interrupted(steps) <=> callbacks > 0 /\ callbacks >= granted
  BY DEF Interrupted
<1> HIDE DEF granted, callbacks
<1>4. ASSUME callbacks >= granted
      PROVE  a >= b
  BY <1>1, <1>2, <1>4, SMTT(60)
<1>5. ASSUME callbacks < granted
      PROVE  a + Interval <= b
  <2>1. callbacks + 1 <= granted
    BY <1>2, <1>5
  <2>2. Interval * (callbacks + 1) <= Interval * granted
    BY <2>1, <1>1, <1>2, SMTT(60)
  <2>3. Interval * (callbacks + 1) = Interval * callbacks + Interval
    BY <1>1, <1>2, SMTT(60)
  <2> QED
    BY <2>2, <2>3
<1>6. callbacks = 0 => a = 0
  BY <1>1
<1> HIDE DEF a, b
<1>7. CASE callbacks > 0 /\ callbacks >= granted
  <2>1. steps > MaxSteps - Interval
    BY <1>1, <1>2, <1>4, <1>7
  <2> QED
    BY <2>1, <1>3, <1>7
<1>8. CASE ~(callbacks > 0 /\ callbacks >= granted)
  <2>1. callbacks = 0 \/ callbacks < granted
    BY <1>2, <1>8
  <2>2. steps < MaxSteps
    BY <1>1, <1>2, <1>5, <1>6, <2>1
  <2> QED
    BY <2>2, <1>3, <1>8
<1> QED
  BY <1>7, <1>8

LEMMA OneStatement ==
    ASSUME NEW text, StatementAt(text) # {}
    PROVE  StatementOf(text) \in Statements
BY DEF StatementOf, StatementAt

LEMMA ErrorFields ==
    ASSUME NEW code
    PROVE  Error(code).code = code /\ Error(code).rows \in Seq(Nat)
BY DEF Error, Answer, NoRows

(* What the Circle answers to a query on version v.                        *)
LEMMA QueryAnswers ==
    ASSUME NEW text, NEW v \in Versions, NEW a \in RunQuery(text, v)
    PROVE  LET s == StatementOf(text)
           IN  /\ a.rows \in Seq(Nat)
               /\ a.code \notin {"none", "empty", "unconfigured"}
               /\ a.code = "ok" =>
                     /\ StatementAt(text) # {} /\ ~Holds(text, Statements)
                     /\ a.rows = Tail(Pieces[s][v]) /\ Steps[s][v] < MaxSteps
               /\ a.code = "query_budget_exceeded" => Steps[s][v] > MaxSteps - Interval
               /\ a.code = "result_limit_exceeded" => Len(Pieces[s][v]) > MaxRows + 1
               /\ a.code = "sqlite_readonly_required" => s \in Writes
<1> DEFINE s == StatementOf(text)
<1>1. CASE StatementAt(text) = {} \/ Holds(text, Statements)
  <2>1. a \in {Error("sqlite_empty_query"), Error("sqlite_single_query_required")}
    BY Zenon, <1>1 DEF RunQuery
  <2>2. a.code \in {"sqlite_empty_query", "sqlite_single_query_required"} /\ a.rows \in Seq(Nat)
    BY <2>1, ErrorFields
  <2> QED
    BY <2>2
<1>2. CASE StatementAt(text) # {} /\ ~Holds(text, Statements) /\ s \notin Reads
  <2>1. s \in Writes
    BY <1>2, OneStatement DEF Statements
  <2>2. a = Error("sqlite_readonly_required")
    BY Zenon, <1>2 DEF RunQuery
  <2>3. a.code = "sqlite_readonly_required" /\ a.rows \in Seq(Nat)
    BY <2>2, ErrorFields
  <2> QED
    BY <2>1, <2>3
<1>3. CASE StatementAt(text) # {} /\ ~Holds(text, Statements) /\ s \in Reads
  <2>1. /\ Pieces[s][v] \in Seq(Nat) \ {<< >>} /\ Steps[s][v] \in Nat
        /\ MaxRows \in Nat
    BY <1>3, QueryAssumption DEF Statements
  <2>2. Len(Pieces[s][v]) \in Nat
    BY <2>1
  <2>3. /\ "query_budget_exceeded" \in Refusals(s, v) <=> Interrupted(Steps[s][v])
        /\ "result_limit_exceeded" \in Refusals(s, v) => Len(Pieces[s][v]) - 1 > MaxRows
        /\ Appended(Pieces[s][v]).overflow => "response_too_large" \in Refusals(s, v)
        /\ Refusals(s, v) \subseteq
              {"query_budget_exceeded", "result_limit_exceeded", "response_too_large"}
    BY DEF Refusals
  <2>4. CASE Refusals(s, v) # {}
    <3>1. PICK code \in Refusals(s, v) : a = Error(code)
      BY <1>3, <2>4 DEF RunQuery
    <3> QED
      <4>1. a.code = code /\ a.rows \in Seq(Nat)
        BY <3>1, ErrorFields
      <4>2. code = "query_budget_exceeded" => Steps[s][v] > MaxSteps - Interval
        BY <2>1, <2>3, BudgetIsKept
      <4>3. code = "result_limit_exceeded" => Len(Pieces[s][v]) > MaxRows + 1
        BY <2>1, <2>2, <2>3
      <4>4. code \in {"query_budget_exceeded", "result_limit_exceeded", "response_too_large"}
        BY <2>3
      <4> HIDE DEF s
      <4> QED
        BY <4>1, <4>2, <4>3, <4>4 DEF s
  <2>5. CASE Refusals(s, v) = {}
    <3>1. a = Answer("ok", Appended(Pieces[s][v]).rows)
      BY <1>3, <2>5 DEF RunQuery
    <3>2. ~Interrupted(Steps[s][v]) /\ ~Appended(Pieces[s][v]).overflow
      BY <2>3, <2>5
    <3> QED
      BY <1>3, <3>1, <3>2, <2>1, AppendedRows, BudgetIsKept DEF Answer
  <2> QED
    BY <2>4, <2>5
<1> QED
  BY <1>1, <1>2, <1>3

LEMMA Limited ==
    /\ MaxVersion \in Nat /\ MaxAttempts \in Nat \ {0}
    /\ QueryTypeOK => version \in Nat /\ began \in Nat /\ began <= version
<1>1. MaxVersion \in Nat /\ MaxAttempts \in Nat \ {0}
  <2>1. \A n \in {MaxVersion, MaxAttempts} : n \in Nat
    BY QueryAssumption
  <2>2. MaxAttempts > 0
    BY QueryAssumption
  <2> QED
    BY <2>1, <2>2
<1>2. ASSUME QueryTypeOK
      PROVE  version \in 0..MaxVersion /\ began \in 0..version
  BY <1>2 DEF QueryTypeOK, Versions
<1> QED
  BY <1>1, <1>2

(* What the Circle answers to the view that is asked for.                  *)
LEMMA ServedAnswers ==
    ASSUME QueryTypeOK, NEW a \in Served
    PROVE  /\ a.rows \in Seq(Nat)
           /\ a.code = "ok" /\ ask.view = "storage_info" => version > 0
           /\ a.code \in {"empty", "unconfigured"} =>
                 ask.view \in {"storage_info", "personalized_hash"}
           /\ \/ a.code \in Limits \cup {"sqlite_readonly_required"}
              \/ a.code = "ok" /\ input.command = "sql" /\ ask.view = "query"
              => input.command = "sql" /\ a \in RunQuery(input.text, version)
<1>1. CASE input.command = "sql" /\ ask.view = "query" /\ a \in RunQuery(input.text, version)
  BY <1>1, QueryAnswers DEF QueryTypeOK
<1>2. CASE a \in {Error("ok"), Error("access_denied"), Error("unknown_method"),
                  Error("empty"), Error("unconfigured")}
           /\ ~(input.command = "sql" /\ ask.view = "query" /\ a \in RunQuery(input.text, version))
  <2>1. /\ a.rows \in Seq(Nat)
        /\ a.code \in {"ok", "access_denied", "unknown_method", "empty", "unconfigured"}
    BY <1>2, ErrorFields
  <2>2. a.code = "ok" => a = Error("ok")
    BY <1>2, ErrorFields
  <2>3. a.code = "empty" => a = Error("empty")
    BY <1>2, ErrorFields
  <2>4. a.code = "unconfigured" => a = Error("unconfigured")
    BY <1>2, ErrorFields
  <2>5. Error("ok") # Error("empty") /\ Error("ok") # Error("access_denied")
        /\ Error("ok") # Error("unknown_method") /\ Error("ok") # Error("unconfigured")
        /\ Error("empty") # Error("access_denied") /\ Error("empty") # Error("unknown_method")
        /\ Error("unconfigured") # Error("access_denied")
        /\ Error("unconfigured") # Error("unknown_method")
        /\ Error("empty") # Error("unconfigured")
    BY ErrorFields
  <2>6. version \in Nat
    BY Limited
  <2>7. a.code = "ok" /\ ask.view = "storage_info" => version > 0
    BY <2>2, <2>5, <2>6 DEF Served
  <2>8. a.code \in {"empty", "unconfigured"} => ask.view \in {"storage_info", "personalized_hash"}
    BY <1>2, <2>3, <2>4, <2>5 DEF Served
  <2>9. ~(a.code = "ok" /\ input.command = "sql" /\ ask.view = "query")
    BY <1>2, <2>2, <2>5 DEF Served
  <2> QED
    BY <2>1, <2>7, <2>8, <2>9 DEF Limits
<1>3. \/ input.command = "sql" /\ ask.view = "query" /\ a \in RunQuery(input.text, version)
      \/ a \in {Error("ok"), Error("access_denied"), Error("unknown_method"),
                Error("empty"), Error("unconfigured")}
  BY DEF Served
<1> QED
  BY <1>1, <1>2, <1>3

LEMMA Places ==
    ASSUME NEW n \in Nat, NEW i \in 1..n, NEW j \in i + 1..n
    PROVE  /\ j \in 1..n /\ i # j
           /\ \A k \in 1..i - 1 : k \in 1..n /\ k # i /\ k # j
OBVIOUS

(* A text that is taken for a script holds more than one statement or one  *)
(* semicolon, or begins with a semicolon.                                  *)
LEMMA ScriptHolds ==
    ASSUME NEW text \in Seq(Statements \cup {";", "--"}), LooksLikeScript(text)
    PROVE  \/ Holds(text, Statements) \/ Holds(text, {";"})
           \/ \E i \in 1..Len(text) : text[i] = ";" /\ \A k \in 1..i - 1 : text[k] = "--"
<1>1. PICK i \in 1..Len(text) : text[i] = ";" /\ \E j \in i + 1..Len(text) : text[j] # "--"
  BY DEF LooksLikeScript
<1>2. PICK j \in i + 1..Len(text) : text[j] # "--"
  BY <1>1
<1>3. Len(text) \in Nat /\ \A k \in 1..Len(text) : text[k] \in Statements \cup {";", "--"}
  BY ElementOfSeq, LenProperties
<1>4. /\ j \in 1..Len(text) /\ i # j
      /\ \A k \in 1..i - 1 : k \in 1..Len(text) /\ k # i /\ k # j
  <2> DEFINE n == Len(text)
  <2>1. n \in Nat
    BY <1>3
  <2>2. i \in 1..n /\ j \in i + 1..n
    BY <1>1, <1>2
  <2> HIDE DEF n
  <2>3. /\ j \in 1..n /\ i # j
        /\ \A k \in 1..i - 1 : k \in 1..n /\ k # i /\ k # j
    BY <2>1, <2>2, Places
  <2> QED
    BY <2>3 DEF n
<1>5. CASE text[j] = ";"
  <2>1. {text[i], text[j]} \subseteq {";"}
    BY <1>1, <1>5
  <2> QED
    BY <1>4, <2>1 DEF Holds
<1>6. CASE \E k \in 1..i - 1 : text[k] # "--"
  <2>1. PICK k \in 1..i - 1 : text[k] # "--"
    BY <1>6
  <2>2. k \in 1..Len(text) /\ k # i /\ k # j /\ j \in 1..Len(text)
    BY <1>4
  <2>3. CASE text[k] = ";"
    BY <1>1, <2>2, <2>3 DEF Holds
  <2>4. CASE text[k] \in Statements /\ text[j] \in Statements
    <3>1. {text[k], text[j]} \subseteq Statements
      BY <2>4
    <3> QED
      BY <2>2, <3>1 DEF Holds
  <2> QED
    BY <1>2, <1>3, <1>5, <2>1, <2>2, <2>3, <2>4
<1> QED
  BY <1>1, <1>6

-----------------------------------------------------------------------------
(* The sequences of views                                                  *)

LEMMA ViewSequences ==
    /\ << >> \in Seq(Views)
    /\ \A view \in Views : <<view>> \in Seq(Views)
    /\ \A more, rest \in Seq(Views) : more \o rest \in Seq(Views)
    /\ \A rest \in Seq(Views) : rest # << >> => Head(rest) \in Views /\ Tail(rest) \in Seq(Views)
OBVIOUS

(* Going on keeps what is to come, all but the view that was answered, and *)
(* adds what is to be asked for besides.                                   *)
LEMMA StillComing ==
    ASSUME todo \in Seq(Views), NEW more \in Seq(Views), NEW failed,
           Continue(more, failed), NEW view
    PROVE  /\ Coming(view) => view = ask.view \/ Coming(view)'
           /\ more = <<view>> => Coming(view)'
<1>1. todo' = more \o todo /\ pc' = "next"
  BY DEF Continue
<1>2. /\ Len(todo') = Len(more) + Len(todo) /\ Len(more) \in Nat /\ Len(todo) \in Nat
      /\ \A i \in 1..Len(more) : todo'[i] = more[i]
      /\ \A i \in 1..Len(todo) : todo'[Len(more) + i] = todo[i]
  BY <1>1
<1>3. ASSUME NEW i \in 1..Len(todo), todo[i] = view
      PROVE  Coming(view)'
  <2>1. Len(more) + i \in 1..Len(todo') /\ todo'[Len(more) + i] = view
    BY <1>2, <1>3
  <2> QED
    BY <2>1 DEF Coming
<1>4. ASSUME more = <<view>>
      PROVE  Coming(view)'
  <2>1. 1 \in 1..Len(todo') /\ todo'[1] = view
    BY <1>2, <1>4
  <2> QED
    BY <2>1 DEF Coming
<1> QED
  BY <1>3, <1>4 DEF Coming

(* The view that is asked for next was to come.                            *)
LEMMA AskedIsComing ==
    ASSUME todo \in Seq(Views), AskNext, NEW view, Coming(view)
    PROVE  Coming(view)'
<1>1. /\ pc = "next" /\ pc' = "asking" /\ todo' = Tail(todo) /\ todo # << >>
      /\ ask'.view = Head(todo)
  BY DEF AskNext
<1>2. PICK i \in 1..Len(todo) : todo[i] = view
  BY <1>1 DEF Coming
<1>3. CASE i = 1
  BY <1>1, <1>2, <1>3 DEF Coming
<1>4. CASE i # 1
  <2>1. i - 1 \in 1..Len(todo') /\ todo'[i - 1] = view
    BY <1>1, <1>2, <1>4
  <2> QED
    BY <2>1 DEF Coming
<1> QED
  BY <1>3, <1>4

-----------------------------------------------------------------------------
LEMMA TypeStep ==
    ASSUME QueryInv, [Next]_vars
    PROVE  QueryTypeOK'
<1> USE DEF node, request, report
<1>0. QueryTypeOK /\ MayStillSubmit
  BY DEF QueryInv
<1>1. CASE OpenSession
  BY <1>0, <1>1, ViewSequences DEF OpenSession, End, QueryTypeOK
<1>2. CASE ReadText
  BY <1>0, <1>2 DEF ReadText, End, QueryTypeOK, Versions
<1>3. CASE AskNext
  <2>1. /\ ask'.view \in Views /\ ask'.by \in {"circle_info", "unsigned", "signed"}
        /\ ask' \in [view : Views, by : {"circle_info", "unsigned", "signed"}]
    BY <1>0, <1>3, ViewSequences DEF AskNext, SendsBy, QueryTypeOK
  <2>2. todo' \in Seq(Views)
    BY <1>0, <1>3, ViewSequences DEF AskNext, QueryTypeOK
  <2>3. attempt' \in 0..MaxAttempts /\ began' \in 0..version'
    BY <1>0, <1>3, Limited DEF AskNext, QueryTypeOK
  <2> QED
    BY <1>0, <1>3, <2>1, <2>2, <2>3 DEF AskNext, QueryTypeOK
<1>4. CASE Receive
  <2>1. /\ ask' \in [view : Views, by : {"circle_info", "unsigned", "signed"}]
        /\ attempt' \in 0..MaxAttempts
    BY <1>0, <1>4, Limited DEF Receive, ChooseSurface, Send, Get, QueryTypeOK
  <2>2. answer'.rows \in Seq(Nat)
    BY <1>0, <1>4, ServedAnswers, ErrorFields DEF Receive, ChooseSurface, Send, Get, QueryTypeOK
  <2>3. pc' \in {"asking", "answered"} /\ seen' \in Programs \cup {"nothing"}
    BY <1>0, <1>4 DEF Receive, ChooseSurface, Send, Get, QueryTypeOK
  <2> QED
    BY <1>0, <1>4, <2>1, <2>2, <2>3 DEF Receive, QueryTypeOK
<1>5. CASE Retry
  BY <1>0, <1>5, Limited DEF Retry, QueryTypeOK
<1>6. CASE GiveUp
  BY <1>0, <1>6, ErrorFields DEF GiveUp, Get, QueryTypeOK
<1>7. CASE ShowRows
  BY <1>0, <1>7 DEF ShowRows, Answered, Refused, RequiresExec, End, QueryTypeOK, Versions
<1>8. CASE Exec
  BY <1>0, <1>8 DEF Exec, End, QueryTypeOK, MayStillSubmit
<1>9. CASE Judge
  <2>1. readiness' \in [Keys -> {"yes", "no", "unset"}]
    BY <1>0, <1>9 DEF Judge, JudgeProgram, JudgeHash, JudgeCircle, JudgeDatabase, Recorded, QueryTypeOK
  <2>2. /\ \A view \in {"circle_info", "personalized_hash"} : <<view>> \in Seq(Views)
        /\ << >> \in Seq(Views)
    BY ViewSequences DEF Views
  <2>3. todo' \in Seq(Views) /\ failures' \in BOOLEAN /\ pc' = "next" /\ outcome' = outcome
    <3>1. \E more, failed : Continue(more, failed) /\ more \in Seq(Views) /\ failed \in BOOLEAN
      BY <1>9, <2>2 DEF Judge, JudgeProgram, JudgeHash, JudgeCircle, JudgeDatabase, Refused, IsPersonalized
    <3> QED
      BY <1>0, <3>1, ViewSequences DEF Continue, QueryTypeOK
  <2> QED
    BY <1>0, <1>9, <2>1, <2>3 DEF Judge, JudgeProgram, JudgeHash, JudgeCircle, JudgeDatabase, QueryTypeOK
<1>10. CASE Verify
  <2>1. <<"personalized_hash">> \in Seq(Views) /\ << >> \in Seq(Views)
    BY ViewSequences DEF Views
  <2>2. todo' \in Seq(Views) /\ failures' \in BOOLEAN /\ pc' \in {"next", "done"}
    BY <1>0, <1>10, <2>1, ViewSequences DEF Verify, Continue, End, QueryTypeOK
  <2> QED
    BY <1>0, <1>10, <2>2 DEF Verify, QueryTypeOK
<1>11. CASE Record
  <2>1. readiness' \in [Keys -> {"yes", "no", "unset"}]
    BY <1>0, <1>11 DEF Record, Recorded, QueryTypeOK
  <2>2. todo' \in Seq(Views) /\ failures' \in BOOLEAN /\ pc' = "next"
    BY <1>0, <1>11, ViewSequences DEF Record, Continue, QueryTypeOK
  <2> QED
    BY <1>0, <1>11, <2>1, <2>2 DEF Record, QueryTypeOK
<1>12. CASE Conclude
  BY <1>0, <1>12 DEF Conclude, End, QueryTypeOK, Versions
<1>13. CASE Commit
  <2>1. version' \in Versions /\ began' \in 0..version'
    BY <1>0, <1>13, Limited DEF Commit, Versions, QueryTypeOK
  <2> QED
    BY <1>0, <1>13, <2>1 DEF Commit, QueryTypeOK
<1>14. CASE Update
  BY <1>0, <1>14 DEF Update, QueryTypeOK, Versions
<1>15. CASE UNCHANGED vars
  BY <1>0, <1>15 DEF vars, QueryTypeOK, Versions
<1> QED
  BY <1>1, <1>2, <1>3, <1>4, <1>5, <1>6, <1>7, <1>8, <1>9, <1>10, <1>11, <1>12, <1>13, <1>14, <1>15 DEF Next, Step

LEMMA SubmitStep ==
    ASSUME QueryInv, [Next]_vars
    PROVE  (MayStillSubmit /\ SubmitsOnlyWrites)'
<1> USE DEF node, request, report
<1>0. MayStillSubmit /\ SubmitsOnlyWrites /\ AnswerIsOfAVersion /\ QueryTypeOK
  BY DEF QueryInv
<1>1. CASE OpenSession
  BY <1>0, <1>1 DEF OpenSession, End, MayStillSubmit, SubmitsOnlyWrites, Has
<1>2. CASE ReadText
  <2>1. outcome' = "script" =>
          Has("write_dot") \/ LooksLikeScript(input.text)
    BY <1>0, <1>2 DEF ReadText, End, MayStillSubmit
  <2>2. input.text \in Seq(Statements \cup {";", "--"})
    BY <1>0, QueryAssumption DEF QueryTypeOK
  <2>3. outcome' = "script" => ~Has("read_only") /\ ~Has("trace")
    BY <1>0, <1>2 DEF ReadText, End, MayStillSubmit
  <2>4. /\ pc = "text" /\ sent' = sent /\ sent = 0 /\ input' = input
        /\ pc' \in {"done", "next"} /\ outcome' \in {"failed", "script", "none"}
        /\ (outcome' = "none" <=> pc' # "done")
    BY <1>0, <1>2 DEF ReadText, End, MayStillSubmit
  <2>5. MayStillSubmit'
    BY <1>0, <2>4 DEF MayStillSubmit
  <2>6. SubmitsOnlyWrites'
    BY <1>0, <2>1, <2>2, <2>3, <2>4, ScriptHolds DEF SubmitsOnlyWrites, MayStillSubmit, Has
  <2> QED
    BY <2>5, <2>6
<1>3. CASE AskNext
  BY <1>0, <1>3 DEF AskNext, MayStillSubmit, SubmitsOnlyWrites, Has
<1>4. CASE Receive
  BY <1>0, <1>4 DEF Receive, ChooseSurface, Send, Get, MayStillSubmit, SubmitsOnlyWrites, Has
<1>5. CASE Retry
  BY <1>0, <1>5 DEF Retry, MayStillSubmit, SubmitsOnlyWrites, Has
<1>6. CASE GiveUp
  BY <1>0, <1>6 DEF GiveUp, Get, MayStillSubmit, SubmitsOnlyWrites, Has
<1>7. CASE ShowRows
  BY <1>0, <1>7 DEF ShowRows, Answered, Refused, RequiresExec, End, MayStillSubmit,
                  SubmitsOnlyWrites, Has, AnswerIsOfAVersion
<1>8. CASE Exec
  <2>1. /\ pc = "exec" /\ sent = 0 /\ sent' \in 0..1 /\ input' = input
        /\ pc' = "done" /\ outcome' \in {"failed", "submitted"}
    BY <1>0, <1>8 DEF Exec, End, MayStillSubmit
  <2>2. MayStillSubmit'
    BY <1>0, <2>1 DEF MayStillSubmit, Has
  <2>3. SubmitsOnlyWrites'
    <3>1. sent' <= 1 /\ StatementOf(input.text) \in Writes
      BY <1>0, <2>1 DEF MayStillSubmit
    <3>2. ~Has("read_only") /\ ~Has("trace") /\ input.command = "sql"
      BY <1>0, <2>1 DEF MayStillSubmit
    <3> QED
      BY <2>1, <3>1, <3>2 DEF SubmitsOnlyWrites, Has
  <2> QED
    BY <2>2, <2>3
<1>9. CASE Judge
  BY <1>0, <1>9 DEF Judge, JudgeProgram, JudgeHash, JudgeCircle, JudgeDatabase, Answered, Continue, Recorded, MayStillSubmit, SubmitsOnlyWrites, Has
<1>10. CASE Verify
  BY <1>0, <1>10 DEF Verify, Answered, Continue, End, MayStillSubmit, SubmitsOnlyWrites, Has
<1>11. CASE Record
  BY <1>0, <1>11 DEF Record, Answered, Continue, Recorded, MayStillSubmit, SubmitsOnlyWrites, Has
<1>12. CASE Conclude
  BY <1>0, <1>12 DEF Conclude, End, MayStillSubmit, SubmitsOnlyWrites, Has
<1>13. CASE Commit
  BY <1>0, <1>13 DEF Commit, MayStillSubmit, SubmitsOnlyWrites, Has
<1>14. CASE Update
  BY <1>0, <1>14 DEF Update, MayStillSubmit, SubmitsOnlyWrites, Has
<1>15. CASE UNCHANGED vars
  BY <1>0, <1>15 DEF vars, MayStillSubmit, SubmitsOnlyWrites, Has
<1> QED
  BY <1>1, <1>2, <1>3, <1>4, <1>5, <1>6, <1>7, <1>8, <1>9, <1>10, <1>11, <1>12, <1>13, <1>14, <1>15 DEF Next, Step

LEMMA AnswerStep ==
    ASSUME QueryInv, [Next]_vars
    PROVE  (AnswerIsOfAVersion /\ AnswerIsWhole)'
<1> USE DEF node, request, report
<1>0. AnswerIsOfAVersion /\ AnswerIsWhole /\ MayStillSubmit /\ QueryTypeOK /\ RecordIsTrue
  BY DEF QueryInv
<1>1. CASE OpenSession
  BY <1>0, <1>1 DEF OpenSession, End, AnswerIsOfAVersion, AnswerIsWhole, MayStillSubmit, Limits
<1>2. CASE ReadText
  BY <1>0, <1>2 DEF ReadText, End, AnswerIsOfAVersion, AnswerIsWhole, MayStillSubmit, Limits
<1>3. CASE AskNext
  BY <1>0, <1>3 DEF AskNext, AnswerIsOfAVersion, AnswerIsWhole, MayStillSubmit, Limits
<1>4. CASE Receive
  <2>1. /\ pc = "asking" /\ outcome = "none" /\ outcome' = "none" /\ input' = input
        /\ version' = version /\ began' = began /\ todo' = todo /\ ask'.view = ask.view
        /\ version \in Versions /\ version \in began..version
    BY <1>0, <1>4, Limited
    DEF Receive, ChooseSurface, Send, Get, MayStillSubmit, QueryTypeOK
  <2>2. CASE pc' = "asking" /\ answer' = answer
    BY <1>0, <2>1, <2>2 DEF AnswerIsOfAVersion, AnswerIsWhole, Limits
  <2>3. CASE pc' = "answered" /\ answer' = Error("wallet_required")
    BY <1>0, <2>1, <2>3, ErrorFields DEF AnswerIsOfAVersion, AnswerIsWhole, Limits
  <2>4. CASE pc' = "answered" /\ answer' \in Served
    <3>1. \/ answer'.code \in Limits \cup {"sqlite_readonly_required"}
          \/ answer'.code = "ok" /\ input.command = "sql"
          => input.command = "sql" /\ answer' \in RunQuery(input.text, version)
      BY <1>0, <2>1, <2>4, ServedAnswers DEF AnswerIsOfAVersion
    <3>2. ASSUME answer' \in RunQuery(input.text, version)
          PROVE  LET s == StatementOf(input.text)
                 IN  /\ answer'.code = "ok" =>
                           /\ StatementAt(input.text) # {} /\ ~Holds(input.text, Statements)
                           /\ answer'.rows = Tail(Pieces[s][version])
                           /\ Steps[s][version] < MaxSteps
                     /\ answer'.code = "query_budget_exceeded" =>
                           Steps[s][version] > MaxSteps - Interval
                     /\ answer'.code = "result_limit_exceeded" =>
                           Len(Pieces[s][version]) > MaxRows + 1
                     /\ answer'.code = "sqlite_readonly_required" => s \in Writes
      BY <2>1, <3>2, QueryAnswers
    <3>3. AnswerIsOfAVersion'
      BY <1>0, <2>1, <2>4, <3>1, <3>2 DEF AnswerIsOfAVersion, Limits
    <3>4. AnswerIsWhole'
      BY <1>0, <2>1, <2>4, <3>1, <3>2 DEF AnswerIsWhole, Limits
    <3> QED
      BY <3>3, <3>4
  <2> QED
    BY <1>4, <2>1, <2>2, <2>3, <2>4 DEF Receive, ChooseSurface, Send, Get
<1>5. CASE Retry
  BY <1>0, <1>5 DEF Retry, AnswerIsOfAVersion, AnswerIsWhole, MayStillSubmit, Limits
<1>6. CASE GiveUp
  BY <1>0, <1>6, ErrorFields DEF GiveUp, Get, AnswerIsOfAVersion, AnswerIsWhole, MayStillSubmit, Limits
<1>7. CASE ShowRows
  BY <1>0, <1>7 DEF ShowRows, Answered, Refused, RequiresExec, End, RecordIsTrue,
                  AnswerIsOfAVersion, AnswerIsWhole, MayStillSubmit, Limits
<1>8. CASE Exec
  BY <1>0, <1>8 DEF Exec, End, AnswerIsOfAVersion, AnswerIsWhole, MayStillSubmit, Limits
<1>9. CASE Judge
  BY <1>0, <1>9 DEF Judge, JudgeProgram, JudgeHash, JudgeCircle, JudgeDatabase, Answered, Continue, Recorded, AnswerIsOfAVersion, AnswerIsWhole, MayStillSubmit, Limits
<1>10. CASE Verify
  BY <1>0, <1>10 DEF Verify, Answered, Continue, End, AnswerIsOfAVersion, AnswerIsWhole, MayStillSubmit, Limits
<1>11. CASE Record
  BY <1>0, <1>11 DEF Record, Answered, Continue, Recorded, AnswerIsOfAVersion, AnswerIsWhole, MayStillSubmit, Limits
<1>12. CASE Conclude
  BY <1>0, <1>12 DEF Conclude, End, AnswerIsOfAVersion, AnswerIsWhole, MayStillSubmit, Limits
<1>13. CASE Commit
  <2>1. began' = began /\ began..version \subseteq began'..version'
    BY <1>0, <1>13, Limited DEF Commit, QueryTypeOK
  <2> QED
    BY <1>0, <1>13, <2>1 DEF Commit, AnswerIsOfAVersion, AnswerIsWhole, Limits
<1>14. CASE Update
  BY <1>0, <1>14 DEF Update, AnswerIsOfAVersion, AnswerIsWhole, MayStillSubmit, Limits
<1>15. CASE UNCHANGED vars
  BY <1>0, <1>15 DEF vars, AnswerIsOfAVersion, AnswerIsWhole, MayStillSubmit, Limits
<1> QED
  BY <1>1, <1>2, <1>3, <1>4, <1>5, <1>6, <1>7, <1>8, <1>9, <1>10, <1>11, <1>12, <1>13, <1>14, <1>15 DEF Next, Step

LEMMA RecordStep ==
    ASSUME QueryInv, [Next]_vars
    PROVE  (RecordIsTrue /\ ReadyIsTrue)'
<1> USE DEF node, request, report
<1>0. RecordIsTrue /\ ReadyIsTrue /\ MayStillSubmit /\ QueryTypeOK
  BY DEF QueryInv
<1>1. CASE OpenSession
  BY <1>0, <1>1 DEF OpenSession, End, RecordIsTrue, ReadyIsTrue, MayStillSubmit, Coming, Has, ComparesHash
<1>2. CASE ReadText
  BY <1>0, <1>2 DEF ReadText, End, RecordIsTrue, ReadyIsTrue, MayStillSubmit, Coming, Has, ComparesHash
<1>3. CASE AskNext
  <2>1. \A view \in Views : Coming(view) => Coming(view)'
    BY <1>0, <1>3, AskedIsComing DEF QueryTypeOK
  <2> QED
    BY <1>0, <1>3, <2>1 DEF AskNext, Views, RecordIsTrue, ReadyIsTrue, MayStillSubmit, Has, ComparesHash
<1>4. CASE Receive
  <2>1. /\ pc = "asking" /\ outcome = "none" /\ outcome' = "none" /\ input' = input
        /\ version' = version /\ todo' = todo /\ ask'.view = ask.view
        /\ readiness' = readiness /\ served \subseteq served' /\ pc' \in {"asking", "answered"}
    BY <1>0, <1>4 DEF Receive, ChooseSurface, Send, Get, MayStillSubmit, QueryTypeOK
  <2>2. \A view : Coming(view) => Coming(view)'
    BY <2>1 DEF Coming
  <2>3. CASE pc' = "asking" /\ served' = served /\ seen' = seen
    BY <1>0, <2>1, <2>2, <2>3 DEF RecordIsTrue, ReadyIsTrue, Has, ComparesHash
  <2>4. CASE answer' = Error("wallet_required") /\ served' = served /\ seen' = seen
    BY <1>0, <2>1, <2>2, <2>4, ErrorFields DEF RecordIsTrue, ReadyIsTrue, Has, ComparesHash
  <2>5. CASE /\ answer' \in Served /\ served' = served \cup {<<ask.view, answer'.code>>}
             /\ ask.view # "program_info" => seen' = seen
    <3>1. /\ answer'.code = "ok" /\ ask.view = "storage_info" => version > 0
          /\ answer'.code \in {"empty", "unconfigured"} =>
                ask.view \in {"storage_info", "personalized_hash"}
      BY <1>0, <2>5, ServedAnswers
    <3>2. ask.view = "program_info" => Coming("program_info")'
      BY <2>1 DEF Coming
    <3>3. <<"storage_info", "ok">> \in served' =>
              version > 0
      BY <1>0, <2>5, <3>1 DEF RecordIsTrue
    <3> QED
      BY <1>0, <2>1, <2>2, <2>5, <3>1, <3>2, <3>3 DEF RecordIsTrue, ReadyIsTrue, Has, ComparesHash
  <2> QED
    BY <1>4, <2>1, <2>3, <2>4, <2>5 DEF Receive, ChooseSurface, Send, Get
<1>5. CASE Retry
  BY <1>0, <1>5 DEF Retry, RecordIsTrue, ReadyIsTrue, MayStillSubmit, Coming, Has, ComparesHash
<1>6. CASE GiveUp
  BY <1>0, <1>6, ErrorFields DEF GiveUp, Get, RecordIsTrue, ReadyIsTrue, MayStillSubmit, Coming, Has, ComparesHash
<1>7. CASE ShowRows
  BY <1>0, <1>7 DEF ShowRows, Answered, Refused, RequiresExec, End, RecordIsTrue, ReadyIsTrue, MayStillSubmit, Coming, Has, ComparesHash
<1>8. CASE Exec
  BY <1>0, <1>8 DEF Exec, End, RecordIsTrue, ReadyIsTrue, MayStillSubmit, Coming, Has, ComparesHash
<1>9. CASE Judge
  <2>1. /\ input.command = "status" /\ pc = "answered" /\ outcome = "none"
        /\ pc' = "next" /\ outcome' = "none"
        /\ UNCHANGED <<input, version, served, seen>>
    BY <1>0, <1>9 DEF Judge, JudgeProgram, JudgeHash, JudgeCircle, JudgeDatabase, Answered, Continue, MayStillSubmit
  <2>2. \/ readiness' = readiness
        \/ /\ readiness' = [readiness EXCEPT !["reachable"] = IF answer.code = "ok" THEN "yes" ELSE "no"]
           /\ ask.view \in {"program_info", "circle_info"}
        \/ readiness' = [readiness EXCEPT ![ask.view] = IF answer.code = "ok" THEN "yes" ELSE "no"]
    BY <1>9 DEF Judge, JudgeProgram, JudgeHash, JudgeCircle, JudgeDatabase, Recorded
  <2> QED
    <3>1. readiness \in [Keys -> {"yes", "no", "unset"}]
      BY <1>0 DEF QueryTypeOK
    <3>2. \A key \in Keys : readiness'[key] = "yes" =>
              \/ readiness[key] = "yes"
              \/ answer.code = "ok" /\ key = ask.view
              \/ /\ answer.code = "ok" /\ key = "reachable"
                 /\ ask.view \in {"program_info", "circle_info"}
      BY <2>2, <3>1
    <3>3. answer.code = "ok" => <<ask.view, "ok">> \in served /\ ask.view # "reachable"
      BY <1>0, <2>1 DEF RecordIsTrue, QueryTypeOK, Views
    <3>4. "reachable" \in Keys
      BY DEF Keys
    <3>5. RecordIsTrue'
      BY <1>0, <2>1, <3>2, <3>3, <3>4 DEF RecordIsTrue
    <3> QED
      BY <1>0, <2>1, <3>5 DEF ReadyIsTrue, Has, ComparesHash
<1>10. CASE Verify
  <2>1. /\ input.command = "verify" /\ pc = "answered" /\ outcome = "none"
        /\ UNCHANGED <<input, version, served, seen, readiness>>
    BY <1>0, <1>10 DEF Verify, Answered, MayStillSubmit
  <2>2. CASE pc' = "done" /\ outcome' = "failed"
    BY <1>0, <2>1, <2>2 DEF RecordIsTrue, ReadyIsTrue, Has, ComparesHash
  <2>3. CASE /\ ~(Refused /\ ask.view # "auth_info")
             /\ ~(ask.view = "personalized_hash" /\ ~IsPersonalized)
             /\ Continue(IF ask.view = "program_info" /\ ComparesHash /\ seen # "raw"
                         THEN <<"personalized_hash">> ELSE << >>, FALSE)
    <3>1. <<"personalized_hash">> \in Seq(Views) /\ << >> \in Seq(Views)
      BY ViewSequences DEF Views
    <3>2. /\ \A view : Coming(view) => view = ask.view \/ Coming(view)'
          /\ ask.view = "program_info" /\ ComparesHash /\ seen # "raw" => Coming("personalized_hash")'
      BY <1>0, <2>3, <3>1, StillComing DEF QueryTypeOK
    <3>3. \A view \in {"query", "schema_typed", "tables"} :
              ask.view = view => <<view, "ok">> \in served
      BY <1>0, <2>1, <2>3 DEF Refused, RecordIsTrue
    <3>4. ask.view = "personalized_hash" => seen = "personalized"
      BY <2>3 DEF IsPersonalized
    <3>5. pc' = "next" /\ outcome' = "none"
      BY <2>1, <2>3 DEF Continue
    <3> QED
      BY <1>0, <2>1, <3>2, <3>3, <3>4, <3>5 DEF RecordIsTrue, ReadyIsTrue, Has, ComparesHash
  <2> QED
    BY <1>10, <2>2, <2>3 DEF Verify, End
<1>11. CASE Record
  <2>1. /\ input.command = "new" /\ pc = "answered" /\ outcome = "none"
        /\ pc' = "next" /\ outcome' = "none"
        /\ UNCHANGED <<input, version, served, seen>>
    BY <1>0, <1>11 DEF Record, Answered, Continue, MayStillSubmit
  <2>2. \/ /\ readiness' = [readiness EXCEPT !["reachable"] = IF answer.code = "ok" THEN "yes" ELSE "no"]
           /\ ask.view \in {"program_info", "circle_info"}
        \/ readiness' = [readiness EXCEPT ![ask.view] = IF answer.code = "ok" THEN "yes" ELSE "no"]
    BY <1>11 DEF Record, Recorded
  <2> QED
    <3>1. readiness \in [Keys -> {"yes", "no", "unset"}]
      BY <1>0 DEF QueryTypeOK
    <3>2. \A key \in Keys : readiness'[key] = "yes" =>
              \/ readiness[key] = "yes"
              \/ answer.code = "ok" /\ key = ask.view
              \/ /\ answer.code = "ok" /\ key = "reachable"
                 /\ ask.view \in {"program_info", "circle_info"}
      BY <2>2, <3>1
    <3>3. answer.code = "ok" => <<ask.view, "ok">> \in served /\ ask.view # "reachable"
      BY <1>0, <2>1 DEF RecordIsTrue, QueryTypeOK, Views
    <3>4. "reachable" \in Keys
      BY DEF Keys
    <3>5. RecordIsTrue'
      BY <1>0, <2>1, <3>2, <3>3, <3>4 DEF RecordIsTrue
    <3> QED
      BY <1>0, <2>1, <3>5 DEF ReadyIsTrue, Has, ComparesHash
<1>12. CASE Conclude
  <2>1. /\ pc = "next" /\ pc' = "done" /\ outcome' # "none"
        /\ UNCHANGED <<input, version, served, seen, readiness>>
        /\ \A view : ~Coming(view)
    BY <1>12 DEF Conclude, End, Coming
  <2>2. RecordIsTrue'
    BY <1>0, <2>1 DEF RecordIsTrue
  <2>3. CASE input.command = "status" /\ (outcome' = "ok" /\ Has("ready") => Ready(Keys))
                                      /\ outcome' \in {"ok", "failed"}
    BY <1>0, <2>1, <2>3 DEF RecordIsTrue, ReadyIsTrue, Ready, Keys, Has, ComparesHash
  <2>4. CASE input.command = "verify" /\ outcome' = "ok"
    BY <1>0, <2>1, <2>4 DEF RecordIsTrue, ReadyIsTrue, Has, ComparesHash
  <2>5. CASE input.command = "new" /\ (outcome' = "ready" => Ready(Keys \ {"storage_info"}))
                                   /\ outcome' \in {"ready", "not_ready"}
    BY <1>0, <2>1, <2>5 DEF RecordIsTrue, ReadyIsTrue, Ready, Keys, Has, ComparesHash
  <2> QED
    BY <1>12, <2>2, <2>3, <2>4, <2>5 DEF Conclude, End
<1>13. CASE Commit
  <2>1. version' > 0 /\ (version > 0 => version' > 0)
    BY <1>0, <1>13, Limited DEF Commit, QueryTypeOK
  <2> QED
    BY <1>0, <1>13, <2>1 DEF Commit, RecordIsTrue, ReadyIsTrue, Coming, Has, ComparesHash
<1>14. CASE Update
  BY <1>0, <1>14 DEF Update, RecordIsTrue, ReadyIsTrue, MayStillSubmit, Coming, Has, ComparesHash
<1>15. CASE UNCHANGED vars
  BY <1>0, <1>15 DEF vars, RecordIsTrue, ReadyIsTrue, MayStillSubmit, Coming, Has, ComparesHash
<1> QED
  BY <1>1, <1>2, <1>3, <1>4, <1>5, <1>6, <1>7, <1>8, <1>9, <1>10, <1>11, <1>12, <1>13, <1>14, <1>15 DEF Next, Step

-----------------------------------------------------------------------------
LEMMA QueryInvInit == ASSUME Init PROVE QueryInv
<1>1. /\ input \in Inputs /\ input.command \in {"sql", "status", "verify", "new"}
      /\ MaxVersion \in Nat /\ MaxAttempts \in Nat
  BY Limited, QueryAssumption DEF Init
<1>2. todo = PlanOf(input.command) /\ todo \in Seq(Views)
  <2>1. \A command \in {"sql", "status", "verify", "new"} : PlanOf(command) \in Seq(Views)
    <3>1. PlanOf("sql") \in Seq(Views)
      BY DEF PlanOf, Views
    <3>2. PlanOf("status") \in Seq(Views)
      BY DEF PlanOf, Views
    <3>3. PlanOf("verify") \in Seq(Views)
      BY DEF PlanOf, Views
    <3>4. PlanOf("new") \in Seq(Views)
      BY DEF PlanOf, Views
    <3> QED
      BY <3>1, <3>2, <3>3, <3>4
  <2> QED
    BY <1>1, <2>1 DEF Init
<1>3. answer.code = "none" /\ answer.rows \in Seq(Nat)
  BY ErrorFields DEF Init
<1>4. QueryTypeOK
  <2>1. version \in Versions /\ began \in 0..version
    BY <1>1 DEF Init, Versions
  <2>2. ask \in [view : Views, by : {"circle_info", "unsigned", "signed"}]
    BY DEF Init, Views
  <2>3. readiness \in [Keys -> {"yes", "no", "unset"}]
    BY DEF Init
  <2>4. /\ program \in Programs /\ seen \in Programs \cup {"nothing"}
        /\ pc = "session" /\ attempt \in 0..MaxAttempts /\ sent \in 0..1
        /\ failures \in BOOLEAN
    <3>1. /\ program \in Programs /\ seen = "nothing" /\ pc = "session"
          /\ attempt = 0 /\ sent = 0 /\ failures = FALSE
      BY DEF Init
    <3>2. 0 \in 0..MaxAttempts /\ 0 \in 0..1
      BY <1>1
    <3>3. attempt \in 0..MaxAttempts /\ sent \in 0..1
      BY <3>1, <3>2
    <3>4. "nothing" \in Programs \cup {"nothing"} /\ FALSE \in BOOLEAN
      OBVIOUS
    <3> QED
      BY <3>1, <3>3, <3>4
  <2> QED
    BY <1>1, <1>2, <1>3, <2>1, <2>2, <2>3, <2>4 DEF QueryTypeOK
<1>5. MayStillSubmit /\ SubmitsOnlyWrites
  BY DEF Init, MayStillSubmit, SubmitsOnlyWrites
<1>6. AnswerIsOfAVersion /\ AnswerIsWhole
  BY <1>2, <1>3 DEF Init, AnswerIsOfAVersion, AnswerIsWhole, Limits, PlanOf
<1>7. RecordIsTrue /\ ReadyIsTrue
  <2>1. ASSUME input.command = "verify"
        PROVE  \A view \in {"program_info", "query", "schema_typed", "tables"} : Coming(view)
    <3>1. /\ Len(todo) = 6 /\ todo[1] = "program_info" /\ todo[4] = "query"
          /\ todo[5] = "schema_typed" /\ todo[6] = "tables"
      BY <1>2, <2>1 DEF PlanOf
    <3> QED
      BY <3>1 DEF Coming
  <2> QED
    BY <2>1 DEF Init, RecordIsTrue, ReadyIsTrue, Keys
<1> QED
  BY <1>4, <1>5, <1>6, <1>7 DEF QueryInv

(* In every run, whatever the other clients commit and however often a     *)
(* request is sent again, what the command has recorded and shown was      *)
(* answered by the Circle (rpc.rs, transport.rs, inspection.rs, sql.rs,    *)
(* octra_sqlite_circle.c).                                                 *)
THEOREM QueryInvHolds == Spec => []QueryInv
<1>1. Init => QueryInv
  BY QueryInvInit
<1>2. QueryInv /\ [Next]_vars => QueryInv'
  BY TypeStep, SubmitStep, AnswerStep, RecordStep DEF QueryInv
<1> QED
  BY <1>1, <1>2, PTL DEF Spec

(* What sql shows is all that its statement selects on one version         *)
(* committed while the request was under way (append_bytes,                *)
(* consume_sql_work_budget, run_one_sql_to).                               *)
THEOREM AnswersAreWhole == Spec => []AnswerIsWhole
<1>1. QueryInv => AnswerIsWhole
  BY DEF QueryInv
<1> QED
  BY <1>1, QueryInvHolds, PTL

(* Only a statement that writes is submitted after a query, once           *)
(* (sqlite_requires_exec, looks_like_sql_script).                          *)
THEOREM OnlyWritesAreSubmitted == Spec => []SubmitsOnlyWrites
<1>1. QueryInv => SubmitsOnlyWrites
  BY DEF QueryInv
<1> QED
  BY <1>1, QueryInvHolds, PTL

(* A report of readiness rests on the answers of this run                  *)
(* (check_live_target, verify_json, new_readiness_json).                   *)
THEOREM ReadinessIsTrue == Spec => []ReadyIsTrue
<1>1. QueryInv => ReadyIsTrue
  BY DEF QueryInv
<1> QED
  BY <1>1, QueryInvHolds, PTL

=============================================================================
