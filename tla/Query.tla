-------------------------------- MODULE Query --------------------------------
(***************************************************************************)
(* The read path: a command that asks a Circle for views (sql, status,     *)
(* verify, the readiness checks of new), the choice of a signed or an      *)
(* unsigned view, the transport with its retries, and the Circle that runs *)
(* the statement under its limits (sql.rs, inspection.rs, onboarding.rs,   *)
(* rpc.rs, transport.rs, osr1.rs, octra_sqlite_circle.c).                  *)
(*                                                                         *)
(* Other clients commit and update the program between any two requests    *)
(* and between two attempts of one request.                                *)
(***************************************************************************)
EXTENDS Integers, Sequences

CONSTANTS
    Inputs,          \* [command, text, flags, mode, wallet, public]
    Reads, Writes,   \* the statements that read, and those that do not
    Pieces,          \* what a statement appends on a version: header and rows
    Steps,           \* the virtual machine steps it takes there
    MaxVersion,      \* bounds the commits
    MaxAttempts,     \* MAX_RPC_ATTEMPTS
    OutBytes,        \* sizeof(out)
    TextBytes,       \* MAX_JSON_BYTES: what the text of a typed result may take
    MaxRows,         \* MAX_RESULT_ROWS
    MaxSteps,        \* MAX_QUERY_VDBE_STEPS
    Interval         \* SQL_PROGRESS_INTERVAL

Statements == Reads \cup Writes
Versions == 0..MaxVersion        \* 0: there is no database yet
Programs == {"raw", "personalized", "historical", "foreign"}

ASSUME QueryAssumption ==
    /\ Reads \cap Writes = {} /\ Statements \cap {";", "--"} = {}
    /\ \A n \in {MaxVersion, MaxAttempts, OutBytes, TextBytes, MaxRows, MaxSteps} : n \in Nat
    /\ MaxAttempts > 0 /\ Interval \in Nat \ {0} /\ MaxSteps >= Interval
    /\ Pieces \in [Statements -> [Versions -> Seq(Nat) \ {<< >>}]]
    /\ Steps \in [Statements -> [Versions -> Nat]]
    /\ \A i \in Inputs : /\ i.command \in {"sql", "status", "verify", "new"}
                         /\ i.text \in Seq(Statements \cup {";", "--"})

-----------------------------------------------------------------------------
(* The text of the user                                                    *)

(* looks_like_sql_script: something that is no comment follows a semicolon. *)
LooksLikeScript(text) ==
    \E i \in 1..Len(text) :
        text[i] = ";" /\ \E j \in i + 1..Len(text) : text[j] # "--"

StatementAt(text) == {i \in 1..Len(text) : text[i] \in Statements}
Holds(text, many) == \E i, j \in 1..Len(text) : i # j /\ {text[i], text[j]} \subseteq many

(* The statement of a text that holds one. *)
StatementOf(text) == text[CHOOSE i \in StatementAt(text) : TRUE]

-----------------------------------------------------------------------------
(* The Circle                                                              *)

(* Mutant: the callback after the last of the budget interrupts. *)
InterruptedPastLast(steps) == steps \div Interval > MaxSteps \div Interval

(* consume_sql_work_budget: a callback after every Interval steps; the one *)
(* that takes the last of the budget interrupts.                           *)
Interrupted(steps) ==
    LET granted == MaxSteps \div Interval
        callbacks == steps \div Interval
    IN  callbacks > 0 /\ callbacks >= granted

(* Mutant: the flag is that of the last piece. *)
AppendedForgetting(pieces) ==
    LET used[k \in 0..Len(pieces)] ==
            IF k = 0 THEN 0
            ELSE LET before == used[k - 1]
                 IN  IF before + pieces[k] <= OutBytes THEN before + pieces[k] ELSE before
        fits == {k \in 1..Len(pieces) : used[k - 1] + pieces[k] <= OutBytes}
    IN  [bytes |-> used[Len(pieces)],
         overflow |-> Len(pieces) \notin fits,
         rows |-> [k \in 1..Len(pieces) - 1 |-> IF k + 1 \in fits THEN pieces[k + 1] ELSE 0]]

(* append_bytes: what does not fit is left out (0 below), and out_overflow
   stays set. *)
Appended(pieces) ==
    LET used[k \in 0..Len(pieces)] ==
            IF k = 0 THEN 0
            ELSE LET before == used[k - 1]
                 IN  IF before + pieces[k] <= OutBytes THEN before + pieces[k] ELSE before
        fits == {k \in 1..Len(pieces) : used[k - 1] + pieces[k] <= OutBytes}
    IN  [bytes |-> used[Len(pieces)],
         overflow |-> fits # 1..Len(pieces),
         rows |-> [k \in 1..Len(pieces) - 1 |-> IF k + 1 \in fits THEN pieces[k + 1] ELSE 0]]

(* The prefix OSR1: and base64. *)
EncodedBytes(bytes) == 5 + 4 * ((bytes + 2) \div 3)

(* run_sqlite_query_typed, respond_typed_result: why it gives no rows.  Of *)
(* several reasons the one that is met first is reported.                  *)
Refusals(s, v) ==
    LET out == Appended(Pieces[s][v])
    IN  {code \in {"query_budget_exceeded", "result_limit_exceeded", "response_too_large"} :
            CASE code = "query_budget_exceeded" -> Interrupted(Steps[s][v])
              [] code = "result_limit_exceeded" -> Len(Pieces[s][v]) - 1 > MaxRows
              [] code = "response_too_large" ->
                     out.overflow \/ EncodedBytes(out.bytes) > TextBytes}

(* The rows, which the client decodes as they are: the limits of           *)
(* decode_typed_result are those of the Circle.                            *)
NoRows == << >>
Answer(code, rows) == [code |-> code, rows |-> rows]
Error(code) == Answer(code, NoRows)

RunQuery(text, v) ==
    LET s == StatementOf(text)
    IN  IF StatementAt(text) = {} THEN {Error("sqlite_empty_query")}
        ELSE IF Holds(text, Statements) THEN {Error("sqlite_single_query_required")}
        ELSE IF s \notin Reads THEN {Error("sqlite_readonly_required")}
        ELSE IF Refusals(s, v) # {} THEN {Error(code) : code \in Refusals(s, v)}
        ELSE {Answer("ok", Appended(Pieces[s][v]).rows)}

-----------------------------------------------------------------------------
VARIABLES
    input,
    version,         \* of the database
    program,         \* that the Circle runs
    pc,
    todo,            \* the views still to ask for
    ask,             \* the view asked for, and by which request
    attempt,
    began,           \* the version when the request was first sent
    seen,            \* the program that program_info has told of
    served,          \* the views the Circle has answered, and how
    readiness,       \* what the command has recorded: "yes", "no" or "unset"
    failures,
    sent,            \* how often octra_submit has been called
    answer,          \* the last answer to a view
    outcome

node == <<version, program>>
report == <<seen, served, readiness, failures>>
request == <<ask, attempt, began>>
vars == <<input, node, pc, todo, request, report, sent, answer, outcome>>

Views == {"program_info", "personalized_hash", "circle_info", "storage_info", "auth_info",
          "query", "schema_typed", "tables"}

Keys == {"reachable", "auth_info", "storage_info", "query"}

(* check_live_target, verify_json, new_readiness_json.  Without --json verify
   asks one more query, which is answered like the one before it. *)
PlanOf(command) ==
    CASE command = "sql" -> <<"query">>
      [] command = "status" -> <<"program_info", "storage_info", "auth_info", "query">>
      [] command = "verify" -> <<"program_info", "storage_info", "auth_info", "query",
                                 "schema_typed", "tables">>
      [] command = "new" -> <<"program_info", "auth_info", "storage_info", "query">>

Has(flag) == flag \in input.flags
AllowsUnsignedRead == input.mode # "sealed"

Init ==
    /\ input \in Inputs
    /\ version \in 0..1 /\ version <= MaxVersion
    /\ program \in Programs
    /\ pc = "session"
    /\ todo = PlanOf(input.command)
    /\ ask = [view |-> "query", by |-> "unsigned"]
    /\ attempt = 0
    /\ began = version
    /\ seen = "nothing"
    /\ served = {}
    /\ readiness = [key \in Keys |-> "unset"]
    /\ failures = FALSE
    /\ sent = 0
    /\ answer = Error("none")
    /\ outcome = "none"

End(how) ==
    /\ pc' = "done"
    /\ outcome' = how

(* build_session_for_target: a sealed target needs the private key.  status
   goes on without the network. *)
OpenSession ==
    /\ pc = "session"
    /\ IF input.wallet \/ AllowsUnsignedRead
       THEN pc' = (IF input.command = "sql" THEN "text" ELSE "next") /\ UNCHANGED <<todo, outcome>>
       ELSE IF input.command = "status"
       THEN pc' = "next" /\ todo' = << >> /\ UNCHANGED outcome
       ELSE End("failed") /\ UNCHANGED todo
    /\ UNCHANGED <<input, node, request, report, sent, answer>>

(* run_one_sql_to: dot commands and scripts.  What a script submits, module
   Script tells; a dot command that reads asks for a view. *)
ReadText ==
    /\ pc = "text"
    /\ LET writing == Has("write_dot") \/ (~Has("dot") /\ LooksLikeScript(input.text))
       IN  IF (Has("trace") /\ (Has("dot") \/ writing)) \/ (Has("read_only") /\ writing)
           THEN End("failed")
           ELSE IF writing THEN End("script")
           ELSE pc' = "next" /\ UNCHANGED outcome
    /\ UNCHANGED <<input, node, todo, request, report, sent, answer>>

(* view_with, program_info_with: an Auto target asks the Circle first. *)
SendsBy(view) ==
    IF view = "circle_info" \/ input.mode = "auto" THEN "circle_info"
    ELSE IF input.mode = "public" THEN "unsigned"
    ELSE "signed"

Send(by) ==
    /\ ask' = [view |-> ask.view, by |-> by]
    /\ attempt' = 1

AskNext ==
    /\ pc = "next" /\ todo # << >>
    /\ ask' = [view |-> Head(todo), by |-> SendsBy(Head(todo))]
    /\ todo' = Tail(todo)
    /\ attempt' = 1
    /\ began' = version
    /\ pc' = "asking"
    /\ UNCHANGED <<input, node, report, sent, answer, outcome>>

Get(a) ==
    /\ answer' = a
    /\ pc' = "answered"
    /\ UNCHANGED <<ask, attempt>>

(* circle_info_allows_unsigned_read. *)
ChooseSurface ==
    IF input.public THEN Send("unsigned") /\ UNCHANGED <<pc, answer>>
    ELSE IF input.wallet THEN Send("signed") /\ UNCHANGED <<pc, answer>>
    ELSE Get(Error("wallet_required"))

Served ==
    IF ask.by = "unsigned" /\ ~input.public THEN {Error("access_denied")}
    ELSE IF ask.view \in {"program_info", "circle_info"} THEN {Error("ok")}
    ELSE IF program = "foreign" THEN {Error("unknown_method")}
    ELSE IF ask.view = "query" /\ input.command = "sql" THEN RunQuery(input.text, version)
    ELSE IF ask.view = "storage_info" /\ version = 0 THEN {Error("empty")}
    ELSE IF ask.view = "personalized_hash" /\ program = "raw" THEN {Error("unconfigured")}
    ELSE {Error("ok")}

(* HttpTransport::call gets an answer; what it shows is true now. *)
Receive ==
    /\ pc = "asking"
    /\ IF ask.by = "circle_info" /\ ask.view # "circle_info"
       THEN ChooseSurface /\ UNCHANGED <<seen, served>>
       ELSE \E a \in Served :
              /\ Get(a)
              /\ seen' = IF ask.view = "program_info" /\ a.code = "ok" THEN program ELSE seen
              /\ served' = served \cup {<<ask.view, a.code>>}
    /\ UNCHANGED <<input, node, todo, began, readiness, failures, sent, outcome>>

(* Mutant: rate limits are waited out without counting the attempts. *)
RetryUncounted ==
    /\ pc = "asking"
    /\ attempt' = IF attempt < MaxAttempts THEN attempt + 1 ELSE attempt - 1
    /\ UNCHANGED <<input, node, pc, todo, ask, began, report, sent, answer, outcome>>

(* A transport error, a status or an error that is worth another attempt. *)
Retry ==
    /\ pc = "asking" /\ attempt < MaxAttempts
    /\ attempt' = attempt + 1
    /\ UNCHANGED <<input, node, pc, todo, ask, began, report, sent, answer, outcome>>

GiveUp ==
    /\ pc = "asking"
    /\ Get(Error("transport"))
    /\ UNCHANGED <<input, node, todo, began, report, sent, outcome>>

-----------------------------------------------------------------------------
(* What the command does with an answer                                    *)

Answered(command) == pc = "answered" /\ input.command = command
Refused == answer.code \notin {"ok", "empty", "unconfigured"}

(* Mutant: any refusal of the Circle leads to the write. *)
RequiresExecOnAny(code) == code \notin {"ok", "transport", "wallet_required"}

(* sqlite_requires_exec. *)
RequiresExec(code) == code = "sqlite_readonly_required"

ShowRows ==
    /\ Answered("sql")
    /\ IF ~Refused THEN End("ok")
       ELSE IF RequiresExec(answer.code) /\ ~Has("trace") /\ ~Has("read_only") /\ ~Has("dot")
       THEN pc' = "exec" /\ UNCHANGED outcome
       ELSE End("failed")
    /\ UNCHANGED <<input, node, todo, request, report, sent, answer>>

(* Mutant: octra_submit is sent again like any other method. *)
ExecRetried ==
    /\ pc = "exec"
    /\ \/ End("failed") /\ UNCHANGED sent
       \/ input.wallet /\ sent' = sent + 1 /\ (End("submitted") \/ UNCHANGED <<pc, outcome>>)
    /\ UNCHANGED <<input, node, todo, request, report, answer>>

(* run_exec_sql_to: it may fail before the submission; octra_submit is
   called once, whatever becomes of the call. *)
Exec ==
    /\ pc = "exec"
    /\ \/ End("failed") /\ UNCHANGED sent
       \/ input.wallet /\ sent' = sent + 1 /\ (End("submitted") \/ End("failed"))
    /\ UNCHANGED <<input, node, todo, request, report, answer>>

Continue(more, failed) ==
    /\ pc' = "next"
    /\ todo' = more \o todo
    /\ failures' = (failures \/ failed)
    /\ UNCHANGED outcome

Recorded(key) == readiness' = [readiness EXCEPT ![key] = IF answer.code = "ok" THEN "yes" ELSE "no"]

(* The hash of a personalized program is computed from its auth_info. *)
IsPersonalized == ~Refused /\ answer.code # "unconfigured" /\ seen = "personalized"

(* check_live_target: program_info, the program it tells of, circle_info in
   its place, and the views of the database. *)
JudgeProgram ==
    /\ ask.view = "program_info"
    /\ IF Refused /\ AllowsUnsignedRead
       THEN /\ Continue(<<"circle_info">>, FALSE)
            /\ UNCHANGED readiness
       ELSE /\ Recorded("reachable")
            /\ Continue(IF Refused \/ seen = "raw" THEN << >> ELSE <<"personalized_hash">>, Refused)

JudgeHash ==
    /\ ask.view = "personalized_hash"
    /\ Continue(<< >>, ~IsPersonalized /\ seen # "historical")
    /\ UNCHANGED readiness

JudgeCircle ==
    /\ ask.view = "circle_info"
    /\ Recorded("reachable")
    /\ Continue(<< >>, Refused \/ ~input.public)

JudgeDatabase ==
    /\ ask.view \in {"storage_info", "auth_info", "query"}
    /\ Recorded(ask.view)
    /\ Continue(<< >>, Refused)

Judge ==
    /\ Answered("status")
    /\ JudgeProgram \/ JudgeHash \/ JudgeCircle \/ JudgeDatabase
    /\ UNCHANGED <<input, node, request, seen, served, sent, answer>>

(* verify compares the hash of the program: with --json that of the bundled
   one unless another is given, without it only one that is given. *)
ComparesHash == Has("json") \/ Has("expected_hash")

(* Any error but that of auth_info ends verify, and so does a program that is
   not the expected one. *)
Verify ==
    /\ Answered("verify")
    /\ IF \/ Refused /\ ask.view # "auth_info"
          \/ ask.view = "personalized_hash" /\ ~IsPersonalized
       THEN End("failed") /\ UNCHANGED <<todo, failures>>
       ELSE Continue(IF ask.view = "program_info" /\ ComparesHash /\ seen # "raw"
                     THEN <<"personalized_hash">> ELSE << >>, FALSE)
    /\ UNCHANGED <<input, node, request, seen, served, readiness, sent, answer>>

(* new_readiness_json records the errors. *)
Record ==
    /\ Answered("new")
    /\ Recorded(IF ask.view = "program_info" THEN "reachable" ELSE ask.view)
    /\ Continue(<< >>, FALSE)
    /\ UNCHANGED <<input, node, request, seen, served, sent, answer>>

(* Mutant: a key that was never recorded does not count. *)
ReadyUnlessRefused(keys) == \A key \in keys : readiness[key] # "no"

(* read_ready; storage_initialized does not count for new. *)
Ready(keys) == \A key \in keys : readiness[key] = "yes"

(* finish_with_ready; the output of verify and of new. *)
Conclude ==
    /\ pc = "next" /\ todo = << >>
    /\ \/ /\ input.command = "status"
          /\ End(IF failures \/ (Has("ready") /\ ~Ready(Keys)) THEN "failed" ELSE "ok")
       \/ input.command = "verify" /\ End("ok")
       \/ /\ input.command = "new"
          /\ End(IF Ready(Keys \ {"storage_info"}) THEN "ready" ELSE "not_ready")
    /\ UNCHANGED <<input, node, todo, request, report, sent, answer>>

-----------------------------------------------------------------------------
(* The other clients                                                       *)

Commit ==
    /\ version < MaxVersion
    /\ version' = version + 1
    /\ UNCHANGED <<input, program, pc, todo, request, report, sent, answer, outcome>>

Update ==
    /\ program' \in Programs
    /\ UNCHANGED <<input, version, pc, todo, request, report, sent, answer, outcome>>

Step ==
    \/ OpenSession \/ ReadText \/ AskNext \/ Receive \/ Retry \/ GiveUp
    \/ ShowRows \/ Exec \/ Judge \/ Verify \/ Record \/ Conclude

Next == Step \/ Commit \/ Update

(* The client runs, whatever the node answers. *)
Spec == Init /\ [][Next]_vars /\ WF_vars(Step)

-----------------------------------------------------------------------------
QueryTypeOK ==
    /\ input \in Inputs
    /\ version \in Versions /\ began \in 0..version
    /\ program \in Programs /\ seen \in Programs \cup {"nothing"}
    /\ pc \in {"session", "text", "next", "asking", "answered", "exec", "done"}
    /\ todo \in Seq(Views)
    /\ ask \in [view : Views, by : {"circle_info", "unsigned", "signed"}]
    /\ attempt \in 0..MaxAttempts
    /\ readiness \in [Keys -> {"yes", "no", "unset"}]
    /\ failures \in BOOLEAN
    /\ sent \in 0..1
    /\ answer.rows \in Seq(Nat)

(* The rows that sql shows are all the rows of its one statement on one    *)
(* version of the database that was committed while the request was under  *)
(* way, and a statement is refused for the work budget or for its rows     *)
(* only if it takes more of them there.                                    *)
AnswerIsWhole ==
    LET s == StatementOf(input.text)
    IN  /\ input.command = "sql" /\ outcome = "ok" =>
              /\ StatementAt(input.text) # {} /\ ~Holds(input.text, Statements)
              /\ \E v \in began..version :
                    answer.rows = Tail(Pieces[s][v]) /\ Steps[s][v] < MaxSteps
        /\ answer.code = "query_budget_exceeded" =>
              \E v \in began..version : Steps[s][v] > MaxSteps - Interval
        /\ answer.code = "result_limit_exceeded" =>
              \E v \in began..version : Len(Pieces[s][v]) > MaxRows + 1

(* octra_submit is called at most once, only for a statement that writes,  *)
(* and never with --read-only or --trace-rpc-json; a text is taken for a   *)
(* script only if it holds a second statement or a second semicolon, or    *)
(* begins with a semicolon.                                                *)
SubmitsOnlyWrites ==
    /\ sent <= 1 /\ (sent = 1 => StatementOf(input.text) \in Writes)
    /\ sent = 1 \/ outcome = "script" =>
          ~Has("read_only") /\ ~Has("trace") /\ input.command = "sql"
    /\ outcome = "script" =>
          \/ Has("write_dot")
          \/ Holds(input.text, Statements) \/ Holds(input.text, {";"})
          \/ \E i \in 1..Len(input.text) :
                input.text[i] = ";" /\ \A k \in 1..i - 1 : input.text[k] = "--"

(* What a readiness check or verify reports as good was answered in this   *)
(* run: status --ready and new by every view they name, on a database that *)
(* exists, and verify by a program that was the bundled one where it       *)
(* compares the hash.                                                      *)
ReadyIsTrue ==
    /\ (\/ input.command = "status" /\ Has("ready") /\ outcome = "ok"
        \/ outcome = "ready")
       => /\ \E view \in {"program_info", "circle_info"} : <<view, "ok">> \in served
          /\ \A view \in {"auth_info", "query"} : <<view, "ok">> \in served
    /\ input.command = "status" /\ Has("ready") /\ outcome = "ok" =>
          <<"storage_info", "ok">> \in served /\ version > 0
    /\ input.command = "verify" /\ outcome = "ok" =>
          /\ ComparesHash => seen \in {"raw", "personalized"}
          /\ \A view \in {"query", "schema_typed", "tables"} : <<view, "ok">> \in served

(* What the comment on --expected-hash says: it "defaults to the bundled    *)
(* release artifact hash", so a verify that succeeds has seen the bundled  *)
(* program.                                                                *)
VerifyExpectsBundled ==
    input.command = "verify" /\ outcome = "ok" => seen \in {"raw", "personalized"}

(* What makes the three hold.                                              *)

(* A command past the text of the user may submit what it is about to. *)
MayStillSubmit ==
    /\ outcome = "none" <=> pc # "done"
    /\ pc = "exec" => sent = 0 /\ StatementOf(input.text) \in Writes
    /\ pc \in {"session", "text", "next", "asking", "answered"} => sent = 0
    /\ pc = "exec" => ~Has("read_only") /\ ~Has("trace") /\ input.command = "sql"
    /\ pc = "text" => input.command = "sql"
    /\ outcome \in {"script", "submitted"} => input.command = "sql"

Limits == {"query_budget_exceeded", "result_limit_exceeded"}

(* A query of the user is asked once, and its answer is that of a version. *)
AnswerIsOfAVersion ==
    /\ pc = "answered" /\ input.command = "sql" /\ answer.code = "ok" =>
          LET s == StatementOf(input.text)
          IN  /\ StatementAt(input.text) # {} /\ ~Holds(input.text, Statements)
              /\ \E v \in began..version :
                    answer.rows = Tail(Pieces[s][v]) /\ Steps[s][v] < MaxSteps
    /\ pc = "answered" /\ answer.code = "sqlite_readonly_required" =>
          StatementOf(input.text) \in Writes
    /\ answer.code \in Limits => pc \in {"answered", "done"} /\ input.command = "sql"
    /\ input.command = "sql" /\ pc \in {"asking", "answered"} => ask.view = "query"
    /\ input.command = "sql" /\ pc \in {"session", "text", "next"} => todo = <<"query">>

Coming(view) ==
    \/ \E i \in 1..Len(todo) : todo[i] = view
    \/ pc \in {"asking", "answered"} /\ ask.view = view

(* What has been recorded was served; what has not is still to come. *)
RecordIsTrue ==
    /\ <<"storage_info", "ok">> \in served => version > 0
    /\ pc = "answered" /\ answer.code = "ok" => <<ask.view, "ok">> \in served
    /\ pc = "answered" /\ answer.code \in {"empty", "unconfigured"} =>
          ask.view \in {"storage_info", "personalized_hash"}
    /\ readiness["reachable"] = "yes" =>
          \E view \in {"program_info", "circle_info"} : <<view, "ok">> \in served
    /\ \A key \in Keys \ {"reachable"} : readiness[key] = "yes" => <<key, "ok">> \in served
    /\ input.command = "verify" /\ pc # "done" =>
          /\ \A view \in {"query", "schema_typed", "tables"} :
                <<view, "ok">> \in served \/ Coming(view)
          /\ \/ ~ComparesHash \/ seen \in {"raw", "personalized"}
             \/ Coming("program_info") \/ Coming("personalized_hash")

QueryInv ==
    /\ QueryTypeOK
    /\ MayStillSubmit /\ AnswerIsOfAVersion /\ RecordIsTrue
    /\ AnswerIsWhole /\ SubmitsOnlyWrites /\ ReadyIsTrue

(* Every command ends, however often its requests are refused.             *)
QueryEnds == <>(pc = "done")

=============================================================================
