------------------------------- MODULE Script -------------------------------
(***************************************************************************)
(* SQL scripts and CSV files as the command line runs them: restore (with  *)
(* or without --bootstrap-owner), a script typed or read in the shell, the *)
(* initializers of new, and .import (portability.rs, sql.rs,               *)
(* onboarding.rs); and the write smoke of verify (inspection.rs).  A       *)
(* script is planned into batches; every batch is one owner write, so      *)
(* batch b is writer b of OwnerWrite and starts when the batch before it   *)
(* has returned.  The write smoke is a script of three statements, each a  *)
(* write of its own: create a table, insert into it, drop it.  Writer      *)
(* Other is a call of some other process that uses the same wallet.        *)
(*                                                                         *)
(* A statement is its text.  The command gets the statements of a script,  *)
(* or the rows of a CSV file, as one text and has to find them again       *)
(* (module ScriptText).                                                    *)
(***************************************************************************)
EXTENDS OwnerWrite, ScriptText

CONSTANTS
    Characters,      \* the words and marks of the texts
    BatchTarget,     \* SQL_BATCH_TARGET_BYTES (7500)
    MaxText,         \* MAX_SQL_TEXT_BYTES (8191)
    Inputs           \* [command, parts]: a command and its scripts, each a
                     \* sequence of statements or of the rows of a CSV file

Commands == {"script", "restore", "bootstrap", "new", "new_no_wait", "csv", "verify", "check"}

Other == 0

(* A text is a sequence of characters, a row of texts.  The write smoke has
   three statements of its own, each far below the limit. *)
Texts == Seq(Characters)
ASSUME ScriptAssumption ==
    /\ Other \in Writers /\ Writers \subseteq Nat
    /\ Marks \cup {",", "insert"} \subseteq Characters
    /\ {BatchTarget, MaxText} \subseteq Nat /\ BatchTarget < MaxText
    /\ \A i \in Inputs :
          /\ i.command \in Commands
          /\ i.parts \in Seq(Seq(IF i.command = "csv" THEN Seq(Texts) \ {<< >>} ELSE Texts))
          /\ i.command = "verify" =>
                 /\ Len(i.parts) = 1 /\ Len(i.parts[1]) = 3
                 /\ \A k \in 1..3 : Len(i.parts[1][k]) <= MaxText

VARIABLES
    input,
    plans,           \* of its scripts
    part,            \* how many of its scripts are planned
    batches,         \* of the scripts planned so far: [of, bytes]
    planned,         \* whether the last plan reaches the end of its script
    at,              \* the batch that is executed
    failed,          \* the insert or the query of the write smoke has failed
    outcome

given == <<input, plans>>
script == <<given, part, batches, planned, at, failed, outcome>>
allVars == <<vars, script>>

Outcomes == {"running", "complete", "refused", "stopped", "unverified"}

ScriptTypeOK ==
    /\ input \in Inputs
    /\ part \in 0..Len(input.parts)
    /\ at \in 1..Len(batches) + 1
    /\ {planned, failed} \subseteq BOOLEAN
    /\ outcome \in Outcomes

NoWait == input.command = "new_no_wait"
Smoke == input.command = "verify"
Create == 1
Insert == 2
Cleanup == 3

-----------------------------------------------------------------------------
(* The plan                                                                *)

(* The text that holds the statements of a script, one below the other. *)
TextOf(statements) ==
    FlattenSeq([i \in 1..Len(statements) |-> Append(statements[i], "\n")])

(* The CSV file that holds some rows: fields are quoted where they have to be. *)
CsvField(field) ==
    IF \A c \in 1..Len(field) : field[c] \notin {",", "\"", "\n"} THEN field
    ELSE <<"\"">> \o FlattenSeq([c \in 1..Len(field) |->
             IF field[c] = "\"" THEN <<"\"", "\"">> ELSE <<field[c]>>]) \o <<"\"">>
CsvLine(row) ==
    FlattenSeq([k \in 1..Len(row) |->
        Append(CsvField(row[k]), IF k < Len(row) THEN "," ELSE "\n")])
CsvOf(rows) == FlattenSeq([i \in 1..Len(rows) |-> CsvLine(rows[i])])

(* planned_statements: what is executed, and what refuses the script. *)
Refused(statement) == Len(statement) > MaxText \/ IsTransactionControl(statement)
Executable(statements) ==
    LET kept[k \in 0..Len(statements)] ==
            IF k = 0 THEN << >>
            ELSE IF IsWrapper(statements[k]) THEN kept[k - 1]
            ELSE Append(kept[k - 1], k)
    IN  kept[Len(statements)]

(* render_statement_for_batch: a newline, and a semicolon where it lacks. *)
Rendered(statement) ==
    IF Len(statement) >= BatchTarget THEN Len(statement)
    ELSE Len(statement) + 1 + (IF Last(statement) = ";" THEN 0 ELSE 1)

(* Mutant: the batch is closed after the item that fills it. *)
JoinsLate(batch, length) == batch.bytes < BatchTarget

(* An item joins the open batch unless the two would reach the target. *)
Joins(batch, length) == batch.bytes + length < BatchTarget

AllButLast(found) == IF found = << >> THEN found ELSE Front(found)

(* The batches after one more item. *)
WithItem(found, item, length) ==
    IF found # << >> /\ Joins(Last(found), length)
    THEN Append(Front(found), [of |-> Append(Last(found).of, item),
                               bytes |-> Last(found).bytes + length])
    ELSE Append(found, [of |-> <<item>>, bytes |-> length])

(* The batches of items of given lengths, before any is closed for good. *)
BatchesUpTo(items, lengths) ==
    LET found[k \in 0..Len(items)] ==
            IF k = 0 THEN << >> ELSE WithItem(found[k - 1], items[k], lengths[k])
    IN  found

(* Mutant: the batch that is open at the end is not submitted. *)
BatchesOfClosed(items, lengths) == AllButLast(BatchesUpTo(items, lengths)[Len(items)])

BatchesOf(items, lengths) == BatchesUpTo(items, lengths)[Len(items)]

(* What is executed of statements or rows, by position, with its text. *)
Numbered(p, items, texts) ==
    [k \in 1..Len(items) |-> [part |-> p, index |-> items[k], text |-> texts[items[k]]]]

(* plan_sql_script: the text is split, its statements are judged and put into
   batches (script_batches) before the first of them is submitted. *)
Fit(statements, found) ==
    /\ \A i \in 1..Len(statements) : ~Refused(statements[i])
    /\ \A b \in 1..Len(found) : found[b].bytes <= MaxText
Planned(statements, found) ==
    [batches |-> IF Fit(statements, found) THEN found ELSE << >>,
     whole |-> Fit(statements, found), texts |-> statements]
ScriptBatches(statements, items) ==
    BatchesOf(items, [k \in 1..Len(items) |-> Rendered(statements[items[k]])])
PlanStatements(statements) ==
    Planned(statements, ScriptBatches(statements, Executable(statements)))
PlanScript(written) == PlanStatements(SplitSql(TextOf(written)))

(* import_csv_with_ou makes its batches as it goes: at a row that is too
   large, the batches before it have been submitted and the open one is lost. *)
PlanInserts(inserts) ==
    LET large == {i \in 1..Len(inserts) : Len(inserts[i]) > MaxText}
        fit == [i \in 1..(IF large = {} THEN Len(inserts) ELSE Min(large) - 1) |-> i]
        found == BatchesOf(fit, [k \in 1..Len(fit) |-> Len(inserts[k]) + 1])
    IN  [batches |-> IF large = {} THEN found ELSE AllButLast(found),
         whole |-> large = {}, texts |-> inserts]
InsertsOf(rows) == [i \in 1..Len(rows) |-> InsertOf(rows[i])]
PlanCsv(written) == PlanInserts(InsertsOf(ParseCsv(CsvOf(written))))

(* run_verify_write_smoke: every statement is a write of its own. *)
PlanSmoke(statements) ==
    [batches |-> [i \in 1..Len(statements) |-> [of |-> <<i>>, bytes |-> Len(statements[i])]],
     whole |-> TRUE, texts |-> statements]

(* The batches of part p, with what they contain. *)
Label(found, p, texts) ==
    [b \in 1..Len(found) |->
        [of |-> Numbered(p, found[b].of, texts), bytes |-> found[b].bytes]]
Labelled(plan, p) ==
    [batches |-> Label(plan.batches, p, plan.texts), whole |-> plan.whole]

PlansOf(command, parts) ==
    [p \in 1..Len(parts) |->
        Labelled(CASE command = "csv" -> PlanCsv(parts[p])
                   [] command = "verify" -> PlanSmoke(parts[p])
                   [] OTHER -> PlanScript(parts[p]), p)]

-----------------------------------------------------------------------------
ScriptInit ==
    /\ Init
    /\ input \in Inputs
    /\ plans = PlansOf(input.command, input.parts)
    /\ part = 0
    /\ batches = << >>
    /\ planned = TRUE
    /\ at = 1
    /\ failed = FALSE
    /\ outcome = "running"

Running == outcome = "running"

(* cmd_check prints the plan and submits nothing. *)
Submits == input.command # "check"
BatchesLeft == Submits /\ at \in 1..Len(batches)

Plan ==
    /\ Running /\ ~BatchesLeft /\ planned /\ part < Len(input.parts)
    /\ batches' = batches \o plans[part + 1].batches
    /\ planned' = plans[part + 1].whole
    /\ 1..Len(batches') \subseteq Writers       \* bound: a writer for every batch
    /\ part' = part + 1
    /\ UNCHANGED <<given, at, failed, outcome, vars>>

(* A script that is not fit to run, or the row of a CSV file that is not. *)
Refuse ==
    /\ Running /\ ~BatchesLeft /\ ~planned
    /\ outcome' = "refused"
    /\ UNCHANGED <<given, part, batches, planned, at, failed, vars>>

(* ensure_exec_payload_size in submit_import_batch. *)
BatchFits == batches[at].bytes <= MaxText

RefuseBatch ==
    /\ Running /\ BatchesLeft /\ ~BatchFits
    /\ outcome' = "refused"
    /\ UNCHANGED <<given, part, batches, planned, at, failed, vars>>

(* The write of the batch: exec_sql_with_ou with or without wait. *)
ExecBatch ==
    /\ Running /\ BatchesLeft /\ BatchFits
    /\ CallStep(at)
    /\ result'[at] = "submitted" => NoWait
    /\ pc[at] = "prepared" /\ pc'[at] = "polling" => ~NoWait
    /\ UNCHANGED script

Succeeded(b) == result[b] \in {"ok", "submitted"}

(* Mutant: a batch is skipped. *)
NextBatchSkipping ==
    /\ Running /\ BatchesLeft
    /\ pc[at] = "done" /\ Succeeded(at)
    /\ at' = at + 2
    /\ UNCHANGED <<given, part, batches, planned, failed, outcome, vars>>

(* Mutant: the loop waits for a batch that has returned. *)
NextBatchStuck ==
    /\ Running /\ BatchesLeft
    /\ pc[at] = "done" /\ Succeeded(at)
    /\ at' = at
    /\ UNCHANGED <<given, part, batches, planned, failed, outcome, vars>>

(* auth_info fails after the first batch of a bootstrap: the command reports
   the batch as submitted and ends. *)
OwnerUnverified ==
    /\ input.command = "bootstrap" /\ at = 1
    /\ outcome' = "unverified" /\ UNCHANGED failed

(* The loop goes on; after its insert the write smoke reads the rows. *)
NextBatch ==
    /\ Running /\ BatchesLeft
    /\ pc[at] = "done" /\ Succeeded(at)
    /\ at' = at + 1
    /\ \/ UNCHANGED <<failed, outcome>>
       \/ OwnerUnverified
       \/ /\ Smoke /\ at = Insert
          /\ failed' = TRUE /\ UNCHANGED outcome
    /\ UNCHANGED <<given, part, batches, planned, vars>>

(* The write smoke cleans up after an insert that failed. *)
InsertFails ==
    /\ Running /\ BatchesLeft
    /\ Smoke /\ at = Insert
    /\ pc[at] = "done" /\ ~Succeeded(at)
    /\ at' = at + 1
    /\ failed' = TRUE
    /\ UNCHANGED <<given, part, batches, planned, outcome, vars>>

(* Mutant: the loop goes on after an error. *)
StopLater ==
    /\ Running /\ BatchesLeft
    /\ pc[at] = "done" /\ ~Succeeded(at)
    /\ at' = at + 1
    /\ UNCHANGED <<given, part, batches, planned, failed, outcome, vars>>

(* Mutant: the write smoke stops at its insert, too. *)
StopAtInsert ==
    /\ Running /\ BatchesLeft
    /\ pc[at] = "done" /\ ~Succeeded(at)
    /\ outcome' = "stopped"
    /\ UNCHANGED <<given, part, batches, planned, at, failed, vars>>

(* An error is returned with the batch and its range of statements. *)
Stop ==
    /\ Running /\ BatchesLeft
    /\ ~(Smoke /\ at = Insert)
    /\ pc[at] = "done" /\ ~Succeeded(at)
    /\ outcome' = "stopped"
    /\ UNCHANGED <<given, part, batches, planned, at, failed, vars>>

Complete ==
    /\ Running /\ ~BatchesLeft /\ planned /\ part = Len(input.parts)
    /\ outcome' = IF failed THEN "stopped" ELSE "complete"
    /\ UNCHANGED <<given, part, batches, planned, at, failed, vars>>

CommandStep == Plan \/ Refuse \/ RefuseBatch \/ ExecBatch \/ NextBatch
               \/ InsertFails \/ Stop \/ Complete

(* The other process does not wait: what it does after its submission
   changes nothing here, nor does anything it does while a script is only
   checked. *)
OthersStep ==
    /\ Submits
    /\ \/ CallStep(Other) /\ pc'[Other] # "polling"
       \/ \E w \in Writers : ChainStep(w)
    /\ UNCHANGED script

ScriptNext == CommandStep \/ OthersStep

(* The command runs and every request gets an answer or an error. *)
ScriptSpec == ScriptInit /\ [][ScriptNext]_allVars /\ WF_allVars(CommandStep)

-----------------------------------------------------------------------------
(* The commands that stop at the first error. *)
InOrder == ~NoWait /\ ~Smoke

WasAppliedBefore(a, b) ==
    \E i, j \in 1..Len(applied) : i < j /\ applied[i] = a /\ applied[j] = b

(* A command that waits leaves a prefix of its batches applied, in order,  *)
(* whatever happens to it, to its transactions and to other writes of the  *)
(* wallet: the batch it stands at is the only one in doubt.                *)
AppliedIsPrefix ==
    InOrder =>
        /\ \A b \in 1..Len(batches) :
              /\ b < at => WasApplied(b)
              /\ b > at => ~WasApplied(b)
        /\ \A a, b \in Writers \ {Other} : WasAppliedBefore(a, b) => a < b

StatementsApplied ==
    FlattenSeq([i \in 1..Len(applied) |->
        IF applied[i] = Other THEN << >> ELSE batches[applied[i]].of])

StatementsIn(found) == FlattenSeq([b \in 1..Len(found) |-> found[b].of])
StatementsPlanned == StatementsIn(batches)

(* What a script, a CSV file or the write smoke asks to be executed. *)
TextsOf(i, p) == IF i.command = "csv" THEN InsertsOf(i.parts[p]) ELSE i.parts[p]
AllOf(texts) == [k \in 1..Len(texts) |-> k]
GivenBy(i, p) ==
    Numbered(p, IF i.command \in {"csv", "verify"} THEN AllOf(TextsOf(i, p))
                ELSE Executable(TextsOf(i, p)), TextsOf(i, p))

GivenUpTo(i, n) == FlattenSeq([p \in 1..n |-> GivenBy(i, p)])
StatementsGiven == GivenUpTo(input, Len(input.parts))

(* Whoever splits the texts of a command finds the statements that they were
   written from. *)
ReadsBack(i) ==
    i.command \notin {"csv", "verify"} =>
        \A p \in 1..Len(i.parts) : SplitSql(TextOf(i.parts[p])) = i.parts[p]

(* Where split_sql_statements cuts a statement that is read by itself. *)
CutsIn(statement) ==
    {i \in AsSql(statement, TRUE) :
        statement[i] = ";" /\ ~IsOpenTrigger(Tokens(SubSeq(statement, 1, i)))}

(* A statement is complete if it is cut at its last character only; the last
   statement of a script may go without a semicolon. *)
IsComplete(statement) ==
    statement # << >> /\ statement[1] # "\n" /\ CutsIn(statement) = {Len(statement)}
IsUnended(statement) ==
    /\ statement # << >> /\ statement[1] # "\n" /\ Last(statement) # "\n"
    /\ CutsIn(statement) = {}

IsScript(statements) ==
    \A k \in 1..Len(statements) :
        IsComplete(statements[k]) \/ (k = Len(statements) /\ IsUnended(statements[k]))

AllComplete(i) ==
    i.command \notin {"csv", "verify"} => \A p \in 1..Len(i.parts) : IsScript(i.parts[p])

(* The table of the write smoke exists. *)
TableThere == WasApplied(Create) /\ ~WasAppliedBefore(Create, Cleanup)

(* Once the write smoke has created its table, it tries to drop it          *)
(* whatever becomes of the insert and the query, and when the cleanup is   *)
(* reported as done, the table is gone and no late or repeated             *)
(* transaction brings it back.                                             *)
SmokeCleansUp ==
    Smoke /\ outcome # "running" /\ result[Create] = "ok" =>
        /\ pc[Cleanup] = "done"
        /\ result[Cleanup] = "ok" => ~TableThere

(* The inductive invariant: the batches before the one it stands at have   *)
(* returned, those after it have not begun, and a batch is applied after   *)
(* those that had returned Ok.                                             *)
BatchBefore ==
    \A b \in Writers \ {Other} : b < at =>
        /\ pc[b] = "done"
        /\ InOrder => result[b] = "ok"
BatchAfter == \A b \in Writers \ {Other} : b > at => pc[b] = "start"
BatchWaits == \A b \in Writers \ {Other} : ~NoWait => result[b] # "submitted"
AppliedAfterOk ==
    \A a, b \in Writers \ {Other} :
        a < b /\ result[a] = "ok" /\ WasApplied(b) => WasAppliedBefore(a, b)

ScriptInv ==
    /\ WriteInv
    /\ at \in Nat \ {0} /\ 1..Len(batches) \subseteq Writers
    /\ BatchBefore /\ BatchAfter /\ BatchWaits
    /\ AppliedAfterOk

(* Splitting and batching lose, repeat, tear and reorder no statement,     *)
(* whatever quotes, comments and triggers it contains: those planned are   *)
(* those the scripts were written from.  Those applied are a prefix of     *)
(* them, and all of them when the command reports that it is complete.     *)
StatementsInOrder ==
    /\ planned /\ part = Len(input.parts) => StatementsPlanned = StatementsGiven
    /\ InOrder => IsPrefix(StatementsApplied, StatementsGiven)
    /\ InOrder /\ Submits /\ outcome = "complete" =>
           StatementsApplied = StatementsGiven

(* A script is refused for a statement in it and before any of it is      *)
(* signed: no batch turns out too large once a script is under way.  (The  *)
(* batches of a CSV file may.)                                             *)
RefusedForAStatement ==
    outcome = "refused" /\ input.command # "csv" =>
        /\ \E i \in 1..Len(input.parts[part]) : Refused(input.parts[part][i])
        /\ \A b \in 1..Len(batches) :
              batches[b].of[1].part = part => nonce[b] = 0

(* The inductive invariant behind these two: the batches hold what the     *)
(* scripts planned so far ask for; a script that is not planned to its end *)
(* has a statement that is refused; and what is applied is what the        *)
(* batches up to the one it stands at contain.                             *)
Item == [part : Nat, index : Nat, text : Texts]
Batch(T) == [of : T, bytes : Nat]

PlannedFromGiven ==
    /\ IsPrefix(StatementsPlanned, GivenUpTo(input, part))
    /\ planned => StatementsPlanned = GivenUpTo(input, part)
PlannedBatches ==
    /\ batches \in Seq(Batch(Seq(Item)))
    /\ \A b \in 1..Len(batches) :
          /\ batches[b].of # << >> /\ batches[b].of[1].part \in 1..part
          /\ input.command # "csv" => batches[b].bytes <= MaxText
          /\ input.command # "csv" /\ ~planned => batches[b].of[1].part # part
NotPlanned ==
    ~planned =>
        /\ part > 0
        /\ input.command # "csv" =>
               \E k \in 1..Len(input.parts[part]) : Refused(input.parts[part][k])
Ended ==
    /\ outcome = "refused" /\ input.command # "csv" => ~planned
    /\ outcome = "complete" => ~BatchesLeft /\ planned /\ part = Len(input.parts)
NotBegun == \A b \in Writers \ {Other} : b > Len(batches) => pc[b] = "start"
AppliedUpToHere ==
    InOrder => StatementsApplied =
                   StatementsIn(SubSeq(batches, 1, IF WasApplied(at) THEN at ELSE at - 1))

PlanInv ==
    /\ ScriptTypeOK
    /\ PlannedFromGiven /\ PlannedBatches /\ NotPlanned /\ Ended
    /\ NotBegun /\ AppliedUpToHere
TextsPlanned ==
    /\ input \in Inputs /\ plans = PlansOf(input.command, input.parts)
    /\ ReadsBack(input) => PlanInv

(* The one behind SmokeCleansUp: the write smoke is planned whole, and ends *)
(* after its first statement has failed or its last one has returned.      *)
SmokeEnds ==
    Smoke =>
        /\ planned /\ Len(batches) = 3 * part
        /\ outcome # "running" =>
              /\ part = 1
              /\ \/ pc[Create] = "done" /\ result[Create] # "ok"
                 \/ pc[Cleanup] = "done"

(* Every command ends, with success or with an error.                      *)
ScriptEnds == <>(outcome # "running")

=============================================================================
