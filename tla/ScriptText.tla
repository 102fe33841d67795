----------------------------- MODULE ScriptText -----------------------------
(***************************************************************************)
(* How the command line reads a script or a CSV file: it cuts a text into  *)
(* statements and tells what to make of each (split_sql_statements and     *)
(* what it calls), or into rows (parse_csv_records); portability.rs.       *)
(*                                                                         *)
(* A text is a sequence of words and marks, each of one byte.  Blanks are  *)
(* left out, except the end of a line, which ends a comment or a row.      *)
(* Words are in lower case.                                                *)
(***************************************************************************)
EXTENDS Integers, SequencesExt

Opening == {"'", "\"", "backtick", "["}
Closing(mode) == IF mode = "[" THEN "]" ELSE mode
Marks == Opening \cup {"]", "-", "/", "*", ";", "\n"}
IsWord(token) == token \notin Marks

Peek(text, i) == IF i < Len(text) THEN text[i + 1] ELSE "\n"

(* What a reader of the text does at i: its mode after that, and whether it
   takes the next character, too.  A closing mark that is doubled does not
   close.  The splitter steps over both characters that open a block comment;
   the scanner of tokens looks for the end from the second on. *)
Read(text, i, mode, splitting) ==
    LET char == text[i]
        step(next, two) == [mode |-> next, two |-> two]
    IN  CASE mode = "--" -> step(IF char = "\n" THEN "sql" ELSE "--", FALSE)
          [] mode = "/*" -> IF char = "*" /\ Peek(text, i) = "/" THEN step("sql", TRUE)
                                                                 ELSE step("/*", FALSE)
          [] mode \in Opening ->
                 IF char # Closing(mode) THEN step(mode, FALSE)
                 ELSE IF Peek(text, i) = char THEN step(mode, TRUE) ELSE step("sql", FALSE)
          [] mode = "sql" /\ char \in Opening -> step(char, FALSE)
          [] mode = "sql" /\ char = "-" /\ Peek(text, i) = "-" -> step("--", TRUE)
          [] mode = "sql" /\ char = "/" /\ Peek(text, i) = "*" -> step("/*", splitting)
          [] OTHER -> step("sql", FALSE)

(* How far a reader is before and after each character, and the positions
   that it reads as SQL, outside quotes and comments. *)
AtSql == [mode |-> "sql", two |-> FALSE]
SqlStep(text, i, read, splitting) ==
    IF read.two THEN [read EXCEPT !.two = FALSE] ELSE Read(text, i, read.mode, splitting)
SqlRead(text, splitting) ==
    LET read[i \in 0..Len(text)] ==
            IF i = 0 THEN AtSql ELSE SqlStep(text, i, read[i - 1], splitting)
    IN  read
AsSql(text, splitting) ==
    LET read == SqlRead(text, splitting) IN {i \in 1..Len(text) : read[i - 1] = AtSql}

(* scan_sql_tokens: the words and semicolons of a statement. *)
IsToken(token) == IsWord(token) \/ token = ";"
InOrderOf(positions, last) == SelectSeq([i \in 1..last |-> i], LAMBDA i : i \in positions)
CharsAt(text, positions) == [k \in 1..Len(positions) |-> text[positions[k]]]
Tokens(text) == CharsAt(text, InOrderOf({i \in AsSql(text, FALSE) : IsToken(text[i])}, Len(text)))

(* create_trigger_statement, of the tokens of a statement. *)
CreatesTrigger(tokens) ==
    LET third == Len(tokens) > 2 /\ tokens[2] \in {"temp", "temporary"}
    IN  /\ Len(tokens) > 1 /\ tokens[1] = "create"
        /\ tokens[IF third THEN 3 ELSE 2] = "trigger"

(* Mutant: a trigger ends where any part of it ends with "end". *)
TriggerEndsLoosely(tokens) ==
    Len(tokens) > 1 /\ tokens[Len(tokens)] = ";" /\ tokens[Len(tokens) - 1] = "end"

(* trigger_statement_complete_at_semicolon: nothing but "end" stands between
   the last two semicolons, or after the last one. *)
TriggerEnds(tokens) ==
    LET whole == IF tokens # << >> /\ Last(tokens) = ";" THEN Front(tokens) ELSE tokens
    IN  /\ whole # << >> /\ Last(whole) = "end"
        /\ Len(whole) > 1 => whole[Len(whole) - 1] = ";"

IsOpenTrigger(tokens) == CreatesTrigger(tokens) /\ ~TriggerEnds(tokens)

TrimmedTo(text, kept) == IF kept = {} THEN << >> ELSE SubSeq(text, Min(kept), Max(kept))
Trimmed(text) == TrimmedTo(text, {i \in 1..Len(text) : text[i] # "\n"})

(* What split_sql_statements does with the text since the last cut: at a
   semicolon that ends no part of a trigger, and at the end of the text, that is
   a statement. *)
SinceCut(text, cut, i) == Trimmed(SubSeq(text, cut.start, i))
CutAt(text, i, cut, isEnd) ==
    IF ~isEnd \/ IsOpenTrigger(Tokens(SinceCut(text, cut, i))) THEN cut
    ELSE [start |-> i + 1, found |-> Append(cut.found, SinceCut(text, cut, i))]
CutLast(text, cut) ==
    LET statement == SinceCut(text, cut, Len(text))
    IN  IF statement = << >> THEN cut.found ELSE Append(cut.found, statement)

(* split_sql_statements *)
SqlCuts(text) ==
    LET sql == AsSql(text, TRUE)
        cuts[i \in 0..Len(text)] ==
            IF i = 0 THEN [start |-> 1, found |-> << >>]
            ELSE CutAt(text, i, cuts[i - 1], i \in sql /\ text[i] = ";")
    IN  cuts
SplitSql(text) == CutLast(text, SqlCuts(text)[Len(text)])

-----------------------------------------------------------------------------
(* normalized_sql_statement: without the semicolons at the end. *)
Normalized(statement) ==
    LET kept == {i \in 1..Len(statement) : statement[i] \notin {";", "\n"}}
    IN  IF kept = {} THEN << >> ELSE SubSeq(statement, 1, Max(kept))

(* should_skip_import_wrapper *)
IsWrapper(statement) ==
    LET text == Normalized(statement)
    IN  \/ text \in {<<"begin", "transaction">>, <<"commit">>}
        \/ text # << >> /\ text[1] = "pragma foreign_keys"

(* ensure_supported_restore_statement *)
IsTransactionControl(statement) ==
    LET text == Normalized(statement)
    IN  /\ text # << >>
        /\ \/ text[1] \in {"rollback", "end", "savepoint", "release"}
           \/ text[1] = "commit" /\ text # <<"commit">>
           \/ text[1] = "begin" /\ text # <<"begin", "transaction">>

-----------------------------------------------------------------------------
(* Mutant: a quote that is doubled within quotes ends them. *)
ParseCsvPlainQuotes(text) ==
    LET advance(read, char) ==
            CASE char = "\"" -> [read EXCEPT !.quoted = ~@]
              [] char = "," /\ ~read.quoted ->
                     [read EXCEPT !.row = Append(@, read.field), !.field = << >>]
              [] char = "\n" /\ ~read.quoted ->
                     [read EXCEPT !.rows = Append(@, Append(read.row, read.field)),
                                  !.row = << >>, !.field = << >>]
              [] OTHER -> [read EXCEPT !.field = Append(@, char)]
    IN  FoldLeft(advance, [rows |-> << >>, row |-> << >>, field |-> << >>, quoted |-> FALSE],
                 text).rows

(* parse_csv_records: the rows, each a sequence of fields.  A quote opens only
   at the start of a field; within quotes a doubled one stands for itself, and
   is read at once (two). *)
CsvStart == [rows |-> << >>, row |-> << >>, field |-> << >>, quoted |-> FALSE, two |-> FALSE]
Put(read, char) == [read EXCEPT !.field = Append(read.field, char)]
EndField(read) == [read EXCEPT !.row = Append(read.row, read.field), !.field = << >>]
EndRow(read) == [read EXCEPT !.rows = Append(read.rows, Append(read.row, read.field)),
                             !.row = << >>, !.field = << >>]
CsvStep(text, i, read) ==
    CASE read.two -> [read EXCEPT !.two = FALSE]
      [] read.quoted /\ ~read.two /\ text[i] # "\"" -> Put(read, text[i])
      [] read.quoted /\ ~read.two /\ text[i] = "\"" ->
             IF Peek(text, i) = "\"" THEN [Put(read, "\"") EXCEPT !.two = TRUE]
             ELSE [read EXCEPT !.quoted = FALSE]
      [] OTHER ->
             IF text[i] = "\"" /\ read.field = << >> THEN [read EXCEPT !.quoted = TRUE]
             ELSE IF text[i] = "," THEN EndField(read)
             ELSE IF text[i] = "\n" THEN EndRow(read)
             ELSE Put(read, text[i])
CsvRead(text) ==
    LET read[i \in 0..Len(text)] ==
            IF i = 0 THEN CsvStart ELSE CsvStep(text, i, read[i - 1])
    IN  read
ParseCsv(text) ==
    LET last == CsvRead(text)[Len(text)]
    IN  IF last.field = << >> /\ last.row = << >> THEN last.rows ELSE EndRow(last).rows

(* The statement that import_csv_with_ou makes of a row: its values as
   sql_string_literal quotes them. *)
InsertOf(row) ==
    LET literal(field) ==
            <<"'">> \o FlattenSeq([c \in 1..Len(field) |->
                IF field[c] = "'" THEN <<"'", "'">> ELSE <<field[c]>>]) \o <<"'">>
    IN  <<"insert">> \o FlattenSeq([k \in 1..Len(row) |->
                           IF k = 1 THEN literal(row[k]) ELSE <<",">> \o literal(row[k])])
                     \o <<";">>
=============================================================================
