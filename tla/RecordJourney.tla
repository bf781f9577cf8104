---------------------------- MODULE RecordJourney ----------------------------
(***************************************************************************)
(* A CSV file before the data contract, and one record on its way through  *)
(* the pipeline: validate_data_contract.py reads the file row by row; then *)
(* one of its rows, whatever the contract said of the file, or a message   *)
(* somebody else published to the raw topic, goes through the producer,    *)
(* the stream consumer, the loader and the anomaly rules (RecordRules).    *)
(*                                                                         *)
(* The rows of the file are chosen as they are read.  Message delivery is  *)
(* not the subject here: StreamConsumer and WarehouseLoader model it.      *)
(***************************************************************************)
EXTENDS RecordRules

CONSTANTS CsvRow,     \* bound: the rows a file may hold, [Column -> values]
          Payload,    \* bound: the objects others may publish, [Field -> values]
          MaxErrors,  \* bound: the greatest --max-errors
          MaxRows     \* bound: rows of the file

ASSUME JourneyAssumption ==
    /\ MaxErrors \in Nat /\ MaxRows \in Nat
    /\ \A r \in CsvRow : DOMAIN r = Column /\ \A c \in Column : IsCell(r[c])
    /\ \A p \in Payload : DOMAIN p = Field /\ \A f \in Field : IsValue(p[f])

VARIABLES
    maxErrors,  \* --max-errors
    pc,         \* the validator's program point
    summary,    \* ValidationSummary
    exit,       \* the validator's exit code
    found,      \* history: rows with errors in them, and errors, in the rows read
    row,        \* one of the rows read, NoRow before it is chosen
    message,    \* the message in Kafka: its body, and the payload of an object
    at          \* where the record is

validator == <<maxErrors, pc, summary, exit, found, row>>
vars == <<validator, message, at>>

NoRow     == [c \in Column |-> Absent]
NoPayload == [f \in Field |-> Absent]

\* The text of a message: a JSON object, another JSON value, no JSON, blank
\* text, or no JSON and a NUL character in it.
Body == {"object", "array", "garbled", "blank", "nul"}

Place == {"file", "skipped", "raw", "crashed", "processed", "invalid",
          "dropped", "refused", "stored", "recorded"}

Summary == [checked : 0..MaxRows, valid : 0..MaxRows, invalid : 0..MaxRows,
            errors : 0..MaxErrors, stopped : BOOLEAN]

\* Every variable has its type: validate_data_contract.py's summary and the
\* places a record can be in.
TypeOK ==
    /\ maxErrors \in 0..MaxErrors
    /\ pc \in {"paths", "header", "rows", "report", "done"}
    /\ summary \in Summary
    /\ exit \in {"none", "zero", "one", "two"}
    /\ found \in [rows : 0..MaxRows, errors : Nat]
    /\ DOMAIN row = Column
    /\ at \in Place
    /\ message.body \in Body \cup {"none"}
    /\ DOMAIN message.payload = Field

-----------------------------------------------------------------------------
(***************************************************************************)
(* validate_data_contract.py.                                              *)
(***************************************************************************)

Init ==
    /\ maxErrors \in 0..MaxErrors
    /\ pc = "paths"
    /\ summary = [checked |-> 0, valid |-> 0, invalid |-> 0, errors |-> 0,
                  stopped |-> FALSE]
    /\ exit = "none"
    /\ found = [rows |-> 0, errors |-> 0]
    /\ row = NoRow
    /\ message = [body |-> "none", payload |-> NoPayload]
    /\ at = "file"

Exit(code) == exit' = code /\ pc' = "done"

\* Faulty variant: a limit of zero is let through.
PathsValid_Always == TRUE

\* --max-errors must be positive.  A file that is missing or a contract that
\* cannot be read is the second disjunct of Prepare.
PathsValid == maxErrors > 0

\* validate_paths, load_contract, and opening the CSV file.
Prepare ==
    /\ pc = "paths" /\ at = "file"
    /\ \/ PathsValid /\ pc' = "header" /\ UNCHANGED exit
       \/ Exit("two")
    /\ UNCHANGED <<maxErrors, summary, found, row, message, at>>

\* Faulty variant: the limit is looked at once per row.
AppendErrors_PerRow(s, n) ==
    [s EXCEPT !.errors = @ + n, !.stopped = s.errors + n >= maxErrors]

\* append_errors with n errors: those below the limit are recorded, and the
\* first one beyond it stops the validation.
AppendErrors(s, n) ==
    IF s.errors + n <= maxErrors THEN [s EXCEPT !.errors = @ + n]
    ELSE [s EXCEPT !.errors = maxErrors, !.stopped = TRUE]

\* The header row is missing, lacks required columns, which is one error and
\* ends the validation, or is complete.
ReadHeader ==
    /\ pc = "header"
    /\ \/ Exit("two") /\ UNCHANGED <<summary, found>>
       \/ /\ summary' = AppendErrors(summary, 1)
          /\ found' = [found EXCEPT !.errors = 1]
          /\ pc' = "report" /\ UNCHANGED exit
       \/ pc' = "rows" /\ UNCHANGED <<summary, found, exit>>
    /\ UNCHANGED <<maxErrors, row, message, at>>

\* The loop's body for the next row of the file.
ReadRow ==
    /\ pc = "rows" /\ summary.checked < MaxRows
    /\ \E r \in CsvRow :
        LET n == Cardinality(RowErrors(r))
            s == [summary EXCEPT !.checked = @ + 1]
        IN  /\ row' \in {row, r}
            /\ IF n > 0
               THEN /\ summary' = AppendErrors([s EXCEPT !.invalid = @ + 1], n)
                    /\ found' = [rows |-> found.rows + 1, errors |-> found.errors + n]
               ELSE /\ summary' = [s EXCEPT !.valid = @ + 1]
                    /\ UNCHANGED found
    /\ pc' = IF summary'.stopped THEN "report" ELSE "rows"
    /\ UNCHANGED <<maxErrors, exit, message, at>>

\* The file is read to its end.
EndOfFile ==
    /\ pc = "rows" /\ pc' = "report"
    /\ UNCHANGED <<maxErrors, summary, exit, found, row, message, at>>

Passed == summary.errors = 0

\* The end of main: the JSON report, which may fail, and the exit code.
Report ==
    /\ pc = "report"
    /\ \/ Exit(IF Passed THEN "zero" ELSE "one")
       \/ Exit("two")
    /\ UNCHANGED <<maxErrors, summary, found, row, message, at>>

-----------------------------------------------------------------------------
(***************************************************************************)
(* The record's journey.                                                   *)
(***************************************************************************)

Move(from, to) == at = from /\ at' = to /\ UNCHANGED <<validator, message>>

\* The producer reads the row.  The E2E script starts it without asking the
\* contract.
Produce ==
    /\ pc = "done" /\ row # NoRow /\ at = "file"
    /\ IF Skipped(row)
       THEN at' = "skipped" /\ UNCHANGED message
       ELSE at' = "raw" /\ message' = [body |-> "object", payload |-> ToJSON(row)]
    /\ UNCHANGED validator

\* Somebody else publishes to the raw topic.  The file is left out of such a
\* behaviour: its records are other records.
PublishForeign ==
    /\ pc = "paths" /\ at = "file" /\ at' = "raw"
    /\ \/ \E b \in Body \ {"object"} : message' = [body |-> b, payload |-> NoPayload]
       \/ \E p \in Payload : message' = [body |-> "object", payload |-> p]
    /\ UNCHANGED validator

Accepted == message.body = "object" /\ Valid(message.payload)

\* The stream consumer validates the message: it may crash on it.
Consume ==
    /\ at = "raw"
    /\ at' = IF message.body = "object" /\ Overflows(message.payload) THEN "crashed"
             ELSE IF Accepted THEN "processed" ELSE "invalid"
    /\ message' = IF at' = "processed"
                  THEN [message EXCEPT !.payload = Normalized(@)] ELSE message
    /\ UNCHANGED validator

\* The loader maps and inserts the processed record.
Load ==
    \/ Mappable(message.payload) /\ Storable(message.payload) /\ Move("processed", "stored")
    \/ Mappable(message.payload) /\ ~Storable(message.payload) /\ Move("processed", "refused")
    \/ ~Mappable(message.payload) /\ Move("processed", "dropped")

\* Faulty variant: only an object's text is put into the invalid record.
Recordable_ObjectsOnly == message.body = "object"

\* map_invalid_message raises nothing and PostgreSQL takes the raw text.  The
\* NUL of a JSON text is an escape sequence, and the text has no NUL.
Recordable == message.body \notin {"blank", "nul"}

\* The loader maps and inserts the invalid record.
LoadInvalid ==
    \/ Recordable /\ Move("invalid", "recorded")
    \/ message.body = "nul" /\ Move("invalid", "refused")
    \/ ~Recordable /\ message.body # "nul" /\ Move("invalid", "dropped")

Validate == Prepare \/ ReadHeader \/ ReadRow \/ EndOfFile \/ Report

Travel == Produce \/ PublishForeign \/ Consume \/ Load \/ LoadInvalid

\* The record is where it stays, or no row of the file was chosen.
Arrived == /\ at \notin {"raw", "processed", "invalid"}
           /\ \/ pc = "done" /\ (at = "file" => row = NoRow)
              \/ pc = "paths" /\ at # "file"
           /\ UNCHANGED vars

Next == Validate \/ Travel \/ Arrived

Spec == Init /\ [][Next]_vars

-----------------------------------------------------------------------------
(***************************************************************************)
(* Properties.                                                             *)
(***************************************************************************)

\* Exit code zero of validate_data_contract.py means that the header was
\* complete and that every row up to the end of the file conforms, whatever
\* --max-errors is and wherever the validation stops.
ExitZeroConforms ==
    exit = "zero" => found.errors = 0 /\ summary.valid = summary.checked

\* append_errors: the summary counts exactly the errors there are up to the
\* limit, says that it stopped early exactly when there are more, and gives
\* every row it looked at as valid or as invalid.
SummaryExact ==
    /\ summary.errors = IF found.errors <= maxErrors THEN found.errors ELSE maxErrors
    /\ summary.stopped <=> found.errors > maxErrors
    /\ summary.invalid = found.rows
    /\ summary.valid + summary.invalid = summary.checked

\* All that may go wrong with a row of a file the contract passed.  The
\* producer leaves it out only for a quotation mark, for a number that only
\* Python reads, or because it is one cell short, where attack_type, which may
\* be empty, is the last column; the consumer crashes on it only for a
\* timestamp without a UTC equivalent, and rejects it only for its timestamp,
\* protocol or event type; the loader loses it only for a number wider than
\* the column or a NUL.
ContractGaps ==
    (exit = "zero" /\ row # NoRow) =>
        CASE at = "skipped" ->
                \/ \E c \in Column : row[c] = BareQuote
                \/ row["attack_type"] = Absent
                \/ \E c \in IntegerColumn : \/ row[c].form = "underscored"
                                            \/ row[c].n > GoIntMax
          [] at = "crashed" -> row["event_timestamp"] = Time(TRUE)
          [] at \in {"invalid", "recorded"} ->
                /\ MissingFields(message.payload) = {}
                /\ InvalidFields(message.payload)
                       \subseteq {"event_timestamp", "protocol", "event_type"}
          [] at = "dropped" -> FALSE
          [] at = "refused" ->
                \/ \E c \in IntegerColumn : row[c].n > IntegerMax
                \/ \E c \in TextColumn : row[c] = NulText
          [] OTHER -> TRUE

\* A message the consumer passed on as processed becomes a row of the
\* warehouse.  The loader drops it, and exits with one, only for its
\* ingestion_timestamp, which the consumer does not look at; PostgreSQL
\* refuses it only for a wide number, a NUL, or a number JSON has not.
ValidStored ==
    /\ at = "dropped" /\ Accepted =>
           message.payload["ingestion_timestamp"] \notin {Absent, Null, Blank, Time(FALSE)}
    /\ at = "refused" /\ Accepted =>
           \/ \E c \in IntegerColumn : message.payload[c].n > IntegerMax
           \/ \E f \in TextColumn : message.payload[f] \in {NulText, NaN, Infinity}

\* A message the consumer rejects becomes a row of invalid_iot_logs, unless
\* its text is blank, for which map_invalid_message raises, or has a NUL
\* character.
RejectedKept ==
    at \in {"dropped", "refused"} /\ ~Accepted => message.body \in {"blank", "nul"}

\* run_anomaly_detection.py's rule for protocols outside the expected set
\* fires for no row that came through the consumer: the two lists are the
\* same.  Such traffic, which the contract allows, is never graded.
UnexpectedProtocolUnreachable ==
    at = "stored" =>
        [rule |-> "unusual_protocol", severity |-> "high"] \notin Anomalies(message.payload)
=============================================================================
