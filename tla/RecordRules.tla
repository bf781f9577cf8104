----------------------------- MODULE RecordRules -----------------------------
(***************************************************************************)
(* What each part of the pipeline makes of one record, from a row of the   *)
(* CSV file to the anomalies found in the warehouse: the data contract     *)
(* (scripts/validate_data_contract.py), the producer's reader              *)
(* (go-producer/reader.go), the stream consumer's validator                *)
(* (python-consumer/validator.py), the loader's mapper and the columns it  *)
(* fills (warehouse-loader/mapper.py), and the anomaly rules               *)
(* (scripts/run_anomaly_detection.py).  Each was written on its own; the   *)
(* rules differ, and what they make of a record together is nowhere        *)
(* written down.                                                           *)
(*                                                                         *)
(* A text is its word, without surrounding blanks and in lower case:       *)
(* every comparison the code makes is made on that.                        *)
(***************************************************************************)
EXTENDS Integers, FiniteSets

CONSTANTS IntegerMax,  \* the largest value of an INTEGER column, 2^31 - 1
          GoIntMax     \* the largest int of the Go producer, 2^63 - 1

ASSUME WidthAssumption == /\ IntegerMax \in Nat /\ GoIntMax \in Nat
                          /\ IntegerMax < GoIntMax

TextColumn    == {"device_id", "source_ip", "destination_ip", "protocol",
                  "event_type", "attack_type", "status"}
IntegerColumn == {"packet_size", "duration_ms"}
Column        == TextColumn \cup IntegerColumn \cup {"event_timestamp"}
Field         == Column \cup {"ingestion_timestamp"}

-----------------------------------------------------------------------------
(***************************************************************************)
(* Values: what a CSV cell or a JSON field may hold.                       *)
(***************************************************************************)

Absent   == [type |-> "absent"]    \* no such cell, no such key
Null     == [type |-> "null"]
Bool     == [type |-> "bool"]
Infinity == [type |-> "infinity"]  \* JSON numbers that Python reads as floats
NaN      == [type |-> "nan"]
Text(w)  == [type |-> "text", word |-> w]
Blank    == Text("")
NulText  == Text("a NUL b")        \* a text with a NUL character in it
BareQuote == Text("a quote b")     \* a quotation mark inside an unquoted cell
Whole(n)  == [type |-> "int", n |-> n]
Tenths(n) == [type |-> "tenths", n |-> n]  \* a JSON number with a fraction

\* A cell with a number in it: "5", "5_0" (only Python reads it), "5.0".
Form == {"plain", "underscored", "decimal"}
Numeral(n, form) == [type |-> "numeral", n |-> n, form |-> form]

\* A timestamp that fromisoformat reads; one at the dawn of year 1, east of
\* Greenwich, has no UTC equivalent and astimezone raises OverflowError.
Time(dawn) == [type |-> "time", dawn |-> dawn]

\* What a cell of the file may hold, and what a field of a message.
IsCell(v)  == \/ v = Absent \/ v.type = "text"
              \/ v.type = "numeral" /\ v.n \in Int /\ v.form \in Form
              \/ v \in {Time(TRUE), Time(FALSE)}
IsValue(v) == \/ IsCell(v) \/ v \in {Null, Bool, Infinity, NaN}
              \/ v.type \in {"int", "tenths"} /\ v.n \in Int

\* str(value).strip(), whose word is never blank for a value of another type.
AsText(v) == IF v.type = "text" THEN v ELSE Text(v.type)
Word(v)   == AsText(v).word

\* int(value) of a text: Python takes underscores, and no fraction.
IntFromText(v) == v.type = "numeral" /\ v.form # "decimal"

-----------------------------------------------------------------------------
(***************************************************************************)
(* The data contract.                                                      *)
(***************************************************************************)

\* Faulty variant: no column is required.
NullableColumn_All == Column

NullableColumn == {"attack_type"}
AllowedValues  == [protocol |-> {"tcp", "udp", "icmp", "http", "https", "mqtt", "arp"},
                   status   |-> {"success", "failed", "blocked", "allowed", "warning"}]
ContractRule   == {"required", "integer", "min", "allowed_values"}

IsEmpty(v) == v \in {Absent, Blank}

\* The row breaks a rule of its column c.  min_length, always one, finds
\* nothing in a cell that is not empty.
Breaks(row, c, rule) ==
    \/ rule = "required" /\ IsEmpty(row[c]) /\ c \notin NullableColumn
    \/ rule = "integer" /\ c \in IntegerColumn /\ ~IsEmpty(row[c]) /\ ~IntFromText(row[c])
    \/ rule = "min" /\ c \in IntegerColumn /\ IntFromText(row[c]) /\ row[c].n < 0
    \/ /\ rule = "allowed_values" /\ c \in DOMAIN AllowedValues /\ ~IsEmpty(row[c])
       /\ Word(row[c]) \notin AllowedValues[c]

\* The errors validate_row appends for a row.
RowErrors(row) == {e \in Column \X ContractRule : Breaks(row, e[1], e[2])}

-----------------------------------------------------------------------------
(***************************************************************************)
(* The producer's reader.                                                  *)
(***************************************************************************)

\* strconv.Atoi
Atoi(v) == v.type = "numeral" /\ v.form = "plain" /\ v.n >= -GoIntMax - 1 /\ v.n <= GoIntMax

\* The reader leaves the row out: the CSV reader refuses it, it is short, or a
\* number is none to Go.
Skipped(row) == \/ \E c \in Column : row[c] \in {Absent, BareQuote}
                \/ \E c \in IntegerColumn : ~Atoi(row[c])

\* The JSON message of a row.
ToJSON(row) ==
    [f \in Field |-> IF f \in IntegerColumn THEN Whole(row[f].n)
                     ELSE IF f \in Column THEN row[f] ELSE Time(FALSE)]

-----------------------------------------------------------------------------
(***************************************************************************)
(* The stream consumer's validator.                                        *)
(***************************************************************************)

RequiredField == Column \ {"attack_type"}

\* Faulty variant: the data contract's protocols.
AllowedProtocols_Contract == AllowedValues.protocol

AllowedProtocols  == {"tcp", "udp", "icmp"}
AllowedEventTypes == {"normal", "warning", "error", "attack"}

MissingFields(p) == {f \in RequiredField : p[f] \in {Absent, Blank}}

\* int(value) of a JSON value, which drops a fraction.
IntReads(v) == v.type \in {"int", "tenths"} \/ IntFromText(v)
AsInt(v) == IF v.type # "tenths" THEN v.n
            ELSE IF v.n >= 0 THEN v.n \div 10 ELSE -((-v.n) \div 10)

\* The fields of which validate_message says that they are invalid.
InvalidFields(p) ==
    {f \in Field :
        \/ f = "event_timestamp" /\ p[f].type # "time"
        \/ f = "protocol" /\ Word(p[f]) \notin AllowedProtocols
        \/ f = "event_type" /\ Word(p[f]) \notin AllowedEventTypes
        \/ f \in IntegerColumn /\ ~(IntReads(p[f]) /\ AsInt(p[f]) >= 0)}

\* validate_message itself raises: OverflowError is no ValueError.
Overflows(p) == /\ MissingFields(p) = {}
                /\ \/ p["event_timestamp"] = Time(TRUE)
                   \/ \E c \in IntegerColumn : p[c] = Infinity

Valid(p) == MissingFields(p) = {} /\ InvalidFields(p) = {}

\* The record a valid message becomes.
Normalized(p) ==
    [f \in Field |-> CASE f \in TextColumn \ {"attack_type"} -> AsText(p[f])
                       [] f \in IntegerColumn -> Whole(AsInt(p[f]))
                       [] OTHER -> p[f]]

-----------------------------------------------------------------------------
(***************************************************************************)
(* The loader's mapper and the table's columns.                            *)
(***************************************************************************)

\* Faulty variant: ingestion_timestamp is taken for checked.
Mappable_TimestampTrusted(r) ==
    /\ \A f \in TextColumn \ {"attack_type"} : r[f] \notin {Absent, Null, Blank}
    /\ \A f \in IntegerColumn : IntReads(r[f])
    /\ r["event_timestamp"] = Time(FALSE)

\* map_processed_message raises nothing.
Mappable(r) ==
    /\ \A f \in TextColumn \ {"attack_type"} : r[f] \notin {Absent, Null, Blank}
    /\ \A f \in IntegerColumn : IntReads(r[f])
    /\ r["event_timestamp"] = Time(FALSE)
    /\ r["ingestion_timestamp"] \in {Absent, Null, Blank, Time(FALSE)}

\* PostgreSQL takes the row: its integers fit, no text holds a NUL, and the
\* JSON document no number that JSON has not.
Storable(r) ==
    /\ \A f \in IntegerColumn : AsInt(r[f]) <= IntegerMax
    /\ \A f \in Field : r[f] \notin {NulText, NaN, Infinity}

-----------------------------------------------------------------------------
(***************************************************************************)
(* Anomaly detection.                                                      *)
(***************************************************************************)

ExpectedProtocols    == {"tcp", "udp", "icmp"}
BenignAttackTypes    == {"", "benign", "none", "normal", "unknown", "n/a", "na"}
HighRiskAttackTypes  == {"arp_poisoning", "arp_poisioning", "botnet", "brute_force", "ddos",
                         "dos", "malware", "mitm", "port_scan", "ransomware", "sql_injection"}

Anomaly(rule, severities) == {[rule |-> rule, severity |-> s] : s \in severities}

\* if n >= high ... elif n >= medium ...
Graded(n, high, medium) ==
    IF n >= high THEN {"high"} ELSE IF n >= medium THEN {"medium"} ELSE {}

StatusSeverity(w) ==
    IF w \in {"blocked", "denied", "dropped"} THEN {"high"}
    ELSE IF w \in {"failed", "error"} THEN {"medium"} ELSE {}

AttackSeverity(w) ==
    IF w \in BenignAttackTypes THEN {}
    ELSE IF w \in HighRiskAttackTypes THEN {"high"} ELSE {"medium"}

ProtocolSeverity(w) ==
    IF w \notin ExpectedProtocols THEN {"high"}
    ELSE IF w = "icmp" THEN {"low"} ELSE {}

\* The attack_type column: a text, or NULL, which the query reads as empty.
AttackType(v) == IF v \in {Absent, Null} THEN "" ELSE Word(v)

\* detect_row_anomalies on the row stored for r.
Anomalies(r) ==
    Anomaly("high_packet_size", Graded(AsInt(r["packet_size"]), 1500, 1000))
    \cup Anomaly("high_duration", Graded(AsInt(r["duration_ms"]), 15000, 5000))
    \cup Anomaly("failed_or_blocked_status", StatusSeverity(Word(r["status"])))
    \cup Anomaly("suspicious_attack_type", AttackSeverity(AttackType(r["attack_type"])))
    \cup Anomaly("unusual_protocol", ProtocolSeverity(Word(r["protocol"])))
=============================================================================
