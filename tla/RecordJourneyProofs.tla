-------------------------- MODULE RecordJourneyProofs --------------------------
(***************************************************************************)
(* Proofs about a record's journey, for every file, every object published *)
(* by others, every limit of errors and every width of the integers.       *)
(*                                                                         *)
(* First what the parts' rules say about one another, one lemma per pair;  *)
(* then the data contract's validator (SummaryInv), the record that came   *)
(* through the consumer (JourneyInv), and the row of a conforming file     *)
(* (ConformingInv).                                                        *)
(***************************************************************************)
EXTENDS RecordJourney, FiniteSetTheorems, TLAPS

-----------------------------------------------------------------------------
(***************************************************************************)
(* The rules.                                                              *)
(***************************************************************************)

\* Sets of at most seven elements are finite, and so are a row's errors.
LEMMA Few ==
  ASSUME NEW a, NEW b, NEW c, NEW d, NEW e, NEW f, NEW g
  PROVE  IsFiniteSet({a, b, c, d, e, f, g})
<1>1. IsFiniteSet({a} \cup {b})
  BY FS_Singleton, FS_AddElement
<1>2. IsFiniteSet({a} \cup {b} \cup {c})
  BY <1>1, FS_AddElement
<1>3. IsFiniteSet({a} \cup {b} \cup {c} \cup {d})
  BY <1>2, FS_AddElement
<1>4. IsFiniteSet({a} \cup {b} \cup {c} \cup {d} \cup {e})
  BY <1>3, FS_AddElement
<1>5. IsFiniteSet({a} \cup {b} \cup {c} \cup {d} \cup {e} \cup {f})
  BY <1>4, FS_AddElement
<1>6. IsFiniteSet({a} \cup {b} \cup {c} \cup {d} \cup {e} \cup {f} \cup {g})
  BY <1>5, FS_AddElement
<1>7. {a, b, c, d, e, f, g} = {a} \cup {b} \cup {c} \cup {d} \cup {e} \cup {f} \cup {g}
  OBVIOUS
<1> QED
  BY <1>6, <1>7

\* The errors of a row are finitely many, and none exactly when it conforms.
LEMMA ErrorsCounted ==
  ASSUME NEW r
  PROVE  /\ Cardinality(RowErrors(r)) \in Nat
         /\ Cardinality(RowErrors(r)) > 0 <=> RowErrors(r) # {}
<1>1. IsFiniteSet(TextColumn)
  BY Few DEF TextColumn
<1>2. IsFiniteSet(IntegerColumn)
  <2>1. IntegerColumn = {"packet_size", "duration_ms", "packet_size", "packet_size",
                         "packet_size", "packet_size", "packet_size"}
    BY DEF IntegerColumn
  <2> QED
    BY <2>1, Few
<1>3. IsFiniteSet(Column)
  <2>1. IsFiniteSet(TextColumn \cup IntegerColumn)
    BY <1>1, <1>2, FS_Union
  <2>2. IsFiniteSet(TextColumn \cup IntegerColumn \cup {"event_timestamp"})
    BY <2>1, FS_AddElement
  <2> QED
    BY <2>2 DEF Column
<1>4. IsFiniteSet(ContractRule)
  <2>1. ContractRule = {"required", "integer", "min", "allowed_values",
                        "required", "required", "required"}
    BY DEF ContractRule
  <2> QED
    BY <2>1, Few
<1>5. IsFiniteSet(Column \X ContractRule)
  BY <1>3, <1>4, FS_Product
<1>6. RowErrors(r) \in SUBSET (Column \X ContractRule)
  BY DEF RowErrors
<1>7. IsFiniteSet(RowErrors(r))
  BY <1>5, <1>6, FS_Subset
<1> QED
  BY <1>7, FS_CardinalityType, FS_EmptySet

\* What the columns are called.
LEMMA Columns ==
  /\ "event_timestamp" \in Column /\ "event_timestamp" \in RequiredField
  /\ "protocol" \in TextColumn /\ "attack_type" \in TextColumn
  /\ TextColumn \subseteq Column /\ IntegerColumn \subseteq Column
  /\ Column \subseteq Field /\ RequiredField \subseteq Column
  /\ Field = Column \cup {"ingestion_timestamp"}
  /\ "ingestion_timestamp" \notin Column
  /\ Column = TextColumn \cup IntegerColumn \cup {"event_timestamp"}
  /\ RequiredField = (TextColumn \ {"attack_type"}) \cup IntegerColumn \cup {"event_timestamp"}
  /\ IntegerColumn \cap TextColumn = {}
  /\ "event_timestamp" \notin TextColumn \cup IntegerColumn
BY DEF TextColumn, IntegerColumn, Column, Field, RequiredField

\* The types of the values.
LEMMA Types ==
  /\ Absent.type = "absent" /\ Null.type = "null" /\ Bool.type = "bool"
  /\ Infinity.type = "infinity" /\ NaN.type = "nan"
  /\ Blank.type = "text" /\ NulText.type = "text"
  /\ \A w : Text(w).type = "text" /\ Text(w).word = w
  /\ \A n : Whole(n).type = "int" /\ Whole(n).n = n
  /\ Time(TRUE).type = "time" /\ Time(FALSE).type = "time" /\ Time(TRUE) # Time(FALSE)
<1>1. Time(TRUE).dawn # Time(FALSE).dawn
  BY DEF Time
<1> QED
  BY <1>1 DEF Absent, Null, Bool, Infinity, NaN, Blank, NulText, Text, Whole, Time

\* A blank text has no NUL in it.
LEMMA BlankIsNoNul == Blank # NulText
<1>1. Blank.word # NulText.word
  BY DEF Blank, NulText, Text
<1> QED
  BY <1>1

\* Reading a value as a text twice is reading it once; the text of what a
\* message holds is never blank, unless the value is.
LEMMA TextOfText ==
  ASSUME NEW v, IsValue(v)
  PROVE  /\ AsText(v).type = "text"
         /\ AsText(AsText(v)) = AsText(v) /\ Word(AsText(v)) = Word(v)
         /\ v # Blank => AsText(v) # Blank
         /\ AsText(v) = NulText => v = NulText
<1> USE DEF AsText, Word, Text, Blank, NulText
<1>1. AsText(v).type = "text"
  OBVIOUS
<1>2. v.type = "text" \/ v.type \in {"absent", "numeral", "time", "null", "bool",
                                     "infinity", "nan", "int", "tenths"}
  BY DEF IsValue, IsCell, Absent, Time, Null, Bool, Infinity, NaN
<1>3. CASE v.type = "text"
  BY <1>1, <1>3
<1>4. CASE v.type # "text"
  <2>1. AsText(v) = Text(v.type) /\ Text(v.type).word = v.type
    BY <1>4
  <2>2. Blank.word = "" /\ NulText.word = "a NUL b"
    OBVIOUS
  <2>3. v.type # "" /\ v.type # "a NUL b"
    BY <1>2, <1>4
  <2> QED
    BY <1>1, <2>1, <2>2, <2>3
<1> QED
  BY <1>3, <1>4

\* What the consumer makes of a message it accepts, field by field.
LEMMA NormalizedFields ==
  ASSUME NEW p, \A f \in Field : IsValue(p[f]), Valid(p)
  PROVE  /\ \A f \in TextColumn \ {"attack_type"} :
                /\ Normalized(p)[f] = AsText(p[f])
                /\ Normalized(p)[f].type = "text" /\ Normalized(p)[f] # Blank
         /\ \A f \in IntegerColumn :
                /\ Normalized(p)[f] = Whole(AsInt(p[f]))
                /\ IntReads(Normalized(p)[f])
                /\ AsInt(Normalized(p)[f]) = AsInt(p[f]) /\ AsInt(p[f]) >= 0
         /\ \A f \in {"attack_type", "event_timestamp", "ingestion_timestamp"} :
                Normalized(p)[f] = p[f]
         /\ p["event_timestamp"] \in {Time(TRUE), Time(FALSE)}
         /\ Normalized(p)["event_timestamp"].type = "time"
<1>1. ASSUME NEW f \in TextColumn \ {"attack_type"}
      PROVE  /\ Normalized(p)[f] = AsText(p[f])
             /\ Normalized(p)[f].type = "text" /\ Normalized(p)[f] # Blank
  <2>1. f \in Field /\ f \in RequiredField /\ f \notin IntegerColumn
    BY <1>1, Columns
  <2>2. Normalized(p)[f] = AsText(p[f])
    BY <1>1, <2>1 DEF Normalized
  <2>3. p[f] # Blank
    BY <2>1 DEF Valid, MissingFields
  <2> QED
    BY <2>1, <2>2, <2>3, TextOfText
<1>2. ASSUME NEW f \in IntegerColumn
      PROVE  /\ Normalized(p)[f] = Whole(AsInt(p[f]))
             /\ IntReads(Normalized(p)[f])
             /\ AsInt(Normalized(p)[f]) = AsInt(p[f]) /\ AsInt(p[f]) >= 0
  <2>1. f \in Field /\ f \notin TextColumn
    BY <1>2, Columns
  <2>2. Normalized(p)[f] = Whole(AsInt(p[f]))
    BY <1>2, <2>1 DEF Normalized
  <2>3. AsInt(p[f]) >= 0
    BY <1>2, <2>1 DEF Valid, InvalidFields
  <2>4. Whole(AsInt(p[f])).type = "int" /\ Whole(AsInt(p[f])).n = AsInt(p[f])
    BY DEF Whole
  <2> QED
    BY <2>2, <2>3, <2>4 DEF IntReads, AsInt
<1>3. ASSUME NEW f \in {"attack_type", "event_timestamp", "ingestion_timestamp"}
      PROVE  Normalized(p)[f] = p[f]
  <2>1. f \in Field /\ f \notin TextColumn \ {"attack_type"} /\ f \notin IntegerColumn
    BY <1>3, Columns
  <2> QED
    BY <2>1 DEF Normalized
<1>4. p["event_timestamp"] \in {Time(TRUE), Time(FALSE)}
  <2>1. p["event_timestamp"].type = "time" /\ IsValue(p["event_timestamp"])
    BY Columns DEF Valid, InvalidFields
  <2> QED
    BY <2>1, Types DEF IsValue, IsCell
<1>5. p["event_timestamp"].type = "time"
  BY Columns DEF Valid, InvalidFields
<1> QED
  BY <1>1, <1>2, <1>3, <1>4, <1>5

\* The consumer accepts what it made of a message it accepted.
LEMMA ValidAgain ==
  ASSUME NEW p, \A f \in Field : IsValue(p[f]), Valid(p)
  PROVE  Valid(Normalized(p))
<1> DEFINE q == Normalized(p)
<1>0. /\ \A f \in TextColumn \ {"attack_type"} :
             q[f] = AsText(p[f]) /\ q[f].type = "text" /\ q[f] # Blank
      /\ \A f \in IntegerColumn :
             /\ q[f] = Whole(AsInt(p[f])) /\ IntReads(q[f])
             /\ AsInt(q[f]) = AsInt(p[f]) /\ AsInt(p[f]) >= 0
      /\ q["event_timestamp"] = p["event_timestamp"]
      /\ q["event_timestamp"].type = "time"
  BY NormalizedFields
<1> HIDE DEF q
<1>1. ASSUME NEW f \in RequiredField
      PROVE  q[f] # Absent /\ q[f] # Blank
  <2>1. CASE f \in TextColumn \ {"attack_type"}
    BY <1>0, <2>1, Types
  <2>2. CASE f \in IntegerColumn
    BY <1>0, <2>2, Types
  <2>3. CASE f = "event_timestamp"
    BY <1>0, <2>3, Types
  <2> QED
    BY <1>1, <2>1, <2>2, <2>3, Columns
<1>2. ASSUME NEW f \in Field
      PROVE  f \notin InvalidFields(q)
  <2>1. f = "protocol" => Word(q[f]) \in AllowedProtocols
    <3>1. "protocol" \in TextColumn \ {"attack_type"} /\ "protocol" \in Field
      BY Columns
    <3>2. Word(p["protocol"]) \in AllowedProtocols
      BY <3>1 DEF Valid, InvalidFields
    <3> QED
      BY <1>0, <3>1, <3>2, TextOfText
  <2>2. f = "event_type" => Word(q[f]) \in AllowedEventTypes
    <3>1. "event_type" \in TextColumn \ {"attack_type"} /\ "event_type" \in Field
      BY Columns DEF TextColumn
    <3>2. Word(p["event_type"]) \in AllowedEventTypes
      BY <3>1 DEF Valid, InvalidFields
    <3> QED
      BY <1>0, <3>1, <3>2, TextOfText
  <2>3. f = "event_timestamp" => q[f].type = "time"
    BY <1>0 DEF Time
  <2> QED
    BY <1>0, <2>1, <2>2, <2>3 DEF InvalidFields
<1>3. MissingFields(q) = {} /\ InvalidFields(q) = {}
  BY <1>1, <1>2 DEF MissingFields, InvalidFields
<1> QED
  BY <1>3 DEF Valid, q

\* The loader maps what the consumer accepted and survived, unless its
\* ingestion_timestamp is none.
LEMMA AcceptedMappable ==
  ASSUME NEW p, \A f \in Field : IsValue(p[f]), Valid(p), ~Overflows(p)
  PROVE  Mappable(Normalized(p)) <=>
           p["ingestion_timestamp"] \in {Absent, Null, Blank, Time(FALSE)}
<1> DEFINE q == Normalized(p)
<1>1. ASSUME NEW f \in TextColumn \ {"attack_type"}
      PROVE  q[f] \notin {Absent, Null, Blank}
  <2>1. q[f].type = "text" /\ q[f] # Blank
    BY <1>1, NormalizedFields
  <2> HIDE DEF q
  <2> QED
    BY <2>1, Types
<1>2. \A f \in IntegerColumn : IntReads(q[f])
  BY NormalizedFields
<1>3. q["event_timestamp"] = Time(FALSE)
  <2>1. p["event_timestamp"] # Time(TRUE)
    BY DEF Overflows, Valid
  <2> QED
    BY <2>1, NormalizedFields
<1>4. q["ingestion_timestamp"] = p["ingestion_timestamp"]
  BY NormalizedFields
<1> HIDE DEF q
<1>5. Mappable(q) <=> q["ingestion_timestamp"] \in {Absent, Null, Blank, Time(FALSE)}
  BY <1>1, <1>2, <1>3 DEF Mappable
<1> QED
  BY <1>4, <1>5 DEF q

\* PostgreSQL refuses what the loader mapped for a wide number, a NUL or a
\* number JSON has not.
LEMMA AcceptedRefused ==
  ASSUME NEW p, \A f \in Field : IsValue(p[f]), Valid(p), Mappable(Normalized(p)),
         ~Storable(Normalized(p))
  PROVE  \/ \E c \in IntegerColumn : Normalized(p)[c].n > IntegerMax
         \/ \E f \in TextColumn : Normalized(p)[f] \in {NulText, NaN, Infinity}
<1> DEFINE q == Normalized(p)
<1>1. CASE \E f \in IntegerColumn : ~(AsInt(q[f]) <= IntegerMax)
  <2>1. PICK f \in IntegerColumn : ~(AsInt(q[f]) <= IntegerMax)
    BY <1>1
  <2>2. q[f] = Whole(AsInt(p[f])) /\ AsInt(q[f]) = AsInt(p[f])
    BY NormalizedFields
  <2>3. q[f].n = AsInt(q[f])
    BY <2>2 DEF Whole
  <2>4. AsInt(q[f]) \in Int
    <3>1. IsValue(p[f]) /\ IntReads(p[f])
      BY Columns DEF Valid, InvalidFields
    <3>2. p[f].n \in Int
      BY <3>1 DEF IsValue, IsCell, IntReads, IntFromText, Absent, Time, Null, Bool,
                  Infinity, NaN
    <3> QED
      BY <2>2, <3>2 DEF AsInt
  <2> QED
    BY <2>1, <2>3, <2>4, WidthAssumption
<1>2. CASE \E f \in Field : q[f] \in {NulText, NaN, Infinity}
  <2>1. PICK f \in Field : q[f] \in {NulText, NaN, Infinity}
    BY <1>2
  <2>2. q[f].type \in {"text", "nan", "infinity"}
    BY <2>1, Types
  <2>3. f \notin IntegerColumn
    <3>1. ASSUME f \in IntegerColumn
          PROVE  q[f].type = "int"
      <4>1. q[f] = Whole(AsInt(p[f]))
        BY <3>1, NormalizedFields
      <4> QED
        BY <4>1 DEF Whole
    <3> QED
      BY <2>2, <3>1
  <2>4. f # "event_timestamp"
    <3>1. q["event_timestamp"].type = "time"
      BY NormalizedFields
    <3> QED
      BY <2>2, <3>1
  <2>5. f # "ingestion_timestamp"
    <3>1. q["ingestion_timestamp"] \in {Absent, Null, Blank, Time(FALSE)}
      BY DEF Mappable
    <3> DEFINE v == q["ingestion_timestamp"]
    <3> HIDE DEF q
    <3>2. v \notin {NulText, NaN, Infinity}
      BY <3>1, Types, BlankIsNoNul
    <3> QED
      BY <2>1, <3>2
  <2> QED
    BY <2>1, <2>3, <2>4, <2>5, Columns
<1> QED
  BY <1>1, <1>2 DEF Storable

-----------------------------------------------------------------------------
(***************************************************************************)
(* validate_data_contract.py.                                              *)
(***************************************************************************)

\* What the validator has counted at each of its program points.  A limit of
\* zero never gets past validate_paths, so that no error goes uncounted.
SummaryInv ==
    /\ maxErrors \in 0..MaxErrors
    /\ pc \in {"paths", "header", "rows", "report", "done"}
    /\ exit \in {"none", "zero", "one", "two"}
    /\ summary \in Summary
    /\ found \in [rows : 0..MaxRows, errors : Nat]
    /\ SummaryExact
    /\ found.errors = 0 => found.rows = 0
    /\ pc \in {"paths", "header"} => /\ found = [rows |-> 0, errors |-> 0]
                                     /\ summary.checked = 0
    /\ pc \in {"header", "rows", "report"} => maxErrors > 0
    /\ pc = "rows" => ~summary.stopped
    /\ exit # "none" <=> pc = "done"
    /\ exit = "zero" => found.errors = 0

\* The counts are right before the file is opened.
LEMMA SummaryInit == Init => SummaryInv
<1> SUFFICES ASSUME Init
             PROVE  SummaryInv
  OBVIOUS
<1>1. maxErrors \in 0..MaxErrors /\ maxErrors \in Nat
  BY JourneyAssumption DEF Init
<1>2. summary \in Summary /\ found \in [rows : 0..MaxRows, errors : Nat]
  BY JourneyAssumption DEF Init, Summary
<1>3. SummaryExact
  BY <1>1 DEF Init, SummaryExact
<1> QED
  BY <1>1, <1>2, <1>3 DEF Init, SummaryInv

\* Every step of the validator keeps the counts right; the others leave them.
LEMMA SummaryStep == SummaryInv /\ [Next]_vars => SummaryInv'
<1> SUFFICES ASSUME SummaryInv, [Next]_vars
             PROVE  SummaryInv'
  OBVIOUS
<1> USE JourneyAssumption
<1>1. CASE Prepare
  BY <1>1 DEF Prepare, Exit, PathsValid, SummaryInv, Summary, SummaryExact
<1>2. CASE ReadHeader
  <2>0. /\ summary \in Summary /\ maxErrors \in Nat /\ maxErrors > 0
        /\ maxErrors <= MaxErrors /\ found = [rows |-> 0, errors |-> 0]
        /\ summary.errors = 0 /\ summary.invalid = 0 /\ summary.valid = 0
        /\ summary.checked = 0 /\ ~summary.stopped
    BY <1>2 DEF ReadHeader, SummaryInv, SummaryExact, Summary
  <2>1. CASE UNCHANGED <<summary, found>>
    BY <1>2, <2>0, <2>1 DEF ReadHeader, Exit, SummaryInv, SummaryExact
  <2>2. CASE /\ summary' = AppendErrors(summary, 1)
             /\ found' = [found EXCEPT !.errors = 1]
             /\ pc' = "report" /\ UNCHANGED exit
    <3>1. summary' = [summary EXCEPT !.errors = 1]
      BY <2>0, <2>2 DEF AppendErrors, Summary
    <3>2. summary' \in Summary /\ found' = [rows |-> 0, errors |-> 1]
      BY <2>0, <2>2, <3>1 DEF Summary
    <3>3. SummaryExact'
      BY <1>2, <2>0, <3>1, <3>2 DEF SummaryExact, Summary, ReadHeader
    <3> QED
      BY <1>2, <2>0, <2>2, <3>1, <3>2, <3>3 DEF SummaryInv, ReadHeader
  <2> QED
    BY <1>2, <2>1, <2>2 DEF ReadHeader
<1>3. CASE ReadRow
  <2>1. PICK r \in CsvRow :
          LET n == Cardinality(RowErrors(r))
              s == [summary EXCEPT !.checked = @ + 1]
          IN  /\ row' \in {row, r}
              /\ IF n > 0
                 THEN /\ summary' = AppendErrors([s EXCEPT !.invalid = @ + 1], n)
                      /\ found' = [rows |-> found.rows + 1, errors |-> found.errors + n]
                 ELSE /\ summary' = [s EXCEPT !.valid = @ + 1]
                      /\ UNCHANGED found
    BY <1>3 DEF ReadRow
  <2> DEFINE n == Cardinality(RowErrors(r))
  <2>2. n \in Nat
    BY ErrorsCounted
  <2>3. /\ summary \in Summary /\ maxErrors \in Nat /\ maxErrors <= MaxErrors
        /\ maxErrors > 0 /\ ~summary.stopped /\ summary.checked < MaxRows
        /\ summary.errors = found.errors /\ found.errors <= maxErrors
        /\ summary.invalid = found.rows
        /\ summary.valid + summary.invalid = summary.checked
        /\ found \in [rows : 0..MaxRows, errors : Nat]
        /\ found.errors = 0 => found.rows = 0
        /\ exit = "none"
    BY <1>3 DEF ReadRow, SummaryInv, SummaryExact, Summary
  <2>7. /\ summary.checked + 1 \in 0..MaxRows /\ summary.valid + 1 \in 0..MaxRows
        /\ summary.valid \in 0..MaxRows /\ summary.invalid + 1 \in 0..MaxRows
        /\ summary.invalid \in 0..MaxRows /\ summary.errors \in 0..MaxErrors
        /\ maxErrors \in 0..MaxErrors /\ found.rows + 1 \in 0..MaxRows
        /\ found.errors \in Nat /\ summary.checked \in Nat
    BY <2>3 DEF Summary
  <2>4. /\ UNCHANGED <<maxErrors, exit>> /\ pc = "rows"
        /\ pc' = IF summary'.stopped THEN "report" ELSE "rows"
    BY <1>3 DEF ReadRow
  <2>5. CASE n > 0
    <3> DEFINE s == [summary EXCEPT !.checked = @ + 1, !.invalid = @ + 1]
    <3>1. summary' = AppendErrors(s, n)
      BY <2>1, <2>3, <2>5 DEF Summary
    <3>2. found' = [rows |-> found.rows + 1, errors |-> found.errors + n]
      BY <2>1, <2>5
    <3> HIDE DEF n
    <3>3. CASE summary.errors + n <= maxErrors
      <4>1. summary' = [checked |-> summary.checked + 1, valid |-> summary.valid,
                     invalid |-> summary.invalid + 1, errors |-> summary.errors + n,
                     stopped |-> FALSE]
        BY <2>3, <3>1, <3>3 DEF AppendErrors, Summary
      <4>2. summary' \in Summary /\ found' \in [rows : 0..MaxRows, errors : Nat]
        <5>1. summary.errors + n \in 0..MaxErrors /\ found.errors + n \in Nat
          BY <2>2, <2>3, <2>7, <3>3
        <5> QED
          BY <2>7, <3>2, <4>1, <5>1 DEF Summary
      <4>3. SummaryExact'
        BY <2>2, <2>3, <2>4, <2>7, <3>2, <3>3, <4>1 DEF SummaryExact
      <4>4. summary'.stopped = FALSE /\ found'.errors > 0
        BY <2>2, <2>3, <2>5, <3>2, <4>1 DEF Summary
      <4> QED
        BY <2>3, <2>4, <4>2, <4>3, <4>4 DEF SummaryInv
    <3>4. CASE ~(summary.errors + n <= maxErrors)
      <4>1. summary' = [checked |-> summary.checked + 1, valid |-> summary.valid,
                     invalid |-> summary.invalid + 1, errors |-> maxErrors,
                     stopped |-> TRUE]
        BY <2>3, <3>1, <3>4 DEF AppendErrors, Summary
      <4>2. summary' \in Summary /\ found' \in [rows : 0..MaxRows, errors : Nat]
        <5>1. found.errors + n \in Nat
          BY <2>2, <2>7
        <5> QED
          BY <2>7, <3>2, <4>1, <5>1 DEF Summary
      <4>3. SummaryExact'
        BY <2>2, <2>3, <2>4, <2>7, <3>2, <3>4, <4>1 DEF SummaryExact
      <4>4. summary'.stopped = TRUE /\ found'.errors > 0
        BY <2>2, <2>3, <2>5, <3>2, <4>1 DEF Summary
      <4> QED
        BY <2>3, <2>4, <4>2, <4>3, <4>4 DEF SummaryInv
    <3> QED
      BY <3>3, <3>4
  <2>6. CASE ~(n > 0)
    <3>1. /\ found' = found
          /\ summary' = [checked |-> summary.checked + 1, valid |-> summary.valid + 1,
                           invalid |-> summary.invalid, errors |-> summary.errors,
                           stopped |-> FALSE]
      BY <2>1, <2>3, <2>6 DEF Summary
    <3>2. summary' \in Summary /\ summary'.stopped = FALSE
      BY <2>7, <3>1 DEF Summary
    <3>3. SummaryExact'
      BY <2>3, <2>4, <2>7, <3>1 DEF SummaryExact
    <3> QED
      BY <2>3, <2>4, <3>1, <3>2, <3>3 DEF SummaryInv
  <2> QED
    BY <2>5, <2>6
<1>4. CASE EndOfFile
  BY <1>4 DEF EndOfFile, SummaryInv, SummaryExact
<1>5. CASE Report
  <2>1. /\ UNCHANGED <<maxErrors, summary, found>>
        /\ pc = "report" /\ pc' = "done"
        /\ exit' \in {"zero", "one", "two"} /\ (exit' = "zero" => Passed)
    BY <1>5 DEF Report, Exit
  <2>2. Passed => found.errors = 0
    BY <2>1 DEF Passed, SummaryInv, SummaryExact
  <2> QED
    BY <2>1, <2>2 DEF SummaryInv, SummaryExact
<1>6. CASE Travel \/ Arrived \/ UNCHANGED vars
  BY <1>6 DEF Travel, Produce, PublishForeign, Consume, Load, LoadInvalid, Move, Arrived,
              vars, validator, SummaryInv, SummaryExact
<1> QED
  BY <1>1, <1>2, <1>3, <1>4, <1>5, <1>6 DEF Next, Validate

\* validate_data_contract.py's summary tells what was found, at each of its
\* program points.
THEOREM SummaryInvariant == Spec => []SummaryInv
<1>1. Init => SummaryInv
  BY SummaryInit
<1>2. SummaryInv /\ [Next]_vars => SummaryInv'
  BY SummaryStep
<1> QED
  BY <1>1, <1>2, PTL DEF Spec

\* append_errors counts exactly the errors up to the limit and tells an early
\* stop, for every limit and every file.
THEOREM SummaryIsExact == Spec => []SummaryExact
<1>1. SummaryInv => SummaryExact
  BY DEF SummaryInv
<1> QED
  BY <1>1, SummaryInvariant, PTL

\* Exit code zero of validate_data_contract.py means a file without errors,
\* for every limit and every file.
THEOREM ZeroMeansConforming == Spec => []ExitZeroConforms
<1>1. SummaryInv => ExitZeroConforms
  BY DEF SummaryInv, ExitZeroConforms, SummaryExact, Summary
<1> QED
  BY <1>1, SummaryInvariant, PTL

-----------------------------------------------------------------------------
(***************************************************************************)
(* The message and the place it is in.                                     *)
(***************************************************************************)

Values(p) == DOMAIN p = Field /\ \A f \in Field : IsValue(p[f])

\* What the consumer has seen to before a record is where it is.
JourneyInv ==
    /\ row = NoRow \/ row \in CsvRow
    /\ at \in Place
    /\ \E b \in Body \cup {"none"} : \E p : /\ message = [body |-> b, payload |-> p]
                                              /\ DOMAIN p = Field
    /\ at = "raw" => message.body # "object" \/ Values(message.payload)
    /\ at = "invalid" => ~Accepted
    /\ at = "processed" => /\ message.body = "object"
                           /\ \E p : /\ Values(p) /\ Valid(p) /\ ~Overflows(p)
                                     /\ message.payload = Normalized(p)
    /\ at = "stored" => Word(message.payload["protocol"]) \in AllowedProtocols
    /\ ValidStored /\ RejectedKept

\* Nothing is claimed of a record that has not left the file.
LEMMA JourneyInit == Init => JourneyInv
BY DEF Init, JourneyInv, Place, NoPayload, ValidStored, RejectedKept

\* What the producer makes of a row it reads.
LEMMA PublishedValues ==
  ASSUME NEW r \in CsvRow, ~Skipped(r)
  PROVE  /\ Values(ToJSON(r))
         /\ \A f \in IntegerColumn : /\ ToJSON(r)[f] = Whole(r[f].n) /\ Atoi(r[f])
                                     /\ r[f].type = "numeral" /\ r[f].n \in Int
         /\ \A f \in Column \ IntegerColumn : ToJSON(r)[f] = r[f] /\ r[f] # Absent
         /\ ToJSON(r)["ingestion_timestamp"] = Time(FALSE)
<1>0. \A c \in Column : IsCell(r[c])
  BY JourneyAssumption
<1>1. ASSUME NEW f \in IntegerColumn
      PROVE  /\ ToJSON(r)[f] = Whole(r[f].n) /\ Atoi(r[f])
             /\ r[f].type = "numeral" /\ r[f].n \in Int /\ IsValue(ToJSON(r)[f])
  <2>1. f \in Field /\ f \in Column
    BY <1>1, Columns
  <2>2. ToJSON(r)[f] = Whole(r[f].n)
    BY <1>1, <2>1 DEF ToJSON
  <2>3. Atoi(r[f])
    BY <1>1 DEF Skipped
  <2>4. r[f].type = "numeral" /\ r[f].n \in Int
    BY <1>0, <2>1, <2>3, Types DEF Atoi, IsCell
  <2>5. Whole(r[f].n).type = "int" /\ Whole(r[f].n).n = r[f].n
    BY DEF Whole
  <2> QED
    BY <2>2, <2>3, <2>4, <2>5 DEF IsValue
<1>2. ASSUME NEW f \in Column \ IntegerColumn
      PROVE  ToJSON(r)[f] = r[f] /\ r[f] # Absent /\ IsValue(ToJSON(r)[f])
  <2>1. f \in Field
    BY <1>2, Columns
  <2>2. ToJSON(r)[f] = r[f]
    BY <1>2, <2>1 DEF ToJSON
  <2> QED
    BY <1>0, <1>2, <2>2 DEF Skipped, IsValue
<1>3. ToJSON(r)["ingestion_timestamp"] = Time(FALSE) /\ IsValue(Time(FALSE))
  BY Columns DEF ToJSON, IsValue, IsCell
<1>4. DOMAIN ToJSON(r) = Field
  BY DEF ToJSON
<1>5. \A f \in Field : IsValue(ToJSON(r)[f])
  BY <1>1, <1>2, <1>3, Columns
<1> QED
  BY <1>1, <1>2, <1>3, <1>4, <1>5 DEF Values

\* Every step of the record keeps what the parts before have seen to.
LEMMA JourneyStep == JourneyInv /\ [Next]_vars => JourneyInv'
<1> SUFFICES ASSUME JourneyInv, [Next]_vars
             PROVE  JourneyInv'
  OBVIOUS
<1>0. /\ row = NoRow \/ row \in CsvRow
      /\ ValidStored /\ RejectedKept /\ at \in Place
  BY DEF JourneyInv
<1>1. PICK b \in Body \cup {"none"} :
          \E p : message = [body |-> b, payload |-> p] /\ DOMAIN p = Field
  BY DEF JourneyInv
<1> DEFINE p == message.payload
<1>10. message = [body |-> b, payload |-> p] /\ DOMAIN p = Field
  BY <1>1
<1>2. CASE UNCHANGED <<message, at>> /\ row' \in CsvRow \cup {row}
  BY <1>0, <1>2 DEF JourneyInv, ValidStored, RejectedKept, Accepted
<1>3. CASE Validate
  BY <1>2, <1>3 DEF Validate, Prepare, ReadHeader, ReadRow, EndOfFile, Report
<1>4. CASE Produce
  <2>1. row' = row /\ row \in CsvRow
    BY <1>0, <1>4 DEF Produce, validator
  <2>2. CASE Skipped(row)
    <3>1. at' = "skipped" /\ message' = message
      BY <1>4, <2>2 DEF Produce
    <3> QED
      BY <1>10, <2>1, <3>1 DEF JourneyInv, Place, ValidStored, RejectedKept
  <2>3. CASE ~Skipped(row)
    <3>1. at' = "raw" /\ message' = [body |-> "object", payload |-> ToJSON(row)]
      BY <1>4, <2>3 DEF Produce
    <3>2. Values(ToJSON(row))
      BY <2>1, <2>3, PublishedValues
    <3>3. \E bb \in Body \cup {"none"} : \E pp : /\ message' = [body |-> bb, payload |-> pp]
                                                   /\ DOMAIN pp = Field
      BY <3>1, <3>2 DEF Body, Values
    <3> QED
      BY <2>1, <3>1, <3>2, <3>3 DEF JourneyInv, Place, ValidStored, RejectedKept
  <2> QED
    BY <2>2, <2>3
<1>5. CASE PublishForeign
  <2>1. row' = row /\ at' = "raw"
    BY <1>5 DEF PublishForeign, validator
  <2>2. CASE \E c \in Body \ {"object"} : message' = [body |-> c, payload |-> NoPayload]
    BY <1>0, <2>1, <2>2 DEF JourneyInv, Place, ValidStored, RejectedKept, NoPayload
  <2>3. CASE \E q \in Payload : message' = [body |-> "object", payload |-> q]
    <3>1. PICK q \in Payload : message' = [body |-> "object", payload |-> q]
      BY <2>3
    <3>2. Values(q)
      BY JourneyAssumption DEF Values
    <3>3. \E bb \in Body \cup {"none"} : \E pp : /\ message' = [body |-> bb, payload |-> pp]
                                                   /\ DOMAIN pp = Field
      BY <3>1, <3>2 DEF Body, Values
    <3> QED
      BY <1>0, <2>1, <3>1, <3>2, <3>3 DEF JourneyInv, Place, ValidStored, RejectedKept
  <2> QED
    BY <1>5, <2>2, <2>3 DEF PublishForeign
<1>6. CASE Consume
  <2>1. row' = row /\ at = "raw"
    BY <1>6 DEF Consume, validator
  <2>2. message.body # "object" \/ Values(message.payload)
    BY <2>1 DEF JourneyInv
  <2>3. CASE Accepted /\ ~Overflows(message.payload)
    <3>1. message.body = "object" /\ Valid(p) /\ Values(p) /\ ~Overflows(p) /\ b = "object"
      BY <1>10, <2>2, <2>3 DEF Accepted
    <3>2. at' = "processed"
      BY <1>6, <2>3 DEF Consume
    <3>3. message' = [body |-> "object", payload |-> Normalized(p)]
      BY <1>10, <1>6, <3>1, <3>2 DEF Consume
    <3>4. DOMAIN Normalized(p) = Field
      BY DEF Normalized
    <3>5. \E bb \in Body \cup {"none"} : \E pp : /\ message' = [body |-> bb, payload |-> pp]
                                                   /\ DOMAIN pp = Field
      BY <3>3, <3>4 DEF Body
    <3>6. /\ message'.body = "object"
          /\ \E q : /\ Values(q) /\ Valid(q) /\ ~Overflows(q)
                    /\ message'.payload = Normalized(q)
      BY <3>1, <3>3
    <3> QED
      BY <1>0, <2>1, <3>2, <3>5, <3>6 DEF JourneyInv, Place, ValidStored, RejectedKept
  <2>4. CASE ~(Accepted /\ ~Overflows(message.payload))
    <3>1. at' = "crashed" \/ (at' = "invalid" /\ ~Accepted)
      <4>1. CASE message.body = "object" /\ Overflows(message.payload)
        BY <1>6, <4>1 DEF Consume
      <4>2. CASE ~(message.body = "object" /\ Overflows(message.payload))
        <5>1. ~Accepted
          BY <2>4, <4>2 DEF Accepted
        <5> QED
          BY <1>6, <4>2, <5>1 DEF Consume
      <4> QED
        BY <4>1, <4>2
    <3>2. message' = message
      BY <1>6, <3>1 DEF Consume
    <3> QED
      BY <1>0, <1>10, <2>1, <3>1, <3>2
         DEF JourneyInv, Place, ValidStored, RejectedKept, Accepted
  <2> QED
    BY <2>3, <2>4
<1>7. CASE Load
  <2>1. row' = row /\ message' = message /\ at = "processed"
    BY <1>7 DEF Load, Move, validator
  <2>2. PICK q : /\ Values(q) /\ Valid(q) /\ ~Overflows(q)
                 /\ message.payload = Normalized(q)
    BY <2>1 DEF JourneyInv
  <2>3. \A f \in Field : IsValue(q[f])
    BY <2>2 DEF Values
  <2>4. Accepted
    BY <2>1, <2>2, <2>3, ValidAgain DEF JourneyInv, Accepted
  <2>5. CASE at' = "stored"
    <3>1. Valid(Normalized(q)) /\ "protocol" \in Field
      BY <2>2, <2>3, ValidAgain, Columns
    <3>2. Word(message.payload["protocol"]) \in AllowedProtocols
      BY <2>2, <3>1 DEF Valid, InvalidFields
    <3> QED
      BY <1>0, <1>10, <2>1, <2>5, <3>2 DEF JourneyInv, Place, ValidStored, RejectedKept
  <2>6. CASE at' = "refused"
    <3>1. Mappable(Normalized(q)) /\ ~Storable(Normalized(q))
      BY <1>7, <2>2, <2>6 DEF Load, Move
    <3>2. \/ \E c \in IntegerColumn : message.payload[c].n > IntegerMax
          \/ \E f \in TextColumn : message.payload[f] \in {NulText, NaN, Infinity}
      BY <2>2, <2>3, <3>1, AcceptedRefused
    <3>3. Accepted'
      BY <2>1, <2>4 DEF Accepted
    <3>4. ValidStored' /\ RejectedKept'
      BY <2>1, <2>6, <3>2, <3>3 DEF ValidStored, RejectedKept
    <3> QED
      BY <1>0, <1>10, <2>1, <2>6, <3>4 DEF JourneyInv, Place
  <2>7. CASE at' = "dropped"
    <3>1. ~Mappable(Normalized(q))
      BY <1>7, <2>2, <2>7 DEF Load, Move
    <3>2. q["ingestion_timestamp"] \notin {Absent, Null, Blank, Time(FALSE)}
      BY <2>2, <2>3, <3>1, AcceptedMappable
    <3>3. message.payload["ingestion_timestamp"] = q["ingestion_timestamp"]
      BY <2>2, <2>3, NormalizedFields
    <3>4. Accepted'
      BY <2>1, <2>4 DEF Accepted
    <3>5. ValidStored' /\ RejectedKept'
      BY <2>1, <2>7, <3>2, <3>3, <3>4 DEF ValidStored, RejectedKept
    <3> QED
      BY <1>0, <1>10, <2>1, <2>7, <3>5 DEF JourneyInv, Place
  <2> QED
    BY <1>7, <2>5, <2>6, <2>7 DEF Load, Move
<1>8. CASE LoadInvalid
  <2>1. row' = row /\ message' = message /\ at = "invalid" /\ ~Accepted
    BY <1>8 DEF LoadInvalid, Move, validator, JourneyInv
  <2>2. \/ at' = "recorded"
        \/ at' \in {"refused", "dropped"} /\ message.body \in {"nul", "blank"}
    BY <1>8 DEF LoadInvalid, Move, Recordable
  <2>3. ~Accepted'
    BY <2>1 DEF Accepted
  <2>4. ValidStored' /\ RejectedKept'
    BY <2>1, <2>2, <2>3 DEF ValidStored, RejectedKept
  <2> QED
    BY <1>0, <1>10, <2>1, <2>2, <2>4 DEF JourneyInv, Place
<1>9. CASE Arrived \/ UNCHANGED vars
  BY <1>2, <1>9 DEF Arrived, vars, validator
<1> QED
  BY <1>3, <1>4, <1>5, <1>6, <1>7, <1>8, <1>9 DEF Next, Travel

\* Whatever place a record reaches, what the parts before it check holds of it.
THEOREM JourneyInvariant == Spec => []JourneyInv
<1>1. Init => JourneyInv
  BY JourneyInit
<1>2. JourneyInv /\ [Next]_vars => JourneyInv'
  BY JourneyStep
<1> QED
  BY <1>1, <1>2, PTL DEF Spec

\* The validator's summary, the row, the message and the place keep their
\* types.
THEOREM TypeInvariant == Spec => []TypeOK
<1>1. SummaryInv /\ JourneyInv => TypeOK
  <2> SUFFICES ASSUME SummaryInv, JourneyInv
               PROVE  TypeOK
    OBVIOUS
  <2>1. DOMAIN row = Column
    BY JourneyAssumption DEF JourneyInv, NoRow
  <2>2. message.body \in Body \cup {"none"} /\ DOMAIN message.payload = Field
    BY DEF JourneyInv
  <2> QED
    BY <2>1, <2>2 DEF TypeOK, SummaryInv, JourneyInv
<1> QED
  BY <1>1, SummaryInvariant, JourneyInvariant, PTL

\* What the consumer passes on, the loader stores, with the exceptions named:
\* for every object that anybody publishes and every width of the columns.
THEOREM AcceptedIsStored == Spec => []ValidStored
<1>1. JourneyInv => ValidStored
  BY DEF JourneyInv
<1> QED
  BY <1>1, JourneyInvariant, PTL

\* What the consumer rejects is kept, unless its text is blank or has a NUL.
THEOREM RejectedIsKept == Spec => []RejectedKept
<1>1. JourneyInv => RejectedKept
  BY DEF JourneyInv
<1> QED
  BY <1>1, JourneyInvariant, PTL

\* The anomaly rule for unexpected protocols never fires on a row that came
\* through the consumer.
THEOREM RuleIsDead == Spec => []UnexpectedProtocolUnreachable
<1>1. JourneyInv => UnexpectedProtocolUnreachable
  <2> SUFFICES ASSUME JourneyInv, at = "stored"
               PROVE  [rule |-> "unusual_protocol", severity |-> "high"]
                        \notin Anomalies(message.payload)
    BY DEF UnexpectedProtocolUnreachable
  <2> DEFINE a == [rule |-> "unusual_protocol", severity |-> "high"]
             w == Word(message.payload["protocol"])
  <2>1. w \in ExpectedProtocols
    BY DEF JourneyInv, AllowedProtocols, ExpectedProtocols
  <2>2. "high" \notin ProtocolSeverity(w)
    BY <2>1 DEF ProtocolSeverity
  <2>3. \A S : a \in Anomaly("unusual_protocol", S) => "high" \in S
    BY DEF Anomaly
  <2>4. \A rule, S : a \in Anomaly(rule, S) => rule = "unusual_protocol"
    BY DEF Anomaly
  <2> HIDE DEF a, w
  <2>5. a \notin Anomaly("unusual_protocol", ProtocolSeverity(w))
    BY <2>2, <2>3
  <2>6. \A rule \in {"high_packet_size", "high_duration", "failed_or_blocked_status",
                     "suspicious_attack_type"} : \A S : a \notin Anomaly(rule, S)
    BY <2>4
  <2>7. a \notin Anomalies(message.payload)
    BY <2>5, <2>6 DEF Anomalies, w
  <2> QED
    BY <2>7 DEF a
<1> QED
  BY <1>1, JourneyInvariant, PTL

-----------------------------------------------------------------------------
(***************************************************************************)
(* The row of a file that conforms.                                        *)
(***************************************************************************)

Gone == {"raw", "crashed", "invalid", "recorded", "processed", "stored", "refused"}

\* How the row chosen from the file got where it is.
ConformingInv ==
    /\ pc = "paths" => row = NoRow
    /\ at # "file" => pc \in {"paths", "done"}
    /\ found.errors = 0 /\ row # NoRow => RowErrors(row) = {}
    /\ row # NoRow =>
        /\ at # "dropped"
        /\ at = "skipped" => Skipped(row)
        /\ at \in Gone => message.body = "object" /\ ~Skipped(row)
        /\ at \in {"raw", "crashed", "invalid", "recorded"} => message.payload = ToJSON(row)
        /\ at = "crashed" => Overflows(ToJSON(row))
        /\ at = "processed" => /\ message.payload = Normalized(ToJSON(row))
                               /\ Valid(ToJSON(row)) /\ ~Overflows(ToJSON(row))
        /\ at = "refused" => \/ \E c \in IntegerColumn : row[c].n > IntegerMax
                             \/ \E c \in TextColumn : row[c] = NulText

\* No row is chosen at the start.
LEMMA ConformingInit == Init => ConformingInv
BY DEF Init, ConformingInv, Gone

\* Why PostgreSQL refuses a row that the producer read.
LEMMA RowRefused ==
  ASSUME NEW r \in CsvRow, ~Skipped(r), Valid(ToJSON(r)),
         Mappable(Normalized(ToJSON(r))), ~Storable(Normalized(ToJSON(r)))
  PROVE  \/ \E c \in IntegerColumn : r[c].n > IntegerMax
         \/ \E c \in TextColumn : r[c] = NulText
<1> DEFINE p == ToJSON(r)
<1>1. \A f \in Field : IsValue(p[f])
  BY PublishedValues DEF Values
<1>2. CASE \E c \in IntegerColumn : Normalized(p)[c].n > IntegerMax
  <2>1. PICK c \in IntegerColumn : Normalized(p)[c].n > IntegerMax
    BY <1>2
  <2>2. Normalized(p)[c] = Whole(AsInt(p[c])) /\ p[c] = Whole(r[c].n)
    <3>1. Normalized(p)[c] = Whole(AsInt(p[c]))
      BY <1>1, NormalizedFields
    <3> QED
      BY <3>1, PublishedValues
  <2>3. Normalized(p)[c].n = r[c].n
    BY <2>2 DEF AsInt, Whole
  <2> QED
    BY <2>1, <2>3
<1>3. CASE \E f \in TextColumn : Normalized(p)[f] \in {NulText, NaN, Infinity}
  <2>1. PICK f \in TextColumn : Normalized(p)[f] \in {NulText, NaN, Infinity}
    BY <1>3
  <2>2. p[f] = r[f] /\ IsCell(r[f]) /\ f \in Field
    BY Columns, PublishedValues, JourneyAssumption
  <2>3. CASE f = "attack_type"
    <3>1. r[f] \in {NulText, NaN, Infinity}
      BY <1>1, <2>1, <2>2, <2>3, NormalizedFields
    <3>2. r[f] # NaN /\ r[f] # Infinity
      BY <2>2, Types DEF IsCell
    <3> QED
      BY <3>1, <3>2
  <2>4. CASE f # "attack_type"
    <3>1. Normalized(p)[f] = AsText(r[f]) /\ Normalized(p)[f].type = "text"
      <4>1. /\ Normalized(p)[f] = AsText(p[f])
            /\ Normalized(p)[f].type = "text"
        BY <1>1, <2>4, NormalizedFields
      <4> QED
        BY <2>2, <4>1
    <3>2. AsText(r[f]) = NulText
      BY <2>1, <3>1, Types
    <3> QED
      BY <1>1, <2>2, <3>2, TextOfText
  <2> QED
    BY <2>3, <2>4
<1> QED
  BY <1>1, <1>2, <1>3, AcceptedRefused

\* Every step keeps the connection between the row and what became of it.
LEMMA ConformingStep ==
  SummaryInv /\ JourneyInv /\ ConformingInv /\ [Next]_vars => ConformingInv'
<1> SUFFICES ASSUME SummaryInv, JourneyInv, ConformingInv, [Next]_vars
             PROVE  ConformingInv'
  OBVIOUS
<1>0. /\ row = NoRow \/ row \in CsvRow
      /\ at # "file" => pc \in {"paths", "done"}
      /\ pc = "paths" => row = NoRow
      /\ found.errors \in Nat
  BY DEF JourneyInv, ConformingInv, SummaryInv
<1>1. CASE Prepare
  <2>1. /\ pc = "paths" /\ row' = row /\ row = NoRow /\ at' = "file" /\ at = "file"
    BY <1>0, <1>1 DEF Prepare
  <2> QED
    BY <2>1 DEF ConformingInv
<1>2. CASE ReadRow
  <2>1. PICK r \in CsvRow :
          LET n == Cardinality(RowErrors(r))
              s == [summary EXCEPT !.checked = @ + 1]
          IN  /\ row' \in {row, r}
              /\ IF n > 0
                 THEN /\ summary' = AppendErrors([s EXCEPT !.invalid = @ + 1], n)
                      /\ found' = [rows |-> found.rows + 1, errors |-> found.errors + n]
                 ELSE /\ summary' = [s EXCEPT !.valid = @ + 1]
                      /\ UNCHANGED found
    BY <1>2 DEF ReadRow
  <2> DEFINE n == Cardinality(RowErrors(r))
  <2>2. n \in Nat /\ (n > 0 <=> RowErrors(r) # {})
    BY ErrorsCounted
  <2>3. at = "file" /\ at' = "file" /\ pc' \in {"rows", "report"}
    BY <1>0, <1>2 DEF ReadRow
  <2>4. found'.errors = 0 => n = 0 /\ found.errors = 0
    <3>1. CASE n > 0
      <4>1. found'.errors = found.errors + n
        BY <2>1, <3>1
      <4> HIDE DEF n
      <4> QED
        BY <1>0, <2>2, <3>1, <4>1
    <3>2. CASE ~(n > 0)
      <4>1. found' = found
        BY <2>1, <3>2
      <4> HIDE DEF n
      <4> QED
        BY <2>2, <3>2, <4>1
    <3> QED
      BY <3>1, <3>2
  <2>5. found'.errors = 0 /\ row' # NoRow => RowErrors(row') = {}
    <3>1. row' = row \/ row' = r
      BY <2>1
    <3> HIDE DEF n
    <3>2. found'.errors = 0 => RowErrors(r) = {}
      BY <2>2, <2>4
    <3> QED
      BY <2>4, <3>1, <3>2 DEF ConformingInv
  <2> QED
    BY <2>3, <2>5 DEF ConformingInv, Gone
<1>3. CASE ReadHeader
  <2>1. /\ row' = row /\ at' = at /\ pc' \notin {"paths"} /\ pc = "header"
        /\ found' = found \/ found' = [found EXCEPT !.errors = 1]
    BY <1>3 DEF ReadHeader, Exit
  <2>2. at = "file"
    BY <1>0, <2>1
  <2>3. found'.errors = 0 => found.errors = 0
    <3>1. found = [rows |-> 0, errors |-> 0]
      BY <2>1 DEF SummaryInv
    <3> QED
      BY <2>1, <3>1
  <2> QED
    BY <2>1, <2>2, <2>3 DEF ConformingInv, Gone
<1>4. CASE EndOfFile \/ Report
  <2>1. /\ UNCHANGED <<row, at, found, message>> /\ pc' # "paths"
        /\ pc \in {"rows", "report"}
    BY <1>4 DEF EndOfFile, Report, Exit
  <2>2. at = "file"
    BY <1>0, <2>1
  <2> QED
    BY <2>1, <2>2 DEF ConformingInv, Gone
<1>5. CASE PublishForeign
  BY <1>0, <1>5 DEF PublishForeign, validator, ConformingInv
<1>6. ASSUME UNCHANGED validator, row = NoRow, at # "file" => pc \in {"paths", "done"},
             at' = "file" \/ pc \in {"paths", "done"}
      PROVE  ConformingInv'
  BY <1>6 DEF ConformingInv, validator
<1>7. CASE row # NoRow /\ Travel
  <2>1. UNCHANGED validator /\ pc = "done" /\ row \in CsvRow
    BY <1>0, <1>7 DEF Travel, Produce, PublishForeign, Consume, Load, LoadInvalid, Move
  <2>2. found.errors = 0 => RowErrors(row) = {}
    BY <1>7 DEF ConformingInv
  <2>3. CASE Produce
    <3>1. \/ at' = "skipped" /\ Skipped(row)
          \/ /\ at' = "raw" /\ ~Skipped(row)
             /\ message' = [body |-> "object", payload |-> ToJSON(row)]
      BY <2>3 DEF Produce
    <3> QED
      BY <2>1, <2>2, <3>1 DEF ConformingInv, validator, Gone
  <2>4. CASE PublishForeign
    BY <1>0, <1>7, <2>4 DEF PublishForeign
  <2>5. CASE Consume
    <3>1. /\ message.body = "object" /\ ~Skipped(row) /\ message.payload = ToJSON(row)
      BY <1>7, <2>5 DEF Consume, ConformingInv, Gone
    <3>2. CASE Overflows(ToJSON(row))
      <4>1. at' = "crashed" /\ message' = message
        BY <2>5, <3>1, <3>2 DEF Consume
      <4> QED
        BY <2>1, <2>2, <3>1, <3>2, <4>1 DEF ConformingInv, validator, Gone
    <3>3. CASE ~Overflows(ToJSON(row)) /\ Valid(ToJSON(row))
      <4>1. Accepted
        BY <3>1, <3>3 DEF Accepted
      <4>2. at' = "processed"
        BY <2>5, <3>1, <3>3, <4>1 DEF Consume
      <4>3. message' = [message EXCEPT !.payload = Normalized(@)]
        BY <2>5, <4>2 DEF Consume
      <4>4. message'.body = "object" /\ message'.payload = Normalized(ToJSON(row))
        BY <3>1, <4>3 DEF JourneyInv
      <4> QED
        BY <2>1, <2>2, <3>1, <3>3, <4>2, <4>4 DEF ConformingInv, validator, Gone
    <3>4. CASE ~Overflows(ToJSON(row)) /\ ~Valid(ToJSON(row))
      <4>1. ~Accepted
        BY <3>1, <3>4 DEF Accepted
      <4>2. at' = "invalid"
        BY <2>5, <3>1, <3>4, <4>1 DEF Consume
      <4>3. message' = message
        BY <2>5, <4>2 DEF Consume
      <4> QED
        BY <2>1, <2>2, <3>1, <4>2, <4>3 DEF ConformingInv, validator, Gone
    <3> QED
      BY <3>2, <3>3, <3>4
  <2>6. CASE Load
    <3> DEFINE p == ToJSON(row)
    <3>1. /\ message.body = "object" /\ ~Skipped(row) /\ message.payload = Normalized(p)
          /\ Valid(p) /\ ~Overflows(p) /\ message' = message
      BY <1>7, <2>6 DEF Load, Move, ConformingInv, Gone
    <3>2. Mappable(Normalized(p))
      <4>1. \A f \in Field : IsValue(p[f])
        BY <2>1, <3>1, PublishedValues DEF Values
      <4>2. p["ingestion_timestamp"] = Time(FALSE)
        BY <2>1, <3>1, PublishedValues
      <4> QED
        BY <3>1, <4>1, <4>2, AcceptedMappable
    <3>3. at' = "stored" \/ (at' = "refused" /\ ~Storable(Normalized(p)))
      BY <2>6, <3>1, <3>2 DEF Load, Move
    <3>4. at' = "refused" => \/ \E c \in IntegerColumn : row[c].n > IntegerMax
                             \/ \E c \in TextColumn : row[c] = NulText
      BY <2>1, <3>1, <3>2, <3>3, RowRefused
    <3> QED
      BY <2>1, <2>2, <3>1, <3>3, <3>4 DEF ConformingInv, validator, Gone
  <2>7. CASE LoadInvalid
    <3>1. /\ message.body = "object" /\ ~Skipped(row) /\ message.payload = ToJSON(row)
          /\ message' = message
      BY <1>7, <2>7 DEF LoadInvalid, Move, ConformingInv, Gone
    <3>2. at' = "recorded"
      BY <2>7, <3>1 DEF LoadInvalid, Move, Recordable
    <3> QED
      BY <2>1, <2>2, <3>1, <3>2 DEF ConformingInv, validator, Gone
  <2> QED
    BY <1>7, <2>3, <2>4, <2>5, <2>6, <2>7 DEF Travel
<1>8. CASE row = NoRow /\ Travel
  <2>1. UNCHANGED validator /\ pc \in {"paths", "done"}
    BY <1>0, <1>8 DEF Travel, Produce, PublishForeign, Consume, Load, LoadInvalid, Move
  <2> QED
    BY <1>0, <1>6, <1>8, <2>1
<1>9. CASE Arrived \/ UNCHANGED vars
  BY <1>9 DEF Arrived, vars, validator, ConformingInv
<1> QED
  BY <1>1, <1>2, <1>3, <1>4, <1>7, <1>8, <1>9 DEF Next, Validate

\* A conforming row that the producer read has no missing field and no other
\* invalid one than its timestamp, protocol and event type.
LEMMA ConformingFields ==
  ASSUME NEW r \in CsvRow, RowErrors(r) = {}, ~Skipped(r)
  PROVE  /\ MissingFields(ToJSON(r)) = {}
         /\ InvalidFields(ToJSON(r)) \subseteq {"event_timestamp", "protocol", "event_type"}
         /\ Overflows(ToJSON(r)) => r["event_timestamp"] = Time(TRUE)
<1> DEFINE p == ToJSON(r)
<1>1. ASSUME NEW c \in Column, NEW rule \in ContractRule
      PROVE  ~Breaks(r, c, rule)
  <2>1. <<c, rule>> \in Column \X ContractRule /\ <<c, rule>> \notin RowErrors(r)
    OBVIOUS
  <2> QED
    BY <2>1 DEF RowErrors
<1>2. ASSUME NEW f \in RequiredField
      PROVE  p[f] \notin {Absent, Blank}
  <2>1. CASE f \in IntegerColumn
    <3>1. p[f].type = "int"
      <4>1. p[f] = Whole(r[f].n)
        BY <2>1, PublishedValues
      <4> QED
        BY <4>1 DEF Whole
    <3> QED
      BY <3>1, Types
  <2>2. CASE f \notin IntegerColumn
    <3>1. f \in Column \ IntegerColumn /\ f \notin NullableColumn
      BY <1>2, <2>2 DEF RequiredField, NullableColumn
    <3>2. "required" \in ContractRule
      BY DEF ContractRule
    <3>3. ~IsEmpty(r[f])
      BY <1>1, <3>1, <3>2 DEF Breaks
    <3> QED
      BY <3>1, <3>3, PublishedValues DEF IsEmpty
  <2> QED
    BY <2>1, <2>2
<1>3. ASSUME NEW c \in IntegerColumn
      PROVE  IntReads(p[c]) /\ AsInt(p[c]) >= 0
  <2>1. p[c] = Whole(r[c].n) /\ Atoi(r[c]) /\ r[c].n \in Int
    BY PublishedValues
  <2>2. c \in Column /\ "min" \in ContractRule /\ ~Breaks(r, c, "min")
    BY <1>1, Columns DEF ContractRule
  <2>3. ~(r[c].n < 0)
    BY <2>1, <2>2 DEF Breaks, IntFromText, Atoi
  <2>4. p[c].type = "int" /\ p[c].n = r[c].n
    BY <2>1 DEF Whole
  <2> QED
    BY <2>1, <2>3, <2>4 DEF IntReads, AsInt
<1>4. MissingFields(p) = {}
  BY <1>2 DEF MissingFields
<1>5. InvalidFields(p) \subseteq {"event_timestamp", "protocol", "event_type"}
  BY <1>3 DEF InvalidFields
<1>6. ASSUME Overflows(p)
      PROVE  r["event_timestamp"] = Time(TRUE)
  <2>1. ASSUME NEW c \in IntegerColumn
        PROVE  p[c] # Infinity
    <3>1. p[c] = Whole(r[c].n)
      BY PublishedValues
    <3>2. p[c].type = "int"
      BY <3>1 DEF Whole
    <3> QED
      BY <3>2, Types
  <2>2. p["event_timestamp"] = Time(TRUE)
    BY <1>6, <2>1 DEF Overflows
  <2> QED
    BY <2>2, Columns, PublishedValues
<1> QED
  BY <1>4, <1>5, <1>6

\* Why the producer leaves out a conforming row.
LEMMA ConformingSkipped ==
  ASSUME NEW r \in CsvRow, RowErrors(r) = {}, Skipped(r)
  PROVE  \/ \E c \in Column : r[c] = BareQuote
         \/ r["attack_type"] = Absent
         \/ \E c \in IntegerColumn : r[c].form = "underscored" \/ r[c].n > GoIntMax
<1>0. /\ \A c \in Column : IsCell(r[c])
      /\ \A c \in Column, rule \in ContractRule : ~Breaks(r, c, rule)
  <2>1. ASSUME NEW c \in Column, NEW rule \in ContractRule
        PROVE  ~Breaks(r, c, rule)
    <3>1. <<c, rule>> \in Column \X ContractRule /\ <<c, rule>> \notin RowErrors(r)
      OBVIOUS
    <3> QED
      BY <3>1 DEF RowErrors
  <2> QED
    BY <2>1, JourneyAssumption
<1>1. ASSUME NEW c \in Column, r[c] = Absent
      PROVE  c = "attack_type"
  <2>1. "required" \in ContractRule
    BY DEF ContractRule
  <2>2. c \in NullableColumn
    BY <1>0, <1>1, <2>1 DEF Breaks, IsEmpty
  <2> QED
    BY <2>2 DEF NullableColumn
<1>2. ASSUME NEW c \in IntegerColumn, ~Atoi(r[c])
      PROVE  r[c].form = "underscored" \/ r[c].n > GoIntMax
  <2>1. c \in Column /\ c \notin NullableColumn
    BY Columns DEF NullableColumn, IntegerColumn
  <2>2. {"required", "integer", "min"} \subseteq ContractRule
    BY DEF ContractRule
  <2>3. ~IsEmpty(r[c])
    BY <1>0, <2>1, <2>2 DEF Breaks
  <2>4. r[c].type = "numeral" /\ r[c].form # "decimal" /\ ~(r[c].n < 0)
    BY <1>0, <2>1, <2>2, <2>3 DEF Breaks, IntFromText
  <2>5. r[c].n \in Int /\ r[c].form \in Form
    BY <1>0, <2>1, <2>4, Types DEF IsCell
  <2>6. r[c].n >= -GoIntMax - 1
    BY <2>4, <2>5, WidthAssumption
  <2> QED
    BY <1>2, <2>4, <2>5, <2>6, WidthAssumption DEF Atoi, Form
<1> QED
  BY <1>1, <1>2 DEF Skipped

\* All that may go wrong with a row of a file the contract passed: for every
\* file, whatever is done with the row.
THEOREM GapsAreThese == Spec => []ContractGaps
<1>1. SummaryInv /\ JourneyInv /\ ConformingInv => ContractGaps
  <2> SUFFICES ASSUME SummaryInv, JourneyInv, ConformingInv, exit = "zero", row # NoRow
               PROVE  CASE at = "skipped" ->
                             \/ \E c \in Column : row[c] = BareQuote
                             \/ row["attack_type"] = Absent
                             \/ \E c \in IntegerColumn : \/ row[c].form = "underscored"
                                                         \/ row[c].n > GoIntMax
                       [] at = "crashed" -> row["event_timestamp"] = Time(TRUE)
                       [] at \in {"invalid", "recorded"} ->
                             /\ MissingFields(message.payload) = {}
                             /\ InvalidFields(message.payload)
                                    \subseteq {"event_timestamp", "protocol", "event_type"}
                       [] at = "dropped" -> FALSE
                       [] at = "refused" ->
                             \/ \E c \in IntegerColumn : row[c].n > IntegerMax
                             \/ \E c \in TextColumn : row[c] = NulText
                       [] OTHER -> TRUE
    BY DEF ContractGaps
  <2>1. row \in CsvRow /\ RowErrors(row) = {}
    BY DEF SummaryInv, JourneyInv, ConformingInv
  <2>2. CASE at = "skipped"
    <3>1. Skipped(row)
      BY <2>2 DEF ConformingInv
    <3> QED
      BY <2>1, <2>2, <3>1, ConformingSkipped
  <2>3. CASE at = "crashed"
    <3>1. ~Skipped(row) /\ Overflows(ToJSON(row))
      BY <2>3 DEF ConformingInv, Gone
    <3> QED
      BY <2>1, <2>3, <3>1, ConformingFields
  <2>4. CASE at \in {"invalid", "recorded"}
    <3>1. ~Skipped(row) /\ message.payload = ToJSON(row)
      BY <2>4 DEF ConformingInv, Gone
    <3> QED
      BY <2>1, <2>4, <3>1, ConformingFields
  <2>5. CASE at = "refused"
    BY <2>5 DEF ConformingInv
  <2>6. CASE at \notin {"skipped", "crashed", "invalid", "recorded", "refused"}
    BY <2>6 DEF ConformingInv
  <2> QED
    BY <2>2, <2>3, <2>4, <2>5, <2>6
<1>2. Init => ConformingInv
  BY ConformingInit
<1>3. SummaryInv /\ JourneyInv /\ ConformingInv /\ [Next]_vars => ConformingInv'
  BY ConformingStep
<1> QED
  BY <1>1, <1>2, <1>3, SummaryInvariant, JourneyInvariant, PTL DEF Spec
=============================================================================
