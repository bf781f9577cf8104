--------------------------- MODULE MCRecordJourney ---------------------------
\* The values of RecordJourney's constants for TLC: an ordinary row and an
\* ordinary object, and those that differ from them in at most two fields.
EXTENDS RecordJourney

Cell(n) == Numeral(n, "plain")

OrdinaryRow ==
    [c \in Column |->
        CASE c \in IntegerColumn -> Cell(5)
          [] c = "event_timestamp" -> Time(FALSE)
          [] c = "protocol" -> Text("tcp")
          [] c = "event_type" -> Text("normal")
          [] c = "status" -> Text("success")
          [] c = "attack_type" -> Blank
          [] OTHER -> Text("a")]

NumberCells == {Cell(-1), Cell(1500), Cell(15000), Cell(IntegerMax + 1),
                Cell(GoIntMax + 1), Cell(-GoIntMax - 2), Numeral(5, "underscored"),
                Numeral(5, "decimal"), Text("five"), Blank}

CellVariants ==
    [c \in Column |->
        CASE c = "packet_size" -> NumberCells
          [] c = "duration_ms" -> {Cell(-1), Cell(15000)}
          [] c = "event_timestamp" -> {Time(TRUE), Text("yesterday"), Blank}
          [] c = "protocol" -> {Text("mqtt"), Text("sctp")}
          [] c = "event_type" -> {Text("scan"), Blank}
          [] c = "status" -> {Text("blocked"), Text("error"), Absent}
          [] c = "attack_type" -> {Text("ddos"), NulText, Absent}
          [] c = "device_id" -> {Blank, BareQuote, NulText}
          [] OTHER -> {Blank}]

\* The functions that differ from f in at most two places, where they take
\* one of the variants' values.
Near(f, variants) ==
    {f} \cup UNION {{[f EXCEPT ![x] = v, ![y] = w] :
                        v \in variants[x], w \in variants[y] \cup {f[y]}} :
                    <<x, y>> \in {z \in (DOMAIN f) \X (DOMAIN f) : z[1] # z[2]}}

MCCsvRow == Near(OrdinaryRow, CellVariants)

OrdinaryObject ==
    [f \in Field |->
        CASE f \in IntegerColumn -> Whole(5)
          [] f = "ingestion_timestamp" -> Time(FALSE)
          [] OTHER -> OrdinaryRow[f]]

ObjectVariants ==
    [f \in Field |->
        CASE f = "duration_ms" -> {Whole(5000), Infinity, Cell(5)}
          [] f = "packet_size" ->
                {Whole(-1), Whole(1500), Whole(IntegerMax + 1), Tenths(19), Tenths(-5),
                 Tenths(-15), Cell(5), Numeral(5, "decimal"), Bool, Null, Infinity, NaN}
          [] f = "event_timestamp" -> {Time(TRUE), Whole(5), Null, Absent}
          [] f = "ingestion_timestamp" ->
                {Time(TRUE), Text("today"), Blank, Whole(5), Null, NaN, Absent}
          [] f = "attack_type" -> {Absent, Null, Bool, NaN, NulText, Text("ddos")}
          [] f \in {"protocol", "event_type"} -> {Text("mqtt"), Bool, Null, Absent}
          [] OTHER -> {Null, NaN, NulText, Blank, Absent}]

MCPayload == Near(OrdinaryObject, ObjectVariants)
=============================================================================
