----------------------------- MODULE CSVParser -----------------------------
(***************************************************************************)
(* internal/parser/csv_parser.go as operators on a file: a header and rows *)
(* of cells.  A cell is a text with or without white space around it.  Of  *)
(* the metadata columns Hostname (required) and pod (optional) stand for   *)
(* the others, which take the same way.                                    *)
(***************************************************************************)
EXTENDS Lists, FiniteSetsExt

Empty == ""

TrimSpace(cell) == cell.text

Required == {"timestamp", "metric_name", "gpu_id", "device", "uuid", "modelName",
             "Hostname", "value"}

(* ParseHeader: trimmed name to index; of two equal names the later wins.  *)
Named(header, name) == {i \in DOMAIN header : TrimSpace(header[i]) = name}

HeaderMap(header) ==
    [name \in {TrimSpace(header[i]) : i \in DOMAIN header} |-> Max(Named(header, name))]

HeaderOK(header) == header # <<>> /\ Required \subseteq DOMAIN HeaderMap(header)

(* getCol of ParseRow (mutant: the index is off by one).                   *)
GetColShifted(header, row, name) ==
    LET map == HeaderMap(header)
    IN  IF name \in DOMAIN map /\ map[name] < Len(row)
        THEN TrimSpace(row[map[name] + 1]) ELSE Empty

GetCol(header, row, name) ==
    LET map == HeaderMap(header)
    IN  IF name \in DOMAIN map /\ map[name] <= Len(row)
        THEN TrimSpace(row[map[name]]) ELSE Empty

ToRecord(header, row) ==
    [uuid   |-> GetCol(header, row, "uuid"),
     metric |-> GetCol(header, row, "metric_name"),
     value  |-> GetCol(header, row, "value"),
     host   |-> GetCol(header, row, "Hostname"),
     pod    |-> GetCol(header, row, "pod")]

(* ParseRow accepts a row (mutant: a missing metric name is let through).  *)
UUIDPresent(header, row) == GetCol(header, row, "uuid") # Empty

FieldsPresent(header, row) ==
    GetCol(header, row, "uuid") # Empty /\ GetCol(header, row, "metric_name") # Empty

(* csv.Reader refuses a row that has not as many fields as the header.     *)
FieldCountOK(header, row) == Len(row) = Len(header)

Accepted(header, row) == FieldCountOK(header, row) /\ FieldsPresent(header, row)

(* streamFile's reading loop over StreamReader.Next: rows with an error    *)
(* are skipped, the others are kept in order.                              *)
GoodRows(file) == {i \in DOMAIN file.rows : Accepted(file.header, file.rows[i])}

InOrder(S) == CHOOSE o \in [1..Cardinality(S) -> S] : Increasing(o)

ReadAll(file) ==
    LET order == InOrder(GoodRows(file))
    IN  [i \in DOMAIN order |-> ToRecord(file.header, file.rows[order[i]])]

=============================================================================
