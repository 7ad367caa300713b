----------------------------- MODULE MCPipeline -----------------------------
(***************************************************************************)
(* Pipeline on a small instance: three contents of the file, two GPUs.     *)
(***************************************************************************)
EXTENDS Pipeline

C(text) == [text |-> text, pad |-> FALSE]
Padded(text) == [text |-> text, pad |-> TRUE]
Cells(texts) == [i \in DOMAIN texts |-> C(texts[i])]

(* The usual header, with a padded name; a row that lacks its metric name  *)
(* and one that lacks a field are skipped.                                 *)
PlainFile ==
    [header |-> Append(Cells(<<"timestamp", "metric_name", "gpu_id", "device",
                               "modelName", "Hostname", "value">>), Padded("uuid")),
     rows   |-> << Cells(<<"t", "util", "0", "d", "h100", "hostA", "10", "g1">>),
                   Cells(<<"t", "", "0", "d", "h100", "hostB", "11", "g1">>),
                   Cells(<<"t", "util", "0", "d", "h100", "hostB", "12">>) >>]

(* Another order, a pod column and the value column twice.                 *)
PodFile ==
    [header |-> Cells(<<"uuid", "value", "Hostname", "pod", "timestamp", "metric_name",
                        "gpu_id", "device", "modelName", "value">>),
     rows   |-> << Cells(<<"g1", "0", "hostC", "p1", "t", "util", "0", "d", "h100", "20">>),
                   Cells(<<"g2", "0", "hostC", "", "t", "util", "1", "d", "h100", "30">>) >>]

(* A required column is missing.                                           *)
BadFile == [header |-> Cells(<<"uuid", "value">>), rows |-> << Cells(<<"g1", "9">>) >>]

AnyText == STRING

AllFiles == {PlainFile, PodFile, BadFile}

NoMetric == << [uuid |-> "g2", metric |-> "", value |-> "1", host |-> "", pod |-> "",
                time |-> 1, batch |-> 1] >>

Ask(path, uuid, start, end, limit) ==
    [path |-> path, uuid |-> uuid, start |-> start, end |-> end, limit |-> limit]

SomeRequests ==
    { Ask("list", "", NoBound, NoBound, NoBound),
      Ask("get", "g1", NoBound, NoBound, NoBound),
      Ask("telemetry", "g1", 1, 2, 2),
      Ask("telemetry", "g1", 3, NoBound, NoBound),
      Ask("telemetry", "g1", 2, 1, NoBound) }

Symm == Permutations(Workers)

=============================================================================
