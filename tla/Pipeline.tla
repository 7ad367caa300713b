------------------------------ MODULE Pipeline ------------------------------
(***************************************************************************)
(* The path of the data, from a CSV file to an answer of the API gateway:  *)
(* a streamer reads and publishes batches (streamer.go, csv_parser.go),    *)
(* the workers of a collector process messages (collector.go) into the two *)
(* collections (storage/mongodb), and the gateway's handlers read them     *)
(* (api/handlers).                                                         *)
(*                                                                         *)
(* The queue is external here and does what AtLeastOnce promises: a        *)
(* message is handed to some worker, perhaps again.  Other modules have    *)
(* the lock of the streamers, the queue's and the collector's inner steps. *)
(***************************************************************************)
EXTENDS CSVParser, Repositories

CONSTANTS
    Texts,          \* what a cell or a field can say
    Files,          \* contents the CSV file can have: [header, rows]
    Foreign,        \* messages of other publishers, all without a uuid or a metric name
    Workers,
    Handlers,       \* the goroutines of the gateway, one for each request
    Requests,       \* requests: [path, uuid, start, end, limit]
    WellFormed,     \* uuids that match uuidRegex
    Unparsable,     \* a start_time, end_time or limit that does not parse
    MaxLimit,       \* the largest limit that is accepted (10000)
    None,
    MaxTime,        \* bound: instants of the clock
    MaxFailures     \* bound: failed calls, redeliveries and crashes, together

CellType    == [text : Texts, pad : BOOLEAN]
FileType    == [header : Seq(CellType), rows : Seq(Seq(CellType))]
RecordType  == [uuid : Texts, metric : Texts, value : Texts, host : Texts, pod : Texts]
MessageType == [uuid : Texts, metric : Texts, value : Texts, host : Texts, pod : Texts,
                time : Nat, batch : Nat]
GPUType     == [uuid : Texts, host : Texts, pod : Texts]
PointType   == [gpu : Texts, metric : Texts, value : Texts,
                date : Nat, batch : Nat]

ASSUME NoneAssumption == None \notin Nat
ASSUME TextAssumption == Empty \in Texts
ASSUME FileAssumption == Files \subseteq FileType
ASSUME FiniteAssumption == IsFiniteSet(Workers)
ASSUME ForeignAssumption ==
    /\ Foreign \in Seq(MessageType)
    /\ \A m \in DOMAIN Foreign : Foreign[m].uuid = Empty \/ Foreign[m].metric = Empty
ASSUME BoundAssumption == {MaxTime, MaxFailures, MaxLimit} \subseteq Nat

VARIABLES
    clock,      \* time.Now()
    pending,    \* streamFile: records still to be published
    now,        \* when streamFile last began: batchTimestamp; formatted it is batchID
    messages,   \* everything published, in order
    avail,      \* messages (indices) the queue can deliver
    delivered,  \* history: how often each message was delivered
    wpc, job,   \* worker: "idle", "gpu", "insert", "telemetry"; its message
    gpus, telemetry,    \* the collections
    rejected,   \* history: messages that validateTelemetry refused
    givenUp,    \* history: messages whose telemetry was not stored
    gpuFailed,  \* history: uuids of which a GPU store failed
    raced,      \* history: uuids two workers upserted at once for the first time
    hpc, req, resp,     \* handler: "new", "lookup", "query", "done"; request; answer
    failures

readVars   == <<clock, pending, now>>
queueVars  == <<messages, avail, delivered>>
workVars   == <<wpc, job>>
storeVars  == <<gpus, telemetry>>
hisVars    == <<rejected, givenUp, gpuFailed, raced>>
apiVars    == <<hpc, req, resp>>
vars == <<readVars, queueVars, workVars, storeVars, hisVars, apiVars, failures>>

NoAnswer == [status |-> 0, body |-> <<>>]

Init ==
    /\ clock = 1 /\ pending = <<>> /\ now = 0
    /\ messages = Foreign /\ avail = DOMAIN Foreign
    /\ delivered = [m \in DOMAIN Foreign |-> 0]
    /\ wpc = [w \in Workers |-> "idle"] /\ job = [w \in Workers |-> None]
    /\ gpus = <<>> /\ telemetry = <<>>
    /\ rejected = {} /\ givenUp = {} /\ gpuFailed = {} /\ raced = {}
    /\ hpc = [h \in Handlers |-> "new"] /\ req = [h \in Handlers |-> None]
    /\ resp = [h \in Handlers |-> NoAnswer]
    /\ failures = 0

Fail == failures < MaxFailures /\ failures' = failures + 1

-----------------------------------------------------------------------------
(* streamFile: the whole file is read at one instant, then published.      *)

Tick ==
    /\ clock < MaxTime /\ clock' = clock + 1
    /\ UNCHANGED <<pending, now, queueVars, workVars, storeVars, hisVars, apiVars, failures>>

ReadFile(file) ==
    /\ pending = <<>> /\ now < clock /\ HeaderOK(file.header)
    /\ pending' = ReadAll(file)
    /\ now' = clock
    /\ UNCHANGED <<clock, queueVars, workVars, storeVars, hisVars, apiVars, failures>>

(* Start waits and tries the file again.                                   *)
ReadFileError(file) ==
    /\ pending = <<>> /\ now < clock /\ ~HeaderOK(file.header)
    /\ now' = clock
    /\ UNCHANGED <<clock, pending, queueVars, workVars, storeVars, hisVars, apiVars, failures>>

TimeNow == clock   \* mutant: every record gets its own time.Now()
Timestamp == now

(* The message of a record: telemetry with the batch's time, metadata.     *)
Message(r) == [uuid |-> r.uuid, metric |-> r.metric, value |-> r.value,
               host |-> r.host, pod |-> r.pod, time |-> Timestamp, batch |-> now]

PublishRecord ==
    /\ pending # <<>>
    /\ messages' = Append(messages, Message(Head(pending)))
    /\ avail' = avail \cup {Len(messages) + 1}
    /\ delivered' = Append(delivered, 0)
    /\ pending' = Tail(pending)
    /\ UNCHANGED <<clock, now, workVars, storeVars, hisVars, apiVars, failures>>

(* A publish that fails is logged and the record skipped.                  *)
PublishError ==
    /\ pending # <<>> /\ Fail
    /\ pending' = Tail(pending)
    /\ UNCHANGED <<clock, now, queueVars, workVars, storeVars, hisVars, apiVars>>

(* The streamer is cancelled or dies in the middle of a batch.             *)
BatchCut ==
    /\ pending # <<>> /\ Fail
    /\ pending' = <<>>
    /\ UNCHANGED <<clock, now, queueVars, workVars, storeVars, hisVars, apiVars>>

-----------------------------------------------------------------------------
(* A worker of the collector; processMessage step by step.                 *)

ValidTelemetry(msg) == msg.uuid # Empty /\ msg.metric # Empty /\ msg.time # 0

Take(m) == avail' = avail \ {m} /\ delivered' = [delivered EXCEPT ![m] = @ + 1]

Process(w, m) ==
    /\ wpc[w] = "idle" /\ m \in avail /\ Take(m) /\ ValidTelemetry(messages[m])
    /\ wpc' = [wpc EXCEPT ![w] = "gpu"] /\ job' = [job EXCEPT ![w] = m]
    /\ UNCHANGED <<readVars, messages, storeVars, hisVars, apiVars, failures>>

(* The payload does not unmarshal or validate: counted as an error.        *)
Reject(w, m) ==
    /\ wpc[w] = "idle" /\ m \in avail /\ Take(m) /\ ~ValidTelemetry(messages[m])
    /\ rejected' = rejected \cup {m}
    /\ UNCHANGED <<readVars, messages, workVars, storeVars, givenUp, gpuFailed, raced, apiVars, failures>>

(* A lost Ack, a Nack or a visibility timeout.                             *)
Redeliver(m) ==
    /\ m \in DOMAIN messages \ avail /\ Fail
    /\ avail' = avail \cup {m}
    /\ UNCHANGED <<readVars, messages, delivered, workVars, storeVars, hisVars, apiVars>>

Msg(w) == messages[job[w]]
To(w, pc) == wpc' = [wpc EXCEPT ![w] = pc]
Finish(w) == To(w, "idle") /\ job' = [job EXCEPT ![w] = None]

(* extractGPUFromMessage.                                                  *)
GPUOf(msg) == [uuid |-> msg.uuid, host |-> msg.host, pod |-> msg.pod]

(* gpuRepo.Store, an upsert: the document is there and is updated, or none *)
(* is found and the server goes on to insert.                              *)
StoreGPUFound(w) ==
    /\ wpc[w] = "gpu" /\ gpus' \in UpdateOne(gpus, GPUOf(Msg(w)))
    /\ To(w, "telemetry")
    /\ UNCHANGED <<readVars, queueVars, job, telemetry, hisVars, apiVars, failures>>

NoUpsert(w) ==   \* mutant: SetUpsert(true) is missing
    /\ wpc[w] = "gpu" /\ UpsertFilter(gpus, GPUOf(Msg(w))) = {}
    /\ To(w, "telemetry")
    /\ UNCHANGED <<readVars, queueVars, job, storeVars, hisVars, apiVars, failures>>

StoreGPUNotFound(w) ==
    LET others == {v \in Workers \ {w} : wpc[v] = "insert" /\ Msg(v).uuid = Msg(w).uuid}
    IN  /\ wpc[w] = "gpu" /\ UpsertFilter(gpus, GPUOf(Msg(w))) = {}
        /\ raced' = IF others = {} THEN raced ELSE raced \cup {Msg(w).uuid}
        /\ To(w, "insert")
        /\ UNCHANGED <<readVars, queueVars, job, storeVars, rejected, givenUp, gpuFailed, apiVars, failures>>

(* The GPU is in; on to the telemetry (mutant: processMessage returns).    *)
ReturnEarly(w) == Finish(w)
GoOn(w) == To(w, "telemetry") /\ UNCHANGED job

StoreGPUInsert(w) ==
    /\ wpc[w] = "insert"
    /\ gpus' = InsertOne(gpus, GPUOf(Msg(w)))
    /\ GoOn(w)
    /\ UNCHANGED <<readVars, queueVars, telemetry, hisVars, apiVars, failures>>

(* Store returns an error, perhaps after it took effect: non-fatal.        *)
StoreGPUError(w) ==
    /\ wpc[w] \in {"gpu", "insert"} /\ Fail
    /\ gpuFailed' = gpuFailed \cup {Msg(w).uuid}
    /\ gpus' \in {gpus} \cup IF wpc[w] = "insert" THEN {InsertOne(gpus, GPUOf(Msg(w)))}
                            ELSE UpdateOne(gpus, GPUOf(Msg(w)))
    /\ To(w, "telemetry")
    /\ UNCHANGED <<readVars, queueVars, job, telemetry, rejected, givenUp, raced, apiVars>>

PointOf(msg) == [gpu |-> msg.uuid, metric |-> msg.metric, value |-> msg.value,
                 date |-> ToDate(msg.time), batch |-> msg.batch]

StoreTelemetry(w) ==
    /\ wpc[w] = "telemetry"
    /\ telemetry' = InsertOne(telemetry, PointOf(Msg(w)))
    /\ Finish(w)
    /\ UNCHANGED <<readVars, queueVars, gpus, hisVars, apiVars, failures>>

(* An error, after which nothing is tried again; the point may be in.      *)
RetryInsert(w) ==   \* mutant: the insert is repeated after a lost reply
    /\ wpc[w] = "telemetry" /\ Fail
    /\ telemetry' = InsertOne(telemetry, PointOf(Msg(w)))
    /\ UNCHANGED <<readVars, queueVars, gpus, workVars, hisVars, apiVars>>

StoreTelemetryError(w) ==
    /\ wpc[w] = "telemetry" /\ Fail
    /\ telemetry' \in {telemetry, InsertOne(telemetry, PointOf(Msg(w)))}
    /\ givenUp' = givenUp \cup {job[w]}
    /\ Finish(w)
    /\ UNCHANGED <<readVars, queueVars, gpus, rejected, gpuFailed, raced, apiVars>>

(* The process ends; what its workers had in hand is gone.  A write that   *)
(* the server completes all the same is the worker's own step just before; *)
(* one that it completes only after the restart is left out.               *)
Crash ==
    /\ Fail
    /\ givenUp' = givenUp \cup {job[w] : w \in {v \in Workers : wpc[v] # "idle"}}
    /\ wpc' = [w \in Workers |-> "idle"] /\ job' = [w \in Workers |-> None]
    /\ UNCHANGED <<readVars, queueVars, storeVars, rejected, gpuFailed, raced, apiVars>>

-----------------------------------------------------------------------------
(* The API gateway.  A telemetry answer has all of a point but its batch.  *)

ToTelemetryResponse(p) == [gpu |-> p.gpu, metric |-> p.metric, value |-> p.value, date |-> p.date]
ToGPUResponse(gpu) == [uuid |-> gpu.uuid, host |-> gpu.host, pod |-> gpu.pod]

Answer(h, status, body) ==
    /\ hpc' = [hpc EXCEPT ![h] = "done"]
    /\ resp' = [resp EXCEPT ![h] = [status |-> status, body |-> body]]

(* GetGPUTelemetry's checks, before it looks for the GPU.                  *)
ParamsOK(r) ==
    /\ r.uuid \in WellFormed
    /\ r.start # Unparsable /\ r.end # Unparsable
    /\ NoBound \notin {r.start, r.end} => r.start <= r.end
    /\ r.limit # Unparsable
    /\ r.limit # NoBound => r.limit \in 1..MaxLimit

Receive(h, r) ==
    /\ hpc[h] = "new"
    /\ req' = [req EXCEPT ![h] = r]
    /\ \/ /\ r.path = "telemetry" /\ ~ParamsOK(r)
          /\ Answer(h, 400, <<>>)
       \/ /\ r.path = "telemetry" => ParamsOK(r)
          /\ hpc' = [hpc EXCEPT ![h] = IF r.path = "list" THEN "query" ELSE "lookup"]
          /\ UNCHANGED resp
    /\ UNCHANGED <<readVars, queueVars, workVars, storeVars, hisVars, failures>>

(* gpuRepo.GetByUUID of GetGPU and GetGPUTelemetry.                        *)
Lookup(h) ==
    LET uuid == req[h].uuid
    IN  /\ hpc[h] = "lookup"
        /\ \/ Matching(gpus, uuid) = {} /\ Answer(h, 404, <<>>)
           \/ /\ req[h].path = "get"
              /\ \E doc \in FindOne(gpus, uuid) : Answer(h, 200, <<ToGPUResponse(doc)>>)
           \/ /\ req[h].path = "telemetry" /\ Matching(gpus, uuid) # {}
              /\ hpc' = [hpc EXCEPT ![h] = "query"] /\ UNCHANGED resp
        /\ UNCHANGED <<req, readVars, queueVars, workVars, storeVars, hisVars, failures>>

(* telemetryRepo.GetByGPU, or gpuRepo.List, and the answer.                *)
Query(h) ==
    /\ hpc[h] = "query"
    /\ \/ req[h].path = "list" /\ Answer(h, 200, [i \in DOMAIN gpus |-> ToGPUResponse(gpus[i])])
       \/ /\ req[h].path = "telemetry"
          /\ \E points \in GetByGPU(telemetry, req[h].uuid, req[h]) :
               Answer(h, 200, [i \in DOMAIN points |-> ToTelemetryResponse(points[i])])
    /\ UNCHANGED <<req, readVars, queueVars, workVars, storeVars, hisVars, failures>>

RepositoryError(h) ==
    /\ hpc[h] \in {"lookup", "query"} /\ Fail
    /\ Answer(h, 500, <<>>)
    /\ UNCHANGED <<req, readVars, queueVars, workVars, storeVars, hisVars>>

-----------------------------------------------------------------------------
StreamerNext == \/ Tick \/ PublishRecord \/ PublishError \/ BatchCut
                \/ \E file \in Files : ReadFile(file) \/ ReadFileError(file)
WorkerStep(w) == \/ StoreGPUFound(w) \/ StoreGPUNotFound(w) \/ StoreGPUInsert(w)
                 \/ StoreGPUError(w) \/ StoreTelemetry(w) \/ StoreTelemetryError(w)
HandlerStep(h) == Lookup(h) \/ Query(h) \/ RepositoryError(h)

Next ==
    \/ StreamerNext
    \/ \E w \in Workers : WorkerStep(w) \/ \E m \in avail : Process(w, m) \/ Reject(w, m)
    \/ \E m \in DOMAIN messages : Redeliver(m)
    \/ Crash
    \/ \E h \in Handlers : HandlerStep(h) \/ \E r \in Requests : Receive(h, r)

Spec == Init /\ [][Next]_vars

-----------------------------------------------------------------------------
(* The batches, messages and documents have their types, only what was     *)
(* published can be delivered, and a busy worker has a message.            *)
TypeOK ==
    /\ clock \in Nat /\ now \in Nat
    /\ pending \in Seq(RecordType) /\ messages \in Seq(MessageType)
    /\ gpus \in Seq(GPUType) /\ telemetry \in Seq(PointType)
    /\ avail \subseteq DOMAIN messages /\ delivered \in [DOMAIN messages -> Nat]
    /\ wpc \in [Workers -> {"idle", "gpu", "insert", "telemetry"}]
    /\ \A w \in Workers : wpc[w] # "idle" => job[w] \in DOMAIN messages

(* The cells of the i-th row of a file under a column name.                *)
Under(f, i, name) ==
    {f.rows[i][k].text : k \in {c \in DOMAIN f.rows[i] : f.header[c].text = name}}

(* What the i-th row of a file says, and what the rows of all files say.   *)
RowOf(f, i) ==
    [uuid   |-> Under(f, i, "uuid") \ {Empty},
     metric |-> Under(f, i, "metric_name") \ {Empty},
     value  |-> Under(f, i, "value"),
     host   |-> Under(f, i, "Hostname"),
     pod    |-> IF Under(f, i, "pod") = {} THEN {Empty} ELSE Under(f, i, "pod")]

Rows == UNION {{RowOf(f, i) : i \in DOMAIN f.rows} : f \in Files}

(* What is stored was in a file: the uuid, metric and value of a point     *)
(* stand in one row, under the columns of those names, and its date is the *)
(* instant at which its batch was read, however much later it was          *)
(* published, delivered and stored; no skipped row and no message of       *)
(* another publisher without a uuid or a metric name gets into the         *)
(* database.                                                               *)
Traceable ==
    \A i \in DOMAIN telemetry : LET p == telemetry[i] IN
        /\ \E row \in Rows : p.gpu \in row.uuid /\ p.metric \in row.metric /\ p.value \in row.value
        /\ p.batch \in 1..now /\ p.date = ToDate(p.batch)

(* A GPU document describes the GPU as some one row does, also after       *)
(* updates from batches of another file: no mixture of old and new fields. *)
GPUFromOneRow ==
    \A i \in DOMAIN gpus : \E row \in Rows :
        gpus[i].uuid \in row.uuid /\ gpus[i].host \in row.host /\ gpus[i].pod \in row.pod

(* The collector refuses nothing that a streamer published: the parser's   *)
(* checks imply those of validateTelemetry.                                *)
NeverRejected == rejected \subseteq DOMAIN Foreign

(* Between file and database nothing is made up, mixed or refused.         *)
FaithfulToFile == Traceable /\ GPUFromOneRow /\ NeverRejected

(* Stored telemetry is within reach of the API, which answers 404 without  *)
(* a GPU document: the document is there first, unless its store failed.   *)
TelemetryHasGPU ==
    \A i \in DOMAIN telemetry :
        Matching(gpus, telemetry[i].gpu) # {} \/ telemetry[i].gpu \in gpuFailed

(* "List returns all GPUs that have telemetry data": a listed GPU without  *)
(* any is being stored right now, or its telemetry was given up after an   *)
(* error or a crash.                                                       *)
ListedHasTelemetry ==
    \A i \in DOMAIN gpus : LET u == gpus[i].uuid IN
        \/ \E j \in DOMAIN telemetry : telemetry[j].gpu = u
        \/ \E w \in Workers : wpc[w] # "idle" /\ Msg(w).uuid = u
        \/ \E m \in givenUp : messages[m].uuid = u

(* A GPU has one document, although nothing makes uuid unique in the       *)
(* collection, unless two workers upserted it at once for the first time.  *)
OneDocPerGPU ==
    \A i, j \in DOMAIN gpus : gpus[i].uuid = gpus[j].uuid => i = j \/ gpus[i].uuid \in raced

(* The deliveries of the messages that make the point p: the k-th of m.    *)
Deliveries(p) ==
    UNION {{m} \X (1..delivered[m]) : m \in {k \in DOMAIN messages : PointOf(messages[k]) = p}}

(* A message is stored at most as often as it was delivered, also when the *)
(* reply to an insert is lost; rows that make equal points count together. *)
StoredPerDelivery ==
    \A i \in DOMAIN telemetry :
        Occurrences(telemetry[i], telemetry) <= Cardinality(Deliveries(telemetry[i]))

TelemetryAnswered(h) == /\ hpc[h] = "query" /\ hpc'[h] = "done"
                        /\ req[h].path = "telemetry" /\ resp'[h].status = 200

(* An answer holds stored points of the GPU that was asked for, newest     *)
(* first, and none whose exact time lies a millisecond or more outside the *)
(* window; dates and bounds are both cut to milliseconds, so a point may   *)
(* lie outside by less.                                                    *)
QuerySound(r, body) ==
    /\ \A i \in DOMAIN body : \E j \in DOMAIN telemetry :
         /\ ToTelemetryResponse(telemetry[j]) = body[i]
         /\ body[i].gpu = r.uuid
         /\ r.start # NoBound => telemetry[j].batch > r.start - Resolution
         /\ r.end # NoBound => telemetry[j].batch < r.end + Resolution
    /\ \A i, j \in DOMAIN body : i < j => body[i].date >= body[j].date

(* An answer omits no point whose exact time is within the window, except  *)
(* when the limit is reached with points that are at least as new.         *)
QueryComplete(r, body) ==
    LET Alike(p) == Cardinality({j \in DOMAIN telemetry :
                        ToTelemetryResponse(telemetry[j]) = ToTelemetryResponse(p)})
    IN  \A i \in DOMAIN telemetry : LET p == telemetry[i] IN
          /\ p.gpu = r.uuid
          /\ r.start # NoBound => r.start <= p.batch
          /\ r.end # NoBound => p.batch <= r.end
          => \/ Occurrences(ToTelemetryResponse(p), body) = Alike(p)
             \/ Len(body) = r.limit /\ \A j \in DOMAIN body : body[j].date >= p.date

(* An answer of GetGPUTelemetry is what the window asks for, up to the     *)
(* millisecond a BSON date keeps.                                          *)
AnswersExact ==
    [][\A h \in Handlers : TelemetryAnswered(h) =>
          QuerySound(req[h], resp'[h].body) /\ QueryComplete(req[h], resp'[h].body)]_vars

=============================================================================
