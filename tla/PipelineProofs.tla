--------------------------- MODULE PipelineProofs ---------------------------
(***************************************************************************)
(* Proofs about Pipeline, for any files, workers, handlers and requests,   *)
(* and any number of batches, failures and redeliveries.                   *)
(***************************************************************************)
EXTENDS Pipeline, ListTheorems

(* Types, and what a worker is working on.                                 *)
Types ==
    /\ clock \in Nat /\ now \in Nat
    /\ pending \in Seq(RecordType) /\ messages \in Seq(MessageType)
    /\ gpus \in Seq(GPUType) /\ telemetry \in Seq(PointType)
    /\ avail \subseteq DOMAIN messages /\ delivered \in [DOMAIN messages -> Nat]
    /\ wpc \in [Workers -> {"idle", "gpu", "insert", "telemetry"}]
    /\ job \in [Workers -> Nat \cup {None}]
    /\ \A w \in Workers : wpc[w] # "idle" =>
          job[w] \in DOMAIN messages /\ ValidTelemetry(messages[job[w]])

(* A message that validates has the time of its batch, and so have points. *)
Stamped ==
    /\ \A m \in DOMAIN messages :
          ValidTelemetry(messages[m]) => messages[m].time = messages[m].batch
    /\ \A i \in DOMAIN telemetry : telemetry[i].date = ToDate(telemetry[i].batch)

(* Who stores telemetry has seen to its GPU.                               *)
HasGPU(u) == Matching(gpus, u) # {} \/ u \in gpuFailed
WorkersHaveGPU == \A w \in Workers : wpc[w] = "telemetry" => HasGPU(Msg(w).uuid)
GPUInv == WorkersHaveGPU /\ TelemetryHasGPU

(* Two workers about to insert one uuid are known to race; so is one that  *)
(* is about to insert what is there by now.                                *)
InsertersRace ==
    \A w \in Workers : wpc[w] = "insert" =>
        /\ Matching(gpus, Msg(w).uuid) # {} => Msg(w).uuid \in raced
        /\ \A v \in Workers : v # w /\ wpc[v] = "insert" /\ Msg(v).uuid = Msg(w).uuid
               => Msg(w).uuid \in raced
DocInv == InsertersRace /\ OneDocPerGPU

Inv == Types /\ Stamped /\ GPUInv /\ DocInv

USE DEF readVars, queueVars, workVars, storeVars, hisVars, apiVars

-----------------------------------------------------------------------------
(* The parser.                                                             *)

(* ParseHeader's index of a column is that of some column of the name.     *)
LEMMA ColumnIndex ==
    ASSUME NEW header \in Seq(CellType), NEW name, Named(header, name) # {}
    PROVE  /\ name \in DOMAIN HeaderMap(header)
           /\ HeaderMap(header)[name] \in Named(header, name)
<1> DEFINE S == Named(header, name)
<1>1. Len(header) \in Nat /\ DOMAIN header = 1..Len(header)
  OBVIOUS
<1>2. S \subseteq 0..Len(header)
  BY <1>1 DEF Named
<1>3. \E n \in S : \A k \in S : n >= k
  BY <1>1, <1>2, Greatest
<1>4. Max(S) \in S
  BY <1>3 DEF Max
<1>5. name \in {TrimSpace(header[i]) : i \in DOMAIN header}
  BY DEF Named
<1> QED BY <1>4, <1>5 DEF HeaderMap

(* What a column of an accepted row says stands in the row under the name  *)
(* of the column; a column that is not there says nothing.                 *)
LEMMA ColumnText ==
    ASSUME NEW f \in FileType, NEW i \in GoodRows(f), NEW name
    PROVE  /\ GetCol(f.header, f.rows[i], name) \in Texts
           /\ IF Named(f.header, name) = {}
              THEN GetCol(f.header, f.rows[i], name) = Empty /\ Under(f, i, name) = {}
              ELSE GetCol(f.header, f.rows[i], name) \in Under(f, i, name)
<1> DEFINE header == f.header
           row == f.rows[i]
<1>1. header \in Seq(CellType) /\ row \in Seq(CellType) /\ Len(row) = Len(header)
  BY DEF FileType, GoodRows, Accepted, FieldCountOK
<1>2. DOMAIN row = 1..Len(row) /\ DOMAIN header = 1..Len(header) /\ Len(row) \in Nat
  BY <1>1
<1>3. CASE Named(header, name) = {}
  <2>1. name \notin DOMAIN HeaderMap(header)
    BY <1>3 DEF HeaderMap, Named
  <2>2. GetCol(header, row, name) = Empty
    BY <2>1 DEF GetCol
  <2>3. Under(f, i, name) = {}
    BY <1>1, <1>2, <1>3 DEF Under, Named, TrimSpace
  <2> QED BY <1>3, <2>2, <2>3, TextAssumption
<1>4. CASE Named(header, name) # {}
  <2> DEFINE k == HeaderMap(header)[name]
  <2>1. name \in DOMAIN HeaderMap(header) /\ k \in Named(header, name)
    BY <1>1, <1>4, ColumnIndex
  <2> HIDE DEF k
  <2>2. k \in 1..Len(row) /\ header[k].text = name
    BY <1>1, <1>2, <2>1 DEF Named, TrimSpace
  <2>3. GetCol(header, row, name) = row[k].text
    BY <1>2, <2>1, <2>2 DEF GetCol, TrimSpace, k
  <2>4. row[k] \in CellType
    BY <1>1, <1>2, <2>2
  <2>5. row[k].text \in Under(f, i, name)
    BY <1>2, <2>2 DEF Under
  <2> QED BY <1>4, <2>3, <2>4, <2>5 DEF CellType
<1> QED BY <1>3, <1>4

(* Every record of a file is made from an accepted row.                    *)
LEMMA ReadRows ==
    ASSUME NEW f \in FileType
    PROVE  \E n \in Nat : \E o \in [1..n -> GoodRows(f)] :
              ReadAll(f) = [i \in 1..n |-> ToRecord(f.header, f.rows[o[i]])]
<1> DEFINE S == GoodRows(f)
<1>1. f.rows \in Seq(Seq(CellType))
  BY DEF FileType
<1>2. Len(f.rows) \in Nat /\ DOMAIN f.rows = 1..Len(f.rows)
  BY <1>1
<1>3. S \subseteq 0..Len(f.rows)
  BY <1>2 DEF GoodRows
<1>4. Cardinality(S) \in Nat
  <2>1. IsFiniteSet(0..Len(f.rows))
    BY <1>2, FS_Interval
  <2> QED BY <1>3, <2>1, FS_Subset, FS_CardinalityType
<1>5. \E o \in [1..Cardinality(S) -> S] : Increasing(o)
  BY <1>2, <1>3, CanBeListed
<1>6. InOrder(S) \in [1..Cardinality(S) -> S]
  BY <1>5 DEF InOrder
<1> QED BY <1>4, <1>6 DEF ReadAll

LEMMA ReadTypes ==
    ASSUME NEW f \in FileType
    PROVE  ReadAll(f) \in Seq(RecordType)
<1>0. PICK n \in Nat : \E o \in [1..n -> GoodRows(f)] :
         ReadAll(f) = [i \in 1..n |-> ToRecord(f.header, f.rows[o[i]])]
  BY ReadRows
<1>1. PICK o \in [1..n -> GoodRows(f)] :
         ReadAll(f) = [i \in 1..n |-> ToRecord(f.header, f.rows[o[i]])]
  BY <1>0
<1>2. ASSUME NEW i \in 1..n PROVE ToRecord(f.header, f.rows[o[i]]) \in RecordType
  BY <1>1, ColumnText DEF ToRecord, RecordType
<1>3. \A i \in 1..n : ToRecord(f.header, f.rows[o[i]]) \in RecordType
  BY <1>2
<1>4. ReadAll(f) \in [1..n -> RecordType]
  BY <1>1, <1>3
<1> QED BY <1>4

-----------------------------------------------------------------------------
(* Collections.                                                            *)

(* What Append does, index by index.                                       *)
LEMMA Grown ==
    ASSUME NEW S, NEW q \in Seq(S), NEW x \in S
    PROVE  /\ Append(q, x) \in Seq(S)
           /\ DOMAIN Append(q, x) = DOMAIN q \cup {Len(q) + 1} /\ Len(q) + 1 \notin DOMAIN q
           /\ \A i \in DOMAIN q : Append(q, x)[i] = q[i]
           /\ Append(q, x)[Len(q) + 1] = x
OBVIOUS

(* An update leaves every document its uuid.                               *)
LEMMA UpdateKeeps ==
    ASSUME NEW coll \in Seq(GPUType), NEW gpu \in GPUType, NEW c \in UpdateOne(coll, gpu)
    PROVE  /\ c \in Seq(GPUType) /\ DOMAIN c = DOMAIN coll
           /\ \A i \in DOMAIN coll : c[i].uuid = coll[i].uuid
           /\ \A u : Matching(c, u) = Matching(coll, u)
           /\ Matching(coll, gpu.uuid) # {}
<1>1. PICK i \in DOMAIN coll : coll[i].uuid = gpu.uuid /\ c = [coll EXCEPT ![i] = gpu]
  BY DEF UpdateOne, UpsertFilter, Matching, SetAll
<1>2. c \in Seq(GPUType) /\ DOMAIN c = DOMAIN coll
  BY <1>1
<1>3. \A j \in DOMAIN coll : c[j].uuid = coll[j].uuid
  BY <1>1
<1>4. \A u : Matching(c, u) = Matching(coll, u)
  BY <1>2, <1>3 DEF Matching
<1> QED BY <1>1, <1>2, <1>3, <1>4 DEF Matching

(* An insert adds one document and hides none.                             *)
LEMMA InsertAdds ==
    ASSUME NEW coll \in Seq(GPUType), NEW gpu \in GPUType
    PROVE  LET c == InsertOne(coll, gpu) IN
           /\ c \in Seq(GPUType)
           /\ \A u : Matching(coll, u) # {} => Matching(c, u) # {}
           /\ \A u : u # gpu.uuid => Matching(c, u) = Matching(coll, u)
           /\ Matching(c, gpu.uuid) # {}
BY Grown DEF InsertOne, Matching

(* A BSON date is a natural number like the instant it is made from.       *)
LEMMA DateNat == ASSUME NEW t \in Nat PROVE ToDate(t) \in Nat
BY ResolutionAssumption DEF ToDate

(* The documents of a message are well typed.                              *)
LEMMA DocumentTypes ==
    ASSUME NEW msg \in MessageType
    PROVE  GPUOf(msg) \in GPUType /\ PointOf(msg) \in PointType /\ GPUOf(msg).uuid = msg.uuid
           /\ PointOf(msg).gpu = msg.uuid
BY DateNat DEF MessageType, GPUType, PointType, GPUOf, PointOf

LEMMA InvInit == Init => Inv
<1> SUFFICES ASSUME Init PROVE Inv
  OBVIOUS
<1>1. <<>> \in Seq(RecordType) /\ <<>> \in Seq(GPUType) /\ <<>> \in Seq(PointType)
  BY EmptyList
<1>2. Types BY <1>1, ForeignAssumption DEF Init, Types
<1>3. Stamped BY ForeignAssumption DEF Init, Stamped, ValidTelemetry
<1>4. GPUInv BY DEF Init, GPUInv, WorkersHaveGPU, TelemetryHasGPU
<1>5. DocInv BY DEF Init, DocInv, InsertersRace, OneDocPerGPU
<1> QED BY <1>2, <1>3, <1>4, <1>5 DEF Inv

-----------------------------------------------------------------------------
(* Steps that change neither messages, workers nor collections.            *)
LEMMA QuietStep ==
    ASSUME Inv, UNCHANGED <<messages, wpc, job, gpus, telemetry, gpuFailed, raced>>,
           clock' \in Nat, now' \in Nat, pending' \in Seq(RecordType),
           avail' \subseteq DOMAIN messages, delivered' \in [DOMAIN messages -> Nat]
    PROVE  Inv'
<1>1. Types' BY DEF Inv, Types
<1>2. Stamped' BY DEF Inv, Stamped
<1>3. GPUInv' BY DEF Inv, GPUInv, WorkersHaveGPU, TelemetryHasGPU, HasGPU, Msg
<1>4. DocInv' BY DEF Inv, DocInv, InsertersRace, OneDocPerGPU, Msg
<1> QED BY <1>1, <1>2, <1>3, <1>4 DEF Inv

(* The streamer.                                                           *)
LEMMA StreamerStep == ASSUME Inv, StreamerNext PROVE Inv'
<1>1. CASE Tick
  BY <1>1, QuietStep DEF Tick, Inv, Types
<1>2. CASE \E file \in Files : ReadFile(file)
  BY <1>2, QuietStep, FileAssumption, ReadTypes DEF ReadFile, Inv, Types
<1>3. CASE \E file \in Files : ReadFileError(file)
  BY <1>3, QuietStep DEF ReadFileError, Inv, Types
<1>4. CASE PublishError
  BY <1>4, QuietStep, PopType DEF PublishError, Inv, Types
<1>5. CASE PublishRecord
  <2> DEFINE msg == Message(Head(pending))
  <2>1. Head(pending) \in RecordType /\ Tail(pending) \in Seq(RecordType)
    BY <1>5, PopType DEF PublishRecord, Inv, Types
  <2>2. msg \in MessageType /\ msg.time = msg.batch
    BY <2>1 DEF Message, Timestamp, RecordType, MessageType, Inv, Types
  <2> HIDE DEF msg
  <2>3. messages \in Seq(MessageType) /\ messages' = Append(messages, msg)
    BY <1>5 DEF PublishRecord, Inv, Types, msg
  <2>4. /\ messages' \in Seq(MessageType)
        /\ DOMAIN messages' = DOMAIN messages \cup {Len(messages) + 1}
        /\ \A i \in DOMAIN messages : messages'[i] = messages[i]
        /\ messages'[Len(messages) + 1] = msg
    BY <2>2, <2>3, Grown
  <2>d. delivered' \in [DOMAIN messages' -> Nat]
    <3>1. delivered \in [1..Len(messages) -> Nat] /\ Len(messages) \in Nat
      BY DEF Inv, Types
    <3>2. delivered \in Seq(Nat) /\ Len(delivered) = Len(messages)
      BY <3>1
    <3>3. Append(delivered, 0) \in Seq(Nat) /\ Len(Append(delivered, 0)) = Len(messages) + 1
      BY <3>2
    <3>4. Append(delivered, 0) \in [1..Len(messages) + 1 -> Nat]
      <4>1. ASSUME NEW s \in Seq(Nat) PROVE s \in [1..Len(s) -> Nat]
        OBVIOUS
      <4> QED BY <3>3, <4>1
    <3>5. DOMAIN messages' = 1..Len(messages) + 1
      BY <2>2, <2>3
    <3> QED BY <1>5, <3>4, <3>5 DEF PublishRecord
  <2>5. Types'
    BY <1>5, <2>1, <2>4, <2>d DEF PublishRecord, Inv, Types
  <2>6. Stamped'
    BY <1>5, <2>2, <2>4 DEF PublishRecord, Inv, Stamped
  <2>7. \A w \in Workers : wpc[w] # "idle" => Msg(w)' = Msg(w)
    BY <1>5, <2>4 DEF PublishRecord, Inv, Types, Msg
  <2>8. GPUInv'
    BY <1>5, <2>7 DEF PublishRecord, Inv, GPUInv, WorkersHaveGPU, TelemetryHasGPU, HasGPU
  <2>9. DocInv'
    BY <1>5, <2>7 DEF PublishRecord, Inv, DocInv, InsertersRace, OneDocPerGPU
  <2> QED BY <2>5, <2>6, <2>8, <2>9 DEF Inv
<1>6. CASE BatchCut
  BY <1>6, QuietStep, EmptyList DEF BatchCut, Inv, Types
<1> QED BY <1>1, <1>2, <1>3, <1>4, <1>5, <1>6 DEF StreamerNext

-----------------------------------------------------------------------------
(* Taking up a message, and giving everything up.                          *)
LEMMA TakeStep ==
    ASSUME Inv, NEW w \in Workers, NEW m \in avail, Process(w, m) \/ Reject(w, m)
    PROVE  Inv'
<1>1. CASE Reject(w, m)
  BY <1>1, QuietStep DEF Reject, Take, Inv, Types
<1>2. CASE Process(w, m)
  <2> USE <1>2 DEF Process
  <2>d. avail' \subseteq DOMAIN messages /\ delivered' \in [DOMAIN messages -> Nat]
    BY DEF Inv, Types, Take
  <2>1. Types' BY <2>d DEF Inv, Types
  <2>2. Stamped' BY DEF Inv, Stamped
  <2>3. \A v \in Workers : wpc'[v] # "gpu" => wpc'[v] = wpc[v] /\ Msg(v)' = Msg(v)
    BY DEF Inv, Types, Msg
  <2>4. GPUInv' BY <2>3 DEF Inv, GPUInv, WorkersHaveGPU, TelemetryHasGPU, HasGPU
  <2>5. DocInv' BY <2>3 DEF Inv, DocInv, InsertersRace, OneDocPerGPU
  <2> QED BY <2>1, <2>2, <2>4, <2>5 DEF Inv
<1> QED BY <1>1, <1>2

LEMMA CrashStep == ASSUME Inv, Crash PROVE Inv'
<1> USE DEF Crash
<1>1. Types' BY DEF Inv, Types
<1>2. Stamped' BY DEF Inv, Stamped
<1>3. GPUInv' BY DEF Inv, GPUInv, WorkersHaveGPU, TelemetryHasGPU, HasGPU
<1>4. DocInv' BY DEF Inv, DocInv, InsertersRace, OneDocPerGPU
<1> QED BY <1>1, <1>2, <1>3, <1>4 DEF Inv

-----------------------------------------------------------------------------
(* The stores.  A worker in the middle of a message works on a valid one.  *)
LEMMA WorkerMessage ==
    ASSUME Inv, NEW w \in Workers, wpc[w] # "idle"
    PROVE  /\ Msg(w) \in MessageType /\ Msg(w).time = Msg(w).batch
           /\ GPUOf(Msg(w)) \in GPUType /\ GPUOf(Msg(w)).uuid = Msg(w).uuid
           /\ PointOf(Msg(w)) \in PointType /\ PointOf(Msg(w)).gpu = Msg(w).uuid
<1>1. Msg(w) \in MessageType /\ Msg(w).time = Msg(w).batch
  BY DEF Inv, Types, Stamped, Msg
<1> QED BY <1>1, DocumentTypes

(* The document was found and updated.                                     *)
LEMMA UpdateStep ==
    ASSUME Inv, NEW w \in Workers, wpc[w] = "gpu", gpus' \in UpdateOne(gpus, GPUOf(Msg(w))),
           wpc' = [wpc EXCEPT ![w] = "telemetry"], gpuFailed \subseteq gpuFailed',
           UNCHANGED <<readVars, messages, avail, delivered, job, telemetry, raced>>
    PROVE  Inv'
<1>1. GPUOf(Msg(w)) \in GPUType /\ GPUOf(Msg(w)).uuid = Msg(w).uuid
  BY WorkerMessage
<1>2. /\ gpus' \in Seq(GPUType) /\ DOMAIN gpus' = DOMAIN gpus
      /\ \A i \in DOMAIN gpus : gpus'[i].uuid = gpus[i].uuid
      /\ \A u : Matching(gpus', u) = Matching(gpus, u)
      /\ Matching(gpus, Msg(w).uuid) # {}
  BY <1>1, UpdateKeeps DEF Inv, Types
<1>3. Types' BY <1>2 DEF Inv, Types
<1>4. Stamped' BY DEF Inv, Stamped
<1>5. \A v \in Workers : Msg(v)' = Msg(v) /\ (v # w => wpc'[v] = wpc[v]) /\ wpc'[w] = "telemetry"
  BY DEF Inv, Types, Msg
<1>6. GPUInv' BY <1>2, <1>5 DEF Inv, GPUInv, WorkersHaveGPU, TelemetryHasGPU, HasGPU
<1>7. DocInv' BY <1>2, <1>5 DEF Inv, DocInv, InsertersRace, OneDocPerGPU
<1> QED BY <1>3, <1>4, <1>6, <1>7 DEF Inv

(* No document was found, and one is inserted.                             *)
LEMMA InsertStep ==
    ASSUME Inv, NEW w \in Workers, wpc[w] = "insert", gpus' = InsertOne(gpus, GPUOf(Msg(w))),
           wpc' = [wpc EXCEPT ![w] = "telemetry"], gpuFailed \subseteq gpuFailed',
           UNCHANGED <<readVars, messages, avail, delivered, job, telemetry, raced>>
    PROVE  Inv'
<1> DEFINE gpu == GPUOf(Msg(w))
<1>1. gpu \in GPUType /\ gpu.uuid = Msg(w).uuid /\ gpus \in Seq(GPUType)
  BY WorkerMessage DEF Inv, Types
<1> HIDE DEF gpu
<1>2. /\ gpus' \in Seq(GPUType)
      /\ \A u : Matching(gpus, u) # {} => Matching(gpus', u) # {}
      /\ \A u : u # gpu.uuid => Matching(gpus', u) = Matching(gpus, u)
      /\ Matching(gpus', gpu.uuid) # {}
  BY <1>1, InsertAdds DEF gpu
<1>3. /\ DOMAIN gpus' = DOMAIN gpus \cup {Len(gpus) + 1}
      /\ \A i \in DOMAIN gpus : gpus'[i] = gpus[i]
      /\ gpus'[Len(gpus) + 1] = gpu
  BY <1>1, Grown DEF InsertOne, gpu
<1>4. Types' BY <1>2 DEF Inv, Types
<1>5. Stamped' BY DEF Inv, Stamped
<1>6. \A v \in Workers : Msg(v)' = Msg(v) /\ (v # w => wpc'[v] = wpc[v]) /\ wpc'[w] = "telemetry"
  BY DEF Inv, Types, Msg
<1>7. GPUInv'
  BY <1>1, <1>2, <1>6 DEF Inv, GPUInv, WorkersHaveGPU, TelemetryHasGPU, HasGPU
<1>8. InsertersRace'
  BY <1>1, <1>2, <1>6 DEF Inv, DocInv, InsertersRace
<1>9. \A i \in DOMAIN gpus : gpus[i].uuid = gpu.uuid => gpu.uuid \in raced
  BY <1>1 DEF Inv, DocInv, InsertersRace, Matching
<1>10. OneDocPerGPU'
  BY <1>3, <1>9 DEF Inv, DocInv, OneDocPerGPU
<1> QED BY <1>4, <1>5, <1>7, <1>8, <1>10 DEF Inv, DocInv

(* A failed store of the GPU that had no effect.                           *)
LEMMA GPUFailedStep ==
    ASSUME Inv, NEW w \in Workers, wpc[w] \in {"gpu", "insert"},
           wpc' = [wpc EXCEPT ![w] = "telemetry"], gpuFailed' = gpuFailed \cup {Msg(w).uuid},
           UNCHANGED <<readVars, messages, avail, delivered, job, gpus, telemetry, raced>>
    PROVE  Inv'
<1>1. Types' BY DEF Inv, Types
<1>2. Stamped' BY DEF Inv, Stamped
<1>3. \A v \in Workers : Msg(v)' = Msg(v) /\ (v # w => wpc'[v] = wpc[v]) /\ wpc'[w] = "telemetry"
  BY DEF Inv, Types, Msg
<1>4. GPUInv' BY <1>3 DEF Inv, GPUInv, WorkersHaveGPU, TelemetryHasGPU, HasGPU
<1>5. DocInv' BY <1>3 DEF Inv, DocInv, InsertersRace, OneDocPerGPU
<1> QED BY <1>1, <1>2, <1>4, <1>5 DEF Inv

(* No document was found.                                                  *)
LEMMA NotFoundStep == ASSUME Inv, NEW w \in Workers, StoreGPUNotFound(w) PROVE Inv'
<1> USE DEF StoreGPUNotFound, To
<1>1. Types' BY DEF Inv, Types
<1>2. Stamped' BY DEF Inv, Stamped
<1>3. \A v \in Workers : Msg(v)' = Msg(v) /\ (v # w => wpc'[v] = wpc[v]) /\ wpc'[w] = "insert"
  BY DEF Inv, Types, Msg
<1>4. GPUInv' BY <1>3 DEF Inv, GPUInv, WorkersHaveGPU, TelemetryHasGPU, HasGPU
<1>5. Matching(gpus, Msg(w).uuid) = {}
  BY WorkerMessage DEF UpsertFilter
<1>6. raced \subseteq raced'
  OBVIOUS
<1>7. ASSUME NEW v \in Workers, v # w, wpc[v] = "insert", Msg(v).uuid = Msg(w).uuid
      PROVE  Msg(w).uuid \in raced'
  BY <1>7
<1>8. InsertersRace'
  BY <1>3, <1>5, <1>6, <1>7 DEF Inv, DocInv, InsertersRace
<1>9. OneDocPerGPU'
  BY <1>6 DEF Inv, DocInv, OneDocPerGPU
<1> QED BY <1>1, <1>2, <1>4, <1>8, <1>9 DEF Inv, DocInv

(* The worker is done, with or without the point in the collection.        *)
LEMMA FinishStep ==
    ASSUME Inv, NEW w \in Workers, wpc[w] = "telemetry", Finish(w),
           telemetry' \in {telemetry, InsertOne(telemetry, PointOf(Msg(w)))},
           UNCHANGED <<readVars, messages, avail, delivered, gpus, gpuFailed, raced>>
    PROVE  Inv'
<1> DEFINE point == PointOf(Msg(w))
<1>1. point \in PointType /\ telemetry \in Seq(PointType) /\ point.gpu = Msg(w).uuid
  BY WorkerMessage DEF Inv, Types
<1>2. point.date = ToDate(point.batch)
  BY WorkerMessage DEF PointOf
<1> HIDE DEF point
<1>3. /\ telemetry' \in Seq(PointType)
      /\ \A i \in DOMAIN telemetry' :
            \/ i \in DOMAIN telemetry /\ telemetry'[i] = telemetry[i]
            \/ telemetry'[i] = point
  BY <1>1, Grown DEF InsertOne, point
<1>4. Types' BY <1>3 DEF Inv, Types, Finish, To
<1>5. Stamped' BY <1>2, <1>3 DEF Inv, Stamped
<1>6. \A v \in Workers : wpc'[v] # "idle" => wpc'[v] = wpc[v] /\ Msg(v)' = Msg(v)
  BY DEF Inv, Types, Msg, Finish, To
<1>7. HasGPU(point.gpu)
  BY <1>1 DEF Inv, GPUInv, WorkersHaveGPU
<1>8. GPUInv'
  BY <1>3, <1>6, <1>7 DEF Inv, GPUInv, WorkersHaveGPU, TelemetryHasGPU, HasGPU
<1>9. DocInv' BY <1>6 DEF Inv, DocInv, InsertersRace, OneDocPerGPU
<1> QED BY <1>4, <1>5, <1>8, <1>9 DEF Inv

LEMMA StoreStep == ASSUME Inv, NEW w \in Workers, WorkerStep(w) PROVE Inv'
<1>1. CASE StoreGPUFound(w)
  BY <1>1, UpdateStep DEF StoreGPUFound, To
<1>2. CASE StoreGPUNotFound(w)
  BY <1>2, NotFoundStep
<1>3. CASE StoreGPUInsert(w)
  BY <1>3, InsertStep DEF StoreGPUInsert, GoOn, To
<1>4. CASE StoreGPUError(w)
  <2>1. CASE gpus' = gpus
    BY <1>4, <2>1, GPUFailedStep DEF StoreGPUError, To
  <2>2. CASE wpc[w] = "insert" /\ gpus' = InsertOne(gpus, GPUOf(Msg(w)))
    BY <1>4, <2>2, InsertStep DEF StoreGPUError, To
  <2>3. CASE wpc[w] = "gpu" /\ gpus' \in UpdateOne(gpus, GPUOf(Msg(w)))
    BY <1>4, <2>3, UpdateStep DEF StoreGPUError, To
  <2> QED BY <1>4, <2>1, <2>2, <2>3 DEF StoreGPUError
<1>5. CASE StoreTelemetry(w)
  BY <1>5, FinishStep DEF StoreTelemetry
<1>6. CASE StoreTelemetryError(w)
  BY <1>6, FinishStep DEF StoreTelemetryError
<1> QED BY <1>1, <1>2, <1>3, <1>4, <1>5, <1>6 DEF WorkerStep

LEMMA InvStep == Inv /\ [Next]_vars => Inv'
<1> SUFFICES ASSUME Inv, [Next]_vars PROVE Inv'
  OBVIOUS
<1>1. CASE StreamerNext BY <1>1, StreamerStep
<1>2. CASE \E w \in Workers : WorkerStep(w) BY <1>2, StoreStep
<1>3. CASE \E w \in Workers, m \in avail : Process(w, m) \/ Reject(w, m) BY <1>3, TakeStep
<1>4. CASE \E m \in DOMAIN messages : Redeliver(m)
  BY <1>4, QuietStep DEF Redeliver, Inv, Types
<1>5. CASE Crash BY <1>5, CrashStep
<1>6. CASE \E h \in Handlers : HandlerStep(h) \/ \E r \in Requests : Receive(h, r)
  <2>1. UNCHANGED <<readVars, queueVars, workVars, storeVars, hisVars>>
    BY <1>6 DEF HandlerStep, Lookup, Query, RepositoryError, Receive
  <2> QED BY <2>1, QuietStep DEF Inv, Types
<1>7. CASE UNCHANGED vars
  BY <1>7, QuietStep DEF vars, Inv, Types
<1> QED BY <1>1, <1>2, <1>3, <1>4, <1>5, <1>6, <1>7 DEF Next

-----------------------------------------------------------------------------
(* Batches, messages and documents keep their types, and a busy worker its *)
(* message.                                                                *)
THEOREM PipelineTypes == Spec => []TypeOK
<1>1. Inv => TypeOK BY DEF Inv, Types, TypeOK
<1> QED BY <1>1, InvInit, InvStep, PTL DEF Spec

(* Stored telemetry has its GPU document, so that the API finds it, unless *)
(* the store of the GPU failed, which processMessage does not treat as an  *)
(* error; for any interleaving of workers, redeliveries and crashes.       *)
THEOREM StoredIsReachable == Spec => []TelemetryHasGPU
<1>1. Inv => TelemetryHasGPU BY DEF Inv, GPUInv
<1> QED BY <1>1, InvInit, InvStep, PTL DEF Spec

(* Upserts by uuid keep one document for a GPU, without a unique index,    *)
(* unless two first upserts of it overlap in the server.                   *)
THEOREM DocumentsUnique == Spec => []OneDocPerGPU
<1>1. Inv => OneDocPerGPU BY DEF Inv, DocInv
<1> QED BY <1>1, InvInit, InvStep, PTL DEF Spec

-----------------------------------------------------------------------------
(* A GPU that is listed has telemetry, or a worker on its way to store     *)
(* some, or one that gave up.                                              *)
Accounted(u) ==
    \/ \E j \in DOMAIN telemetry : telemetry[j].gpu = u
    \/ \E w \in Workers : wpc[w] # "idle" /\ Msg(w).uuid = u
    \/ \E m \in givenUp : messages[m].uuid = u

ListedInv ==
    /\ givenUp \subseteq DOMAIN messages
    /\ \A i \in DOMAIN gpus : Accounted(gpus[i].uuid)

(* What a step may do to the documents and to what accounts for them.      *)
LEMMA ListedKept ==
    ASSUME ListedInv, givenUp' \subseteq DOMAIN messages',
           \A u : (\E i \in DOMAIN gpus' : gpus'[i].uuid = u)
                    => Accounted(u)' \/ \E k \in DOMAIN gpus : gpus[k].uuid = u,
           \A u : Accounted(u) => Accounted(u)'
    PROVE  ListedInv'
<1>1. ASSUME NEW i \in DOMAIN gpus', NEW u, u = gpus'[i].uuid PROVE Accounted(u)'
  BY <1>1 DEF ListedInv
<1> QED BY <1>1 DEF ListedInv

(* The streamer and the first look at a message.                           *)
LEMMA ListedStreamer ==
    ASSUME Inv, ListedInv,
           StreamerNext \/ \E w \in Workers, m \in avail : Process(w, m) \/ Reject(w, m)
    PROVE  ListedInv'
<1>1. /\ UNCHANGED <<gpus, telemetry, givenUp>>
      /\ DOMAIN messages \subseteq DOMAIN messages'
      /\ \A m \in DOMAIN messages : messages'[m] = messages[m]
  <2>1. CASE PublishRecord
    <3> DEFINE msg == Message(Head(pending))
    <3>1. Head(pending) \in RecordType /\ messages \in Seq(MessageType)
      BY <2>1, PopType DEF PublishRecord, Inv, Types
    <3>2. msg \in MessageType
      BY <3>1 DEF Message, Timestamp, RecordType, MessageType, Inv, Types
    <3>3. messages' = Append(messages, msg)
      BY <2>1 DEF PublishRecord
    <3> HIDE DEF msg
    <3> QED BY <2>1, <3>1, <3>2, <3>3, Grown DEF PublishRecord
  <2>2. CASE ~PublishRecord
    BY <2>2 DEF StreamerNext, Tick, ReadFile, ReadFileError, PublishError, BatchCut,
       Process, Reject
  <2> QED BY <2>1, <2>2
<1>2. \A w \in Workers : wpc[w] # "idle" => wpc'[w] = wpc[w] /\ job'[w] = job[w]
  BY DEF StreamerNext, Tick, ReadFile, ReadFileError, PublishError, BatchCut,
     PublishRecord, Process, Reject, Inv, Types
<1>3. \A w \in Workers : wpc[w] # "idle" => wpc'[w] # "idle" /\ Msg(w)' = Msg(w)
  BY <1>1, <1>2 DEF Msg, Inv, Types
<1>4. \A u : Accounted(u) => Accounted(u)'
  BY <1>1, <1>3 DEF Accounted, ListedInv
<1> QED BY <1>1, <1>4, ListedKept DEF ListedInv

(* A worker that stores a GPU goes on to its telemetry.                    *)
LEMMA ListedStore ==
    ASSUME Inv, ListedInv, NEW w \in Workers, WorkerStep(w)
    PROVE  ListedInv'
<1>w. wpc[w] # "idle"
  BY DEF WorkerStep, StoreGPUFound, StoreGPUNotFound, StoreGPUInsert, StoreGPUError,
     StoreTelemetry, StoreTelemetryError
<1>m. /\ messages' = messages /\ gpus \in Seq(GPUType)
      /\ GPUOf(Msg(w)) \in GPUType /\ GPUOf(Msg(w)).uuid = Msg(w).uuid
      /\ PointOf(Msg(w)) \in PointType /\ PointOf(Msg(w)).gpu = Msg(w).uuid
      /\ telemetry \in Seq(PointType) /\ job[w] \in DOMAIN messages
      /\ wpc \in [Workers -> {"idle", "gpu", "insert", "telemetry"}]
      /\ job \in [Workers -> Nat \cup {None}]
  BY <1>w, WorkerMessage DEF Inv, Types, WorkerStep, StoreGPUFound, StoreGPUNotFound,
     StoreGPUInsert, StoreGPUError, StoreTelemetry, StoreTelemetryError
<1>u. PICK u : u = Msg(w).uuid
  OBVIOUS
<1>1. CASE wpc[w] \in {"gpu", "insert"}
  <2>1. /\ UNCHANGED <<telemetry, givenUp, job>>
        /\ wpc' \in {[wpc EXCEPT ![w] = "telemetry"], [wpc EXCEPT ![w] = "insert"]}
        /\ \/ gpus' = gpus \/ gpus' = InsertOne(gpus, GPUOf(Msg(w)))
           \/ gpus' \in UpdateOne(gpus, GPUOf(Msg(w)))
    BY <1>1 DEF WorkerStep, StoreGPUFound, StoreGPUNotFound, StoreGPUInsert, StoreGPUError,
       StoreTelemetry, StoreTelemetryError, GoOn, To
  <2>2. \A v \in Workers : wpc[v] # "idle" => wpc'[v] # "idle" /\ Msg(v)' = Msg(v)
    BY <1>m, <2>1 DEF Msg
  <2>3. \A v : Accounted(v) => Accounted(v)'
    BY <1>m, <2>1, <2>2 DEF Accounted
  <2>4. Accounted(u)'
    BY <1>u, <1>w, <2>2 DEF Accounted
  <2>5. ASSUME NEW i \in DOMAIN gpus'
        PROVE  gpus'[i].uuid = u \/ \E k \in DOMAIN gpus : gpus'[i].uuid = gpus[k].uuid
    <3>1. CASE gpus' = gpus
      BY <3>1
    <3>2. CASE gpus' = InsertOne(gpus, GPUOf(Msg(w)))
      BY <1>m, <1>u, <3>2, Grown DEF InsertOne
    <3>3. CASE gpus' \in UpdateOne(gpus, GPUOf(Msg(w)))
      BY <1>m, <3>3, UpdateKeeps
    <3> QED BY <2>1, <3>1, <3>2, <3>3
  <2> QED BY <1>m, <2>1, <2>3, <2>4, <2>5, ListedKept DEF ListedInv
<1>2. CASE wpc[w] = "telemetry"
  <2>1. /\ UNCHANGED gpus /\ Finish(w)
        /\ \/ telemetry' = InsertOne(telemetry, PointOf(Msg(w))) /\ givenUp' = givenUp
           \/ /\ telemetry' \in {telemetry, InsertOne(telemetry, PointOf(Msg(w)))}
              /\ givenUp' = givenUp \cup {job[w]}
    BY <1>2 DEF WorkerStep, StoreGPUFound, StoreGPUNotFound, StoreGPUInsert, StoreGPUError,
       StoreTelemetry, StoreTelemetryError
  <2>2. \A v \in Workers \ {w} : wpc'[v] = wpc[v] /\ Msg(v)' = Msg(v)
    BY <1>m, <2>1 DEF Finish, To, Msg
  <2>3. \A j \in DOMAIN telemetry : j \in DOMAIN telemetry' /\ telemetry'[j] = telemetry[j]
    BY <1>m, <2>1, Grown DEF InsertOne
  <2>4. Accounted(u)'
    <3>1. CASE telemetry' = InsertOne(telemetry, PointOf(Msg(w)))
      <4>1. \E j \in DOMAIN telemetry' : telemetry'[j].gpu = u
        BY <1>m, <1>u, <3>1, Grown DEF InsertOne
      <4> QED BY <4>1 DEF Accounted
    <3>2. CASE givenUp' = givenUp \cup {job[w]}
      <4>1. messages'[job[w]].uuid = u
        BY <1>m, <1>u DEF Msg
      <4> QED BY <3>2, <4>1 DEF Accounted
    <3> QED BY <2>1, <3>1, <3>2
  <2>5. ASSUME NEW x, Accounted(x) PROVE Accounted(x)'
    <3>1. CASE \E j \in DOMAIN telemetry : telemetry[j].gpu = x
      BY <2>3, <3>1 DEF Accounted
    <3>2. CASE \E m \in givenUp : messages[m].uuid = x
      BY <1>m, <2>1, <3>2 DEF Accounted
    <3>3. CASE \E v \in Workers : wpc[v] # "idle" /\ Msg(v).uuid = x
      <4>1. PICK v \in Workers : wpc[v] # "idle" /\ Msg(v).uuid = x
        BY <3>3
      <4>2. CASE v = w
        <5>1. x = u
          BY <1>u, <4>1, <4>2
        <5> QED BY <2>4, <5>1
      <4>3. CASE v # w
        BY <2>2, <4>1, <4>3 DEF Accounted
      <4> QED BY <4>2, <4>3
    <3> QED BY <2>5, <3>1, <3>2, <3>3 DEF Accounted
  <2>6. givenUp' \subseteq DOMAIN messages'
    BY <1>m, <2>1 DEF ListedInv
  <2> QED BY <2>1, <2>5, <2>6, ListedKept
<1> QED BY <1>m, <1>w, <1>1, <1>2

LEMMA ListedStep == Inv /\ ListedInv /\ [Next]_vars => ListedInv'
<1> SUFFICES ASSUME Inv, ListedInv, [Next]_vars PROVE ListedInv'
  OBVIOUS
<1>1. CASE StreamerNext \/ \E w \in Workers, m \in avail : Process(w, m) \/ Reject(w, m)
  BY <1>1, ListedStreamer
<1>2. CASE \E w \in Workers : WorkerStep(w)
  BY <1>2, ListedStore
<1>3. CASE Crash
  <2>1. /\ UNCHANGED <<messages, gpus, telemetry>>
        /\ givenUp' = givenUp \cup {job[w] : w \in {v \in Workers : wpc[v] # "idle"}}
    BY <1>3 DEF Crash
  <2>2. \A u : Accounted(u) => Accounted(u)'
    BY <2>1 DEF Accounted, Msg
  <2>3. givenUp' \subseteq DOMAIN messages'
    BY <2>1 DEF ListedInv, Inv, Types
  <2> QED BY <2>1, <2>2, <2>3, ListedKept
<1>4. CASE \/ \E m \in DOMAIN messages : Redeliver(m)
           \/ \E h \in Handlers : HandlerStep(h) \/ \E r \in Requests : Receive(h, r)
           \/ UNCHANGED vars
  <2>1. UNCHANGED <<messages, gpus, telemetry, givenUp, wpc, job>>
    BY <1>4 DEF Redeliver, HandlerStep, Lookup, Query, RepositoryError, Receive, vars
  <2> QED BY <2>1 DEF ListedInv, Accounted, Msg
<1> QED BY <1>1, <1>2, <1>3, <1>4 DEF Next

(* A listed GPU has telemetry, unless a worker is about to store it, or an *)
(* error or a crash made one give it up: the GPU is stored first.          *)
THEOREM ListedIsServed == Spec => []ListedHasTelemetry
<1>1. Init => ListedInv
  BY DEF Init, ListedInv
<1>2. ListedInv => ListedHasTelemetry
  BY DEF ListedInv, Accounted, ListedHasTelemetry
<1> QED BY <1>1, <1>2, InvInit, InvStep, ListedStep, PTL DEF Spec

-----------------------------------------------------------------------------
(* What a row of a file says of all fields at once.                        *)
FromRow(r) ==
    \E row \in Rows : /\ r.uuid \in row.uuid /\ r.metric \in row.metric /\ r.value \in row.value
                      /\ r.host \in row.host /\ r.pod \in row.pod

(* A message of a streamer is made from a row and has the time of a batch. *)
Streamed(msg) == FromRow(msg) /\ msg.batch \in 1..now /\ msg.time = msg.batch

Origin ==
    /\ pending # <<>> => now > 0
    /\ \A i \in DOMAIN pending : FromRow(pending[i])
    /\ \A m \in DOMAIN messages :
          Streamed(messages[m]) \/ (m \in DOMAIN Foreign /\ messages[m] = Foreign[m])

OriginInv == Origin /\ FaithfulToFile

(* A record that the parser accepted says what one row says.               *)
LEMMA RecordFromRow ==
    ASSUME NEW f \in Files, HeaderOK(f.header), NEW i \in GoodRows(f)
    PROVE  FromRow(ToRecord(f.header, f.rows[i]))
<1> DEFINE r == ToRecord(f.header, f.rows[i])
           Col(name) == GetCol(f.header, f.rows[i], name)
<1>1. f \in FileType /\ i \in DOMAIN f.rows
  BY FileAssumption DEF GoodRows
<1>2. \A name \in Required : Named(f.header, name) # {}
  BY DEF HeaderOK, HeaderMap, Named
<1>3. \A name \in Required : Col(name) \in Under(f, i, name)
  BY <1>1, <1>2, ColumnText
<1>4. Col("uuid") # Empty /\ Col("metric_name") # Empty
  BY DEF GoodRows, Accepted, FieldsPresent
<1>5. /\ Col("uuid") \in Under(f, i, "uuid") /\ Col("metric_name") \in Under(f, i, "metric_name")
      /\ Col("value") \in Under(f, i, "value") /\ Col("Hostname") \in Under(f, i, "Hostname")
  BY <1>3 DEF Required
<1>6. Col("pod") \in (IF Under(f, i, "pod") = {} THEN {Empty} ELSE Under(f, i, "pod"))
  BY <1>1, ColumnText
<1>7. /\ r.uuid = Col("uuid") /\ r.metric = Col("metric_name") /\ r.value = Col("value")
      /\ r.host = Col("Hostname") /\ r.pod = Col("pod")
  BY DEF ToRecord
<1> HIDE DEF r, Col
<1>8. /\ r.uuid \in RowOf(f, i).uuid /\ r.metric \in RowOf(f, i).metric
      /\ r.value \in RowOf(f, i).value /\ r.host \in RowOf(f, i).host
      /\ r.pod \in RowOf(f, i).pod
  BY <1>4, <1>5, <1>6, <1>7 DEF RowOf
<1>9. RowOf(f, i) \in Rows
  BY <1>1 DEF Rows
<1>10. FromRow(r)
  BY <1>8, <1>9 DEF FromRow
<1> QED BY <1>10 DEF r

(* No row has an empty uuid or metric name.                                *)
LEMMA RowsNamed == ASSUME NEW r, FromRow(r) PROVE r.uuid # Empty /\ r.metric # Empty
<1>1. PICK row \in Rows : r.uuid \in row.uuid /\ r.metric \in row.metric
  BY DEF FromRow
<1>2. PICK f \in Files : \E i : row = RowOf(f, i)
  BY DEF Rows
<1>3. PICK i : row = RowOf(f, i)
  BY <1>2
<1> QED BY <1>1, <1>3 DEF RowOf

(* What the collector accepts was streamed; what it refuses was not.       *)
LEMMA AcceptedWasStreamed ==
    ASSUME Origin, NEW m \in DOMAIN messages
    PROVE  ValidTelemetry(messages[m]) => Streamed(messages[m])
BY ForeignAssumption DEF Origin, ValidTelemetry

LEMMA RefusedWasForeign ==
    ASSUME Origin, Inv, NEW m \in DOMAIN messages, ~ValidTelemetry(messages[m])
    PROVE  m \in DOMAIN Foreign
<1>1. CASE Streamed(messages[m])
  <2>1. messages[m].uuid # Empty /\ messages[m].metric # Empty
    BY <1>1, RowsNamed DEF Streamed
  <2>2. messages[m].time # 0
    BY <1>1 DEF Streamed
  <2> QED BY <2>1, <2>2 DEF ValidTelemetry
<1> QED BY <1>1 DEF Origin

(* The streamer: what it reads and publishes says what a row says.         *)
LEMMA OriginStreamer ==
    ASSUME Inv, OriginInv, StreamerNext
    PROVE  OriginInv'
<1>1. /\ clock \in Nat /\ now \in Nat /\ pending \in Seq(RecordType)
      /\ messages \in Seq(MessageType)
  BY DEF Inv, Types
<1>2. now' \in Nat /\ now <= now'
  BY <1>1 DEF StreamerNext, Tick, ReadFile, ReadFileError, PublishRecord, PublishError, BatchCut
<1>3. FaithfulToFile'
  <2>1. UNCHANGED <<telemetry, gpus, rejected>>
    BY DEF StreamerNext, Tick, ReadFile, ReadFileError, PublishRecord, PublishError, BatchCut
  <2>2. Traceable'
    <3>1. ASSUME NEW i \in DOMAIN telemetry PROVE telemetry[i].batch \in 1..now'
      <4>1. telemetry[i].batch \in 1..now
        BY DEF OriginInv, FaithfulToFile, Traceable
      <4> QED BY <1>1, <1>2, <4>1
    <3> QED BY <2>1, <3>1 DEF OriginInv, FaithfulToFile, Traceable
  <2> QED BY <2>1, <2>2 DEF OriginInv, FaithfulToFile, GPUFromOneRow, NeverRejected
<1>4. ASSUME NEW msg, Streamed(msg) PROVE Streamed(msg)'
  BY <1>1, <1>2, <1>4 DEF Streamed
<1>5. CASE \E f \in Files : ReadFile(f)
  <2>1. PICK f \in Files : ReadFile(f)
    BY <1>5
  <2>2. now' > 0 /\ pending' = ReadAll(f) /\ messages' = messages /\ HeaderOK(f.header)
    BY <1>1, <2>1 DEF ReadFile
  <2>3. PICK n \in Nat : \E o \in [1..n -> GoodRows(f)] :
           ReadAll(f) = [i \in 1..n |-> ToRecord(f.header, f.rows[o[i]])]
    BY FileAssumption, ReadRows
  <2>4. \A i \in DOMAIN pending' : FromRow(pending'[i])
    BY <2>2, <2>3, RecordFromRow
  <2> QED BY <1>3, <1>4, <2>2, <2>4 DEF OriginInv, Origin
<1>6. CASE PublishRecord
  <2>1. /\ Head(pending) \in RecordType /\ Tail(pending) \in Seq(RecordType)
        /\ FromRow(Head(pending)) /\ now > 0
    BY <1>1, <1>6, PopType DEF PublishRecord, OriginInv, Origin
  <2>2. PICK msg : msg = Message(Head(pending))
    OBVIOUS
  <2>3. msg \in MessageType /\ msg.time = now /\ msg.batch = now
    BY <1>1, <2>1, <2>2 DEF Message, Timestamp, RecordType, MessageType
  <2>4. FromRow(msg)
    BY <2>1, <2>2 DEF FromRow, Message
  <2>5. messages' = Append(messages, msg) /\ now' = now /\ pending' = Tail(pending)
    BY <1>6, <2>2 DEF PublishRecord
  <2>6. Streamed(msg)
    BY <1>1, <2>1, <2>3, <2>4 DEF Streamed
  <2>7. ASSUME NEW m \in DOMAIN messages', NEW x, x = messages'[m]
        PROVE  Streamed(x)' \/ (m \in DOMAIN Foreign /\ x = Foreign[m])
    <3>1. x = msg \/ (m \in DOMAIN messages /\ x = messages[m])
      BY <1>1, <2>3, <2>5, <2>7, Grown
    <3> QED BY <1>4, <2>6, <3>1 DEF OriginInv, Origin
  <2>8. \A i \in DOMAIN pending' : FromRow(pending'[i])
    BY <1>1, <1>6, <2>5 DEF PublishRecord, OriginInv, Origin
  <2> QED BY <1>3, <2>1, <2>5, <2>7, <2>8 DEF OriginInv, Origin
<1>7. CASE Tick \/ PublishError \/ BatchCut \/ \E f \in Files : ReadFileError(f)
  <2>1. messages' = messages
    BY <1>7 DEF Tick, PublishError, BatchCut, ReadFileError
  <2>2. \/ pending' = pending \/ pending' = <<>>
        \/ pending # <<>> /\ pending' = Tail(pending) /\ now' = now
    BY <1>7 DEF Tick, PublishError, BatchCut, ReadFileError
  <2>3. \A i \in DOMAIN pending' : FromRow(pending'[i])
    BY <1>1, <2>2 DEF OriginInv, Origin
  <2>4. pending' # <<>> => now' > 0
    BY <1>1, <1>2, <2>2 DEF OriginInv, Origin
  <2> QED BY <1>3, <1>4, <2>1, <2>3, <2>4 DEF OriginInv, Origin
<1> QED BY <1>5, <1>6, <1>7 DEF StreamerNext

(* A worker stores what the message says.                                  *)
LEMMA OriginStore ==
    ASSUME Inv, OriginInv, NEW w \in Workers, WorkerStep(w)
    PROVE  OriginInv'
<1>1. UNCHANGED <<pending, now, messages, rejected>>
  BY DEF WorkerStep, StoreGPUFound, StoreGPUNotFound, StoreGPUInsert, StoreGPUError,
     StoreTelemetry, StoreTelemetryError
<1>2. Origin' /\ NeverRejected'
  BY <1>1 DEF OriginInv, Origin, Streamed, FaithfulToFile, NeverRejected
<1>w. wpc[w] # "idle"
  BY DEF WorkerStep, StoreGPUFound, StoreGPUNotFound, StoreGPUInsert, StoreGPUError,
     StoreTelemetry, StoreTelemetryError
<1>3. /\ gpus \in Seq(GPUType) /\ telemetry \in Seq(PointType)
      /\ GPUOf(Msg(w)) \in GPUType /\ PointOf(Msg(w)) \in PointType
  BY <1>w, WorkerMessage DEF Inv, Types
<1>4. Streamed(Msg(w))
  BY <1>w, AcceptedWasStreamed DEF Inv, Types, Msg, OriginInv
<1>5. PICK row \in Rows :
        /\ Msg(w).uuid \in row.uuid /\ Msg(w).metric \in row.metric /\ Msg(w).value \in row.value
        /\ Msg(w).host \in row.host /\ Msg(w).pod \in row.pod
  BY <1>4 DEF Streamed, FromRow
<1>6. GPUFromOneRow'
  <2> DEFINE gpu == GPUOf(Msg(w))
  <2>1. gpu \in GPUType /\ gpu.uuid \in row.uuid /\ gpu.host \in row.host /\ gpu.pod \in row.pod
    BY <1>3, <1>5 DEF GPUOf
  <2>2. \/ gpus' = gpus \/ gpus' = InsertOne(gpus, gpu) \/ gpus' \in UpdateOne(gpus, gpu)
    BY DEF WorkerStep, StoreGPUFound, StoreGPUNotFound, StoreGPUInsert, StoreGPUError,
       StoreTelemetry, StoreTelemetryError
  <2> HIDE DEF gpu
  <2>3. ASSUME NEW i \in DOMAIN gpus'
        PROVE  gpus'[i] = gpu \/ (i \in DOMAIN gpus /\ gpus'[i] = gpus[i])
    <3>1. CASE gpus' = gpus
      BY <3>1
    <3>2. CASE gpus' = InsertOne(gpus, gpu)
      BY <1>3, <2>1, <3>2, Grown DEF InsertOne
    <3>3. CASE gpus' \in UpdateOne(gpus, gpu)
      BY <1>3, <2>1, <3>3 DEF UpdateOne, UpsertFilter, Matching, SetAll
    <3> QED BY <2>2, <3>1, <3>2, <3>3
  <2> QED BY <2>1, <2>3 DEF OriginInv, FaithfulToFile, GPUFromOneRow
<1>7. Traceable'
  <2> DEFINE point == PointOf(Msg(w))
  <2>1. /\ point \in PointType /\ point.gpu \in row.uuid /\ point.metric \in row.metric
        /\ point.value \in row.value /\ point.batch \in 1..now
        /\ point.date = ToDate(point.batch)
    BY <1>w, <1>3, <1>4, <1>5 DEF PointOf, Streamed, Inv, Types, Stamped, Msg
  <2>2. telemetry' = telemetry \/ telemetry' = InsertOne(telemetry, point)
    BY DEF WorkerStep, StoreGPUFound, StoreGPUNotFound, StoreGPUInsert, StoreGPUError,
       StoreTelemetry, StoreTelemetryError
  <2> HIDE DEF point
  <2>3. ASSUME NEW i \in DOMAIN telemetry'
        PROVE  telemetry'[i] = point \/ (i \in DOMAIN telemetry /\ telemetry'[i] = telemetry[i])
    BY <1>3, <2>1, <2>2, Grown DEF InsertOne
  <2> QED BY <1>1, <2>1, <2>3 DEF OriginInv, FaithfulToFile, Traceable
<1> QED BY <1>2, <1>6, <1>7 DEF OriginInv, FaithfulToFile

LEMMA OriginStep == Inv /\ OriginInv /\ [Next]_vars => OriginInv'
<1> SUFFICES ASSUME Inv, OriginInv, [Next]_vars PROVE OriginInv'
  OBVIOUS
<1>1. CASE StreamerNext
  BY <1>1, OriginStreamer
<1>2. CASE \E w \in Workers : WorkerStep(w)
  BY <1>2, OriginStore
<1>3. CASE \E w \in Workers, m \in avail : Reject(w, m)
  <2>1. PICK w \in Workers, m \in avail : Reject(w, m)
    BY <1>3
  <2>2. m \in DOMAIN Foreign
    BY <2>1, RefusedWasForeign DEF Reject, Inv, Types, OriginInv
  <2>3. UNCHANGED <<pending, now, messages, gpus, telemetry>> /\ rejected' = rejected \cup {m}
    BY <2>1 DEF Reject
  <2> QED BY <2>2, <2>3 DEF OriginInv, Origin, Streamed, FaithfulToFile, Traceable,
             GPUFromOneRow, NeverRejected
<1>4. CASE \/ \E w \in Workers, m \in avail : Process(w, m)
           \/ \E m \in DOMAIN messages : Redeliver(m)
           \/ Crash
           \/ \E h \in Handlers : HandlerStep(h) \/ \E r \in Requests : Receive(h, r)
           \/ UNCHANGED vars
  <2>1. UNCHANGED <<pending, now, messages, gpus, telemetry, rejected>>
    BY <1>4 DEF Process, Redeliver, Crash, HandlerStep, Lookup, Query, RepositoryError,
       Receive, vars
  <2> QED BY <2>1 DEF OriginInv, Origin, Streamed, FaithfulToFile, Traceable,
             GPUFromOneRow, NeverRejected
<1> QED BY <1>1, <1>2, <1>3, <1>4 DEF Next

(* Between file and database nothing is made up, mixed or refused: every   *)
(* point and every GPU document says what one row of a file says, and the  *)
(* collector refuses no message of a streamer; for any files.              *)
THEOREM DataIsFaithful == Spec => []FaithfulToFile
<1>1. Init => OriginInv
  BY DEF Init, OriginInv, Origin, FaithfulToFile, Traceable, GPUFromOneRow, NeverRejected
<1>2. OriginInv => FaithfulToFile
  BY DEF OriginInv
<1> QED BY <1>1, <1>2, InvInit, InvStep, OriginStep, PTL DEF Spec

-----------------------------------------------------------------------------
(* Every point that is stored, and every worker that is about to store it, *)
(* has a delivery of its own.                                              *)
Busy(p) == {w \in Workers : wpc[w] # "idle" /\ PointOf(Msg(w)) = p}

Covered(p) ==
    /\ IsFiniteSet(Deliveries(p))
    /\ Occurrences(p, telemetry) + Cardinality(Busy(p)) <= Cardinality(Deliveries(p))

CoveredInv == \A p \in PointType : Covered(p)

(* The deliveries one by one.                                              *)
LEMMA DeliveriesOf ==
    ASSUME NEW p
    PROVE  Deliveries(p) = {d \in (DOMAIN messages) \X Nat :
                              /\ PointOf(messages[d[1]]) = p /\ d[2] \in 1..delivered[d[1]]}
BY DEF Deliveries

(* What is counted is finite.                                              *)
LEMMA CoverTypes ==
    ASSUME Inv, NEW p \in PointType
    PROVE  IsFiniteSet(Busy(p)) /\ Cardinality(Busy(p)) \in Nat /\ Occurrences(p, telemetry) \in Nat
<1>1. IsFiniteSet(Busy(p))
  BY FiniteAssumption, FS_Subset DEF Busy
<1> QED BY <1>1, FS_CardinalityType, OccurrencesType DEF Inv, Types

(* A step that stores nothing and takes up nothing new.                    *)
LEMMA CoveredKept ==
    ASSUME Inv, Inv', CoveredInv, UNCHANGED telemetry,
           \A p \in PointType : Busy(p)' \subseteq Busy(p) /\ Deliveries(p)' = Deliveries(p)
    PROVE  CoveredInv'
<1> SUFFICES ASSUME NEW p \in PointType PROVE Covered(p)'
  BY DEF CoveredInv
<1>1. Busy(p)' \subseteq Busy(p) /\ Deliveries(p)' = Deliveries(p)
  OBVIOUS
<1>2. PICK o \in Nat, b \in Nat, d \in Nat :
        /\ o = Occurrences(p, telemetry) /\ b = Cardinality(Busy(p))
        /\ d = Cardinality(Deliveries(p)) /\ o + b <= d /\ IsFiniteSet(Deliveries(p))
  BY CoverTypes, FS_CardinalityType DEF CoveredInv, Covered
<1>3. PICK bb \in Nat : bb = Cardinality(Busy(p)') /\ bb <= b
  <2>1. IsFiniteSet(Busy(p))
    BY CoverTypes
  <2>2. IsFiniteSet(Busy(p)') /\ Cardinality(Busy(p)') <= Cardinality(Busy(p))
    BY <1>1, <2>1, FS_Subset
  <2> QED BY <1>2, <2>2, FS_CardinalityType
<1>4. o + bb <= d
  BY <1>2, <1>3
<1>5. Occurrences(p, telemetry)' = o
  BY <1>2
<1> QED BY <1>1, <1>2, <1>3, <1>4, <1>5 DEF Covered

(* Workers that do not change keep their points.                           *)
LEMMA BusyKept ==
    ASSUME NEW p, \A w \in Workers : wpc'[w] # "idle" => wpc[w] # "idle" /\ Msg(w)' = Msg(w)
    PROVE  Busy(p)' \subseteq Busy(p)
BY DEF Busy, PointOf

(* A message that is published has not been delivered.                     *)
LEMMA CoveredPublish ==
    ASSUME Inv, Inv', CoveredInv, PublishRecord
    PROVE  CoveredInv'
<1>1. /\ messages \in Seq(MessageType) /\ delivered \in [DOMAIN messages -> Nat]
      /\ Head(pending) \in RecordType
  BY PopType DEF Inv, Types, PublishRecord
<1>2. PICK msg \in MessageType : messages' = Append(messages, msg)
  BY <1>1 DEF PublishRecord, Message, Timestamp, RecordType, MessageType, Inv, Types
<1>3. /\ DOMAIN messages' = DOMAIN messages \cup {Len(messages) + 1}
      /\ \A i \in DOMAIN messages : messages'[i] = messages[i]
  BY <1>1, <1>2, Grown
<1>4. /\ \A i \in DOMAIN messages : delivered'[i] = delivered[i]
      /\ delivered'[Len(messages) + 1] = 0
  <2>1. delivered \in [1..Len(messages) -> Nat] /\ Len(messages) \in Nat
    BY <1>1
  <2>2. delivered \in Seq(Nat) /\ Len(delivered) = Len(messages) /\ DOMAIN delivered = DOMAIN messages
    BY <1>1, <2>1
  <2>3. delivered' = Append(delivered, 0)
    BY DEF PublishRecord
  <2> QED BY <2>2, <2>3, Grown
<1>5. ASSUME NEW p \in PointType PROVE Deliveries(p)' = Deliveries(p)
  <2> DEFINE D == {d \in (DOMAIN messages) \X Nat :
                     /\ PointOf(messages[d[1]]) = p /\ d[2] \in 1..delivered[d[1]]}
             E == {d \in (DOMAIN messages') \X Nat :
                     /\ PointOf(messages'[d[1]]) = p /\ d[2] \in 1..delivered'[d[1]]}
  <2>1. Deliveries(p) = D
    BY DeliveriesOf
  <2>2. Deliveries(p)' = E
    BY DEF Deliveries, PointOf
  <2>3. D = E
    BY <1>3, <1>4
  <2> QED BY <2>1, <2>2, <2>3
<1>6. ASSUME NEW p PROVE Busy(p)' \subseteq Busy(p)
  <2>1. UNCHANGED <<wpc, job>>
    BY DEF PublishRecord
  <2>2. \A w \in Workers : wpc'[w] # "idle" => wpc[w] # "idle" /\ Msg(w)' = Msg(w)
    BY <1>3, <2>1 DEF Msg, Inv, Types
  <2> QED BY <2>2, BusyKept
<1>7. UNCHANGED telemetry
  BY DEF PublishRecord
<1> QED BY <1>5, <1>6, <1>7, CoveredKept

(* A delivery covers the worker that takes the message up.                 *)
LEMMA CoveredTake ==
    ASSUME Inv, Inv', CoveredInv, NEW w \in Workers, NEW m \in avail,
           Process(w, m) \/ Reject(w, m)
    PROVE  CoveredInv'
<1> SUFFICES ASSUME NEW p \in PointType PROVE Covered(p)'
  BY DEF CoveredInv
<1> DEFINE x == <<m, delivered[m] + 1>>
<1>1. /\ m \in DOMAIN messages /\ delivered \in [DOMAIN messages -> Nat]
      /\ messages' = messages /\ telemetry' = telemetry
      /\ delivered' = [delivered EXCEPT ![m] = @ + 1]
      /\ wpc \in [Workers -> {"idle", "gpu", "insert", "telemetry"}]
      /\ job \in [Workers -> Nat \cup {None}]
  BY DEF Inv, Types, Process, Reject, Take
<1>2. PICK o \in Nat, b \in Nat, d \in Nat :
        /\ o = Occurrences(p, telemetry) /\ b = Cardinality(Busy(p))
        /\ d = Cardinality(Deliveries(p)) /\ o + b <= d /\ IsFiniteSet(Deliveries(p))
  BY CoverTypes, FS_CardinalityType DEF CoveredInv, Covered
<1>3. IsFiniteSet(Busy(p))
  BY CoverTypes
<1>4. /\ \A i \in DOMAIN messages : i # m => delivered'[i] = delivered[i]
      /\ delivered'[m] = delivered[m] + 1 /\ delivered[m] \in Nat
  BY <1>1
<1>5. Deliveries(p) = {e \in (DOMAIN messages) \X Nat :
                         /\ PointOf(messages[e[1]]) = p /\ e[2] \in 1..delivered[e[1]]}
  BY DeliveriesOf
<1>6. Deliveries(p)' = {e \in (DOMAIN messages) \X Nat :
                          /\ PointOf(messages[e[1]]) = p /\ e[2] \in 1..delivered'[e[1]]}
  BY <1>1 DEF Deliveries, PointOf
<1>7. Occurrences(p, telemetry)' = o
  BY <1>1, <1>2
<1>8. CASE PointOf(messages[m]) = p
  <2>1. Deliveries(p)' = Deliveries(p) \cup {x} /\ x \notin Deliveries(p)
    BY <1>1, <1>4, <1>5, <1>6, <1>8
  <2>2. IsFiniteSet(Deliveries(p)') /\ Cardinality(Deliveries(p)') = d + 1
    BY <1>2, <2>1, FS_AddElement
  <2>3. Busy(p)' \subseteq Busy(p) \cup {w}
    BY <1>1 DEF Busy, Msg, Process, Reject, PointOf
  <2>4. IsFiniteSet(Busy(p)')
    BY <1>3, <2>3, FS_AddElement, FS_Subset
  <2>5. PICK bb \in Nat : bb = Cardinality(Busy(p)') /\ bb <= b + 1
    BY <1>2, <1>3, <2>3, <2>4, OneMore, FS_CardinalityType
  <2>6. o + bb <= d + 1
    BY <1>2, <2>5
  <2> QED BY <1>7, <2>2, <2>5, <2>6 DEF Covered
<1>9. CASE PointOf(messages[m]) # p
  <2>1. Deliveries(p)' = Deliveries(p)
    BY <1>1, <1>4, <1>5, <1>6, <1>9
  <2>2. Busy(p)' \subseteq Busy(p)
    BY <1>1, <1>9 DEF Busy, Msg, Process, Reject, PointOf
  <2>3. IsFiniteSet(Busy(p)')
    BY <1>3, <2>2, FS_Subset
  <2>4. PICK bb \in Nat : bb = Cardinality(Busy(p)') /\ bb <= b
    BY <1>2, <1>3, <2>2, <2>3, Fewer, FS_CardinalityType
  <2>5. o + bb <= d
    BY <1>2, <2>4
  <2> QED BY <1>2, <1>7, <2>1, <2>4, <2>5 DEF Covered
<1> QED BY <1>8, <1>9

(* The insert of a point uses up the delivery of its worker.               *)
LEMMA CoveredStore ==
    ASSUME Inv, Inv', CoveredInv, NEW w \in Workers, WorkerStep(w)
    PROVE  CoveredInv'
<1>1. /\ UNCHANGED <<messages, delivered>>
      /\ wpc \in [Workers -> {"idle", "gpu", "insert", "telemetry"}]
      /\ job \in [Workers -> Nat \cup {None}] /\ telemetry \in Seq(PointType)
  BY DEF Inv, Types, WorkerStep, StoreGPUFound, StoreGPUNotFound, StoreGPUInsert,
     StoreGPUError, StoreTelemetry, StoreTelemetryError
<1>2. \A p : Deliveries(p)' = Deliveries(p)
  BY <1>1 DEF Deliveries, PointOf
<1>3. CASE wpc[w] \in {"gpu", "insert"}
  <2>1. UNCHANGED <<telemetry, job>> /\ \A v \in Workers \ {w} : wpc'[v] = wpc[v]
    BY <1>1, <1>3 DEF WorkerStep, StoreGPUFound, StoreGPUNotFound, StoreGPUInsert,
       StoreGPUError, StoreTelemetry, StoreTelemetryError, GoOn, To
  <2>2. \A v \in Workers : wpc'[v] # "idle" => wpc[v] # "idle" /\ Msg(v)' = Msg(v)
    BY <1>1, <1>3, <2>1 DEF Msg
  <2>3. \A p : Busy(p)' \subseteq Busy(p)
    BY <2>2, BusyKept
  <2> QED BY <1>2, <2>1, <2>3, CoveredKept
<1>4. CASE wpc[w] = "telemetry"
  <2>1. PICK point \in PointType : point = PointOf(Msg(w))
    BY <1>4, WorkerMessage
  <2>2. telemetry' \in {telemetry, Append(telemetry, point)} /\ Finish(w)
    BY <1>4, <2>1 DEF WorkerStep, StoreGPUFound, StoreGPUNotFound, StoreGPUInsert,
       StoreGPUError, StoreTelemetry, StoreTelemetryError, InsertOne
  <2>3. wpc'[w] = "idle" /\ \A v \in Workers \ {w} : wpc'[v] = wpc[v] /\ Msg(v)' = Msg(v)
    BY <1>1, <2>2 DEF Finish, To, Msg
  <2> SUFFICES ASSUME NEW p \in PointType PROVE Covered(p)'
    BY DEF CoveredInv
  <2>4. PICK o \in Nat, b \in Nat, d \in Nat :
          /\ o = Occurrences(p, telemetry) /\ b = Cardinality(Busy(p))
          /\ d = Cardinality(Deliveries(p)) /\ o + b <= d /\ IsFiniteSet(Deliveries(p))
    BY CoverTypes, FS_CardinalityType DEF CoveredInv, Covered
  <2>5. IsFiniteSet(Busy(p))
    BY CoverTypes
  <2>6. Busy(p)' \subseteq Busy(p) \ {w}
    BY <2>3 DEF Busy, PointOf
  <2>7. PICK bb \in Nat : bb = Cardinality(Busy(p)')
    BY <2>5, <2>6, FS_Subset, FS_CardinalityType
  <2>8. PICK oo \in Nat : oo = Occurrences(p, telemetry)'
    <3>1. telemetry' \in Seq(PointType)
      BY DEF Inv, Types
    <3>2. Occurrences(p, telemetry') \in Nat
      BY <3>1, OccurrencesType
    <3> QED BY <3>2
  <2>9. CASE p = point
    <3>1. w \in Busy(p)
      BY <1>4, <2>1, <2>9 DEF Busy
    <3>2. bb + 1 <= b
      BY <2>4, <2>5, <2>6, <2>7, <3>1, OneLess
    <3>3. oo <= o + 1
      <4>1. Occurrences(p, Append(telemetry, point)) = Occurrences(p, telemetry) + 1
        BY <1>1, <2>1, <2>9, OccurrencesAppend
      <4>2. CASE telemetry' = telemetry
        BY <2>4, <2>8, <4>2
      <4>3. CASE telemetry' = Append(telemetry, point)
        <5>1. oo = Occurrences(p, Append(telemetry, point))
          BY <2>8, <4>3
        <5> QED BY <2>4, <4>1, <5>1
      <4> QED BY <2>2, <4>2, <4>3
    <3>4. oo + bb <= d
      BY <2>4, <2>7, <2>8, <3>2, <3>3
    <3> QED BY <1>2, <2>4, <2>7, <2>8, <3>4 DEF Covered
  <2>10. CASE p # point
    <3>1. bb <= b
      BY <2>4, <2>5, <2>6, <2>7, Fewer
    <3>2. oo = o
      <4>1. Occurrences(p, Append(telemetry, point)) = Occurrences(p, telemetry) + 0
        BY <1>1, <2>1, <2>10, OccurrencesAppend
      <4>2. CASE telemetry' = telemetry
        BY <2>4, <2>8, <4>2
      <4>3. CASE telemetry' = Append(telemetry, point)
        <5>1. oo = Occurrences(p, Append(telemetry, point))
          BY <2>8, <4>3
        <5> QED BY <2>4, <4>1, <5>1
      <4> QED BY <2>2, <4>2, <4>3
    <3>3. oo + bb <= d
      BY <2>4, <2>7, <2>8, <3>1, <3>2
    <3> QED BY <1>2, <2>4, <2>7, <2>8, <3>3 DEF Covered
  <2> QED BY <2>9, <2>10
<1> QED BY <1>3, <1>4 DEF WorkerStep, StoreGPUFound, StoreGPUNotFound, StoreGPUInsert,
           StoreGPUError, StoreTelemetry, StoreTelemetryError

LEMMA CoveredStep == Inv /\ Inv' /\ CoveredInv /\ [Next]_vars => CoveredInv'
<1> SUFFICES ASSUME Inv, Inv', CoveredInv, [Next]_vars PROVE CoveredInv'
  OBVIOUS
<1>1. CASE PublishRecord
  BY <1>1, CoveredPublish
<1>2. CASE \E w \in Workers : WorkerStep(w)
  BY <1>2, CoveredStore
<1>3. CASE \E w \in Workers, m \in avail : Process(w, m) \/ Reject(w, m)
  BY <1>3, CoveredTake
<1>4. CASE \/ StreamerNext /\ ~PublishRecord
           \/ \E m \in DOMAIN messages : Redeliver(m)
           \/ Crash
           \/ \E h \in Handlers : HandlerStep(h) \/ \E r \in Requests : Receive(h, r)
           \/ UNCHANGED vars
  <2>1. /\ UNCHANGED <<messages, delivered, telemetry>>
        /\ UNCHANGED <<wpc, job>> \/ \A w \in Workers : wpc'[w] = "idle"
    BY <1>4 DEF StreamerNext, Tick, ReadFile, ReadFileError, PublishError, BatchCut,
       Redeliver, Crash, HandlerStep, Lookup, Query, RepositoryError, Receive, vars
  <2>2. \A p : Deliveries(p)' = Deliveries(p) /\ Busy(p)' \subseteq Busy(p)
    BY <2>1 DEF Deliveries, PointOf, Busy, Msg
  <2> QED BY <2>1, <2>2, CoveredKept
<1> QED BY <1>1, <1>2, <1>3, <1>4 DEF Next

(* A message is stored at most as often as it was delivered, also when the *)
(* reply to an insert is lost and the worker takes it for a failure.       *)
THEOREM StoredOncePerDelivery == Spec => []StoredPerDelivery
<1>1. Init => CoveredInv
  <2> SUFFICES ASSUME Init, NEW p \in PointType PROVE Covered(p)
    BY DEF CoveredInv
  <2>1. Deliveries(p) = {}
    <3>1. \A m \in DOMAIN messages : delivered[m] = 0 /\ 1..delivered[m] = {}
      BY DEF Init
    <3> QED BY <3>1, DeliveriesOf
  <2>2. Busy(p) = {}
    BY DEF Init, Busy
  <2>3. Occurrences(p, telemetry) = 0
    <3>1. telemetry \in Seq(PointType) /\ ~In(p, telemetry)
      BY EmptyList DEF Init, In
    <3> QED BY <3>1, NoOccurrence
  <2>4. IsFiniteSet({}) /\ Cardinality({}) = 0
    BY FS_EmptySet
  <2> QED BY <2>1, <2>2, <2>3, <2>4 DEF Covered
<1>2. Inv /\ CoveredInv => StoredPerDelivery
  <2> SUFFICES ASSUME Inv, CoveredInv, NEW i \in DOMAIN telemetry
               PROVE  Occurrences(telemetry[i], telemetry) <= Cardinality(Deliveries(telemetry[i]))
    BY DEF StoredPerDelivery
  <2>1. PICK p \in PointType : p = telemetry[i]
    BY DEF Inv, Types
  <2>2. PICK o \in Nat, b \in Nat, d \in Nat :
          /\ o = Occurrences(p, telemetry) /\ b = Cardinality(Busy(p))
          /\ d = Cardinality(Deliveries(p)) /\ o + b <= d
    BY CoverTypes, FS_CardinalityType DEF CoveredInv, Covered
  <2>3. o <= d
    BY <2>2
  <2> QED BY <2>1, <2>2, <2>3
<1> QED BY <1>1, <1>2, InvInit, InvStep, CoveredStep, PTL DEF Spec

=============================================================================
