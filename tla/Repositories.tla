---------------------------- MODULE Repositories ----------------------------
(***************************************************************************)
(* The MongoDB repositories (internal/storage/mongodb) as operators on a   *)
(* collection, which is a sequence of documents.  The server is external:  *)
(* what it leaves open (which of several matching documents is taken, the  *)
(* order of equal sort keys) is a set of possible results.                 *)
(***************************************************************************)
EXTENDS Integers, Sequences, SequencesExt

CONSTANTS
    Resolution,     \* instants of the clock per BSON date (a millisecond)
    NoBound         \* an unset StartTime, EndTime or Limit of a filter

ASSUME ResolutionAssumption == Resolution \in Nat \ {0}

(* A time.Time becomes a BSON date, in documents and in filters alike.     *)
ToDate(time) == time \div Resolution

-----------------------------------------------------------------------------
(* GPURepository.                                                          *)

Matching(coll, uuid) == {i \in DOMAIN coll : coll[i].uuid = uuid}

NoneMatches(coll, gpu) == {}   \* mutant: the filter names a field no document has
UpsertFilter(coll, gpu) == Matching(coll, gpu.uuid)

(* $set with the whole struct: its fields have no bson tag, so an empty    *)
(* one is written too (mutant: empty fields are left out).                 *)
SetNonEmpty(doc, gpu) ==
    [f \in DOMAIN gpu |-> IF gpu[f] = "" THEN doc[f] ELSE gpu[f]]
SetAll(doc, gpu) == gpu

(* UpdateOne of a document that exists; an upsert that found none inserts. *)
UpdateOne(coll, gpu) ==
    {[coll EXCEPT ![i] = SetAll(@, gpu)] : i \in UpsertFilter(coll, gpu)}

FindOne(coll, uuid) == {coll[i] : i \in Matching(coll, uuid)}

-----------------------------------------------------------------------------
(* TelemetryRepository.                                                    *)

InsertOne(coll, doc) == Append(coll, doc)

(* $gte and $lte (mutant: the upper bound is exclusive).                   *)
WithinExclusive(date, filter) ==
    /\ filter.start # NoBound => date >= ToDate(filter.start)
    /\ filter.end # NoBound => date < ToDate(filter.end)
Within(date, filter) ==
    /\ filter.start # NoBound => date >= ToDate(filter.start)
    /\ filter.end # NoBound => date <= ToDate(filter.end)

AnyGPU(coll, uuid, filter) == {i \in DOMAIN coll : Within(coll[i].date, filter)}   \* mutant
Selected(coll, uuid, filter) ==
    {i \in DOMAIN coll : coll[i].gpu = uuid /\ Within(coll[i].date, filter)}

(* Sort by timestamp, newest first.                                        *)
NewestFirst(coll, order) == \A i \in 1..Len(order) - 1 :
    coll[order[i]].date >= coll[order[i + 1]].date

Limited(s, limit) == IF limit = NoBound \/ limit >= Len(s) THEN s ELSE SubSeq(s, 1, limit)

GetByGPU(coll, uuid, filter) ==
    {[i \in DOMAIN Limited(order, filter.limit) |-> coll[order[i]]] :
        order \in {o \in SetToSeqs(Selected(coll, uuid, filter)) : NewestFirst(coll, o)}}

=============================================================================
