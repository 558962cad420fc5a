---------------------------- MODULE TrackPayload ----------------------------
(***************************************************************************)
(* Recordings between the client and the player: how the log service cuts  *)
(* a payload that is larger than one Kafka message                         *)
(* (packages/logs/src/services/split.rs), how the session worker joins the *)
(* messages of a session to one file (packages/worker/src/main.rs), and    *)
(* how the server merges the files (packages/server/src/utils/replay.ts).  *)
(*                                                                         *)
(* An event is its timestamp.  A record is a track, with events, or a page *)
(* trace of a mini-program, without; create stands for the fields that the *)
(* service writes and that differ from one delivery to the next.  What gzip  *)
(* gains differs from one payload to another: an event has a size of its     *)
(* own and one that it takes of a compressed message.                        *)
(***************************************************************************)
EXTENDS Integers, SequencesExt, FiniteSetsExt

CONSTANTS
  ShellSize,       \* bytes of a record without its events
  EventSize,       \* EventSize[e]: bytes of event e
  PackedSize,      \* PackedSize[e]: bytes it takes of a compressed message
  MaxMessage,      \* KAFKA_MAX_MESSAGE_BYTES
  CompressRatio,   \* COMPRESS_RATIO, what gzip is expected to gain
  MaxSplitDepth,   \* MAX_SPLIT_DEPTH
  Payloads,        \* what a client may send: sequences of records
  MaxDeliveries,   \* bound on what the client sends
  MaxUploads       \* bound on the files of the session

ASSUME PayloadAssumption ==
  /\ {ShellSize, MaxMessage, MaxSplitDepth} \subseteq Nat
  /\ CompressRatio \in Nat \ {0}
  /\ DOMAIN PackedSize = DOMAIN EventSize

VARIABLES
  sent,     \* history: what the client sent
  refused,  \* history: messages that the producer did not take
  batches,  \* the session's list in Redis
  files     \* its files, each a sequence of records

replayVars == <<sent, refused, batches, files>>

Event == DOMAIN EventSize
NotSplit == -1

TrackRecord ==
  [page : BOOLEAN, uuid : Nat, stamp : Nat, events : Seq(Event),
   part : Int, create : Nat]

-----------------------------------------------------------------------------
Bytes(value, size) ==
  FoldLeft(LAMBDA n, r : FoldLeft(LAMBDA m, e : m + size[e], n + ShellSize, r.events),
           0, value)

JsonLen(value) == Bytes(value, EventSize)
GzipLen(value) == Bytes(value, PackedSize)

Left(s)  == SubSeq(s, 1, Len(s) \div 2)
Right(s) == SubSeq(s, Len(s) \div 2 + 1, Len(s))

(***************************************************************************)
(* split_value and split_record: halve the records, then the events of a   *)
(* single record, until a part can be expected to fit, or cannot be halved. *)
(***************************************************************************)
SplitValue[value \in Seq(TrackRecord), depth \in Nat] ==
  LET halves == IF Len(value) > 1
                THEN <<Left(value), Right(value)>>
                ELSE <<<<[value[1] EXCEPT !.events = Left(@)]>>,
                       <<[value[1] EXCEPT !.events = Right(@)]>>>>
  IN  IF \/ JsonLen(value) <= MaxMessage * CompressRatio
         \/ depth >= MaxSplitDepth
         \/ Len(value) = 1 /\ Len(value[1].events) < 2
      THEN <<value>>
      ELSE SplitValue[halves[1], depth + 1] \o SplitValue[halves[2], depth + 1]

MarkPart(value, idx) == [i \in DOMAIN value |-> [value[i] EXCEPT !.part = idx]]

\* split_track_payload: no parts means that the payload is sent as it is.
SplitTrackPayload(data) ==
  LET parts == SplitValue[data, 0]
  IN  IF Len(parts) <= 1
      THEN <<>>
      ELSE [i \in DOMAIN parts |-> MarkPart(parts[i], i - 1)]

\* send_raw_to_kafak: the messages that are handed to the producer.
RawMessages(data) ==
  LET parts == SplitTrackPayload(data)
  IN  IF GzipLen(data) > MaxMessage /\ parts # <<>> THEN parts ELSE <<data>>

-----------------------------------------------------------------------------
\* upload_session: the records of a session's batches, in their order.
JoinBatches(list) == FlattenSeq(list)

-----------------------------------------------------------------------------
Unique(s) ==
  FoldLeft(LAMBDA seen, x : IF x \in ToSet(seen) THEN seen ELSE Append(seen, x),
           <<>>, s)

(***************************************************************************)
(* recordKey: the content of a record without what the service wrote.      *)
(***************************************************************************)
\* Mutant: the time of storing tells two deliveries of a record apart.
WholeRecord(r) == r

RecordKey(r) == [r EXCEPT !.create = 0]

DedupeReplayRecords(records) ==
  LET kept == SelectSeq([i \in DOMAIN records |-> i],
                LAMBDA i : \A j \in 1 .. i - 1 :
                             RecordKey(records[j]) # RecordKey(records[i]))
  IN  [i \in DOMAIN kept |-> records[kept[i]]]

InOrder(events) == SortSeq(events, LAMBDA a, b : a < b)

(***************************************************************************)
(* mergeReplayPayloads: one record per device with its events, each event  *)
(* once and in the order of time, then the page traces.                    *)
(***************************************************************************)
MergeReplayPayloads(payloads) ==
  LET kept    == DedupeReplayRecords(payloads)
      tracks  == SelectSeq(kept, LAMBDA r : ~r.page)
      others  == SelectSeq(kept, LAMBDA r : r.page)
      uuids   == Unique([i \in DOMAIN tracks |-> tracks[i].uuid])
      all(u)  == LET own == SelectSeq(tracks, LAMBDA r : r.uuid = u)
                 IN  FlattenSeq([i \in DOMAIN own |-> own[i].events])
      before(i) == UNION {ToSet(all(uuids[j])) : j \in 1 .. i - 1}
      groups  == [i \in DOMAIN uuids |->
                    InOrder(SelectSeq(Unique(all(uuids[i])),
                                      LAMBDA e : e \notin before(i)))]
      filled  == SelectSeq(groups, LAMBDA g : g # <<>>)
      merged  == SortSeq(filled, LAMBDA g, h : g[1] < h[1])
  IN  [events |-> FlattenSeq(merged),
       others |-> SortSeq(others, LAMBDA r, q : r.stamp < q.stamp)]

\* loadReplayPayloads, GET /session/:id: what could be read of the files.
Replay(read) ==
  MergeReplayPayloads(FlattenSeq([i \in DOMAIN files |->
                                    IF i \in read THEN files[i] ELSE <<>>]))

-----------------------------------------------------------------------------
(***************************************************************************)
(* A session.  A client that had no answer sends a payload again; a list   *)
(* that was uploaded and not deleted is uploaded again.                    *)
(***************************************************************************)
ReplayInit == sent = <<>> /\ refused = {} /\ batches = <<>> /\ files = <<>>

\* send_track_bytes: the producer refuses what is above its limit, and all that
\* comes once its queue is full; the service counts that and goes on.
Deliver(payload) ==
  /\ Len(sent) < MaxDeliveries
  /\ sent' = Append(sent, payload)
  /\ LET messages == RawMessages([i \in DOMAIN payload |->
                                    [payload[i] EXCEPT !.create = Len(sent')]])
     IN  \E room \in DOMAIN messages \cup {0} :
           LET Taken(i) == i <= room /\ GzipLen(messages[i]) <= MaxMessage
               taken    == SelectSeq([i \in DOMAIN messages |-> i], Taken)
           IN  /\ batches' = batches \o [i \in DOMAIN taken |-> messages[taken[i]]]
               /\ refused' = refused \cup
                    {messages[i] : i \in {k \in DOMAIN messages : ~Taken(k)}}
  /\ UNCHANGED files

UploadSession ==
  /\ batches # <<>> /\ Len(files) < MaxUploads
  /\ files' = Append(files, JoinBatches(batches))
  /\ batches' \in {<<>>, batches}
  /\ UNCHANGED <<sent, refused>>

ReplayNext == (\E payload \in Payloads : Deliver(payload)) \/ UploadSession

\* replay.ts:1: whatever was cut, sent again or uploaded twice, the player gets
\* every event of the files that could be read once, those of a device in the
\* order of time, and the timeline every page trace once; and when all files
\* were read, everything that was sent but for what the producer refused.
ReplayIsFaithful ==
  \A read \in SUBSET DOMAIN files :
    LET replay  == Replay(read)
        records == UNION {ToSet(files[i]) : i \in read}
        all     == UNION {ToSet(sent[i]) : i \in DOMAIN sent}
        lost    == UNION {ToSet(m) : m \in refused}
        Events(set) == UNION {ToSet(r.events) : r \in set}
        Traces(set) == {[r EXCEPT !.create = 0] : r \in {q \in set : q.page}}
        Stamps(set) == {r.stamp : r \in Traces(set)}
        Device(e)   == {r.uuid : r \in {q \in all : e \in ToSet(q.events)}}
    IN  /\ IsInjective(replay.events) /\ ToSet(replay.events) = Events(records)
        /\ \A i, j \in DOMAIN replay.events :
             i < j /\ Device(replay.events[i]) = Device(replay.events[j])
               => replay.events[i] < replay.events[j]
        /\ Len(replay.others) = Cardinality(Traces(records))
        /\ Traces(ToSet(replay.others)) = Traces(records)
        /\ batches = <<>> /\ read = DOMAIN files =>
             /\ Events(records \cup lost) = Events(all)
             /\ Stamps(records \cup lost) = Stamps(all)

\* split.rs:7 says that every message is below the limit.  One above it is
\* refused, whole, only when gzip gains less than expected, so that it was not
\* cut, or when it is a record that cannot be: a large payload is not lost
\* because of its size alone.  (The depth of the halving is not reached.)
OnlyTheUncutAreTooLarge ==
  \A m \in refused :
    GzipLen(m) > MaxMessage =>
      \/ JsonLen(m) <= MaxMessage * CompressRatio
      \/ Len(m) = 1 /\ Len(m[1].events) < 2
=============================================================================
