-------------------------- MODULE SessionPipeline --------------------------
(***************************************************************************)
(* The way of a recording from the log service to the files of a session:  *)
(* the Kafka topic rrweb, the session worker (packages/worker/src/main.rs) *)
(* with its keys in Redis, object storage, and the session document whose  *)
(* event_urls name the files.                                              *)
(*                                                                         *)
(* Per session Redis holds the list of its batches, a shadow key that      *)
(* expires when no batch has come for a while, and an entry of the sorted  *)
(* set session:index with the time of expiry.  One task of the worker      *)
(* handles the expiry events, another appends what Kafka delivers; at the  *)
(* start the latter first looks for sessions that expired while no worker  *)
(* listened.  Each await is a point where anything else may happen.        *)
(*                                                                         *)
(* What is in a list or a file is the set of the batches' positions in the *)
(* topic: no property here asks for their order, or whether one that Kafka *)
(* delivered twice is there twice.                                         *)
(***************************************************************************)
EXTENDS Integers, FiniteSets, SequencesExt

CONSTANTS
  Session,      \* session keys
  MaxMessages,  \* bound: messages in the topic
  MaxCrashes,   \* bound: crashes of the worker
  Faults        \* which parts of the surroundings may fail

ASSUME PipelineAssumption ==
  /\ Session # {}
  /\ {MaxMessages, MaxCrashes} \subseteq Nat
  /\ Faults \subseteq {"redis", "upload", "pubsub"}

VARIABLES
  topic,      \* the messages of the topic in order, each by its key
  next,       \* where the worker goes on in it: how many it has passed
  took,       \* whether its consumer has taken a message since it began
  committed,  \* the offset that Kafka knows, or None
  data,       \* data[s]: the list session:s:data
  ttl,        \* ttl[s]: what limits the life of that list
  shadow,     \* shadow[s]: session:s:shadow exists
  index,      \* index[s]: the entry of s in the sorted set
  phase,      \* what the main task of the worker does
  append,     \* the message it is appending, and how far it is
  todo,       \* the sessions left to compensate
  listening,  \* whether expiry events reach the worker
  events,     \* expiry events it has received and not handled
  actor,      \* the two tasks that upload, and where they are
  uploads,    \* uploads that were spawned and have not ended
  files,      \* files[s]: what the files of the document's event_urls hold
  refused,    \* the keys that parse_key refuses: with a slash too many
  lost,       \* history: positions that were lost; a crash may bring some again
  unheard,    \* history: sessions whose latest expiry the worker misses
  unindexed,  \* history: sessions whose index entry was not written
  crashes

kafka   == <<topic, next, took, committed>>
redis   == <<data, ttl, shadow, index>>
tasks   == <<phase, append, todo, listening, events, actor, uploads>>
missed  == <<unheard, unindexed>>
vars    == <<kafka, redis, tasks, files, refused, lost, missed, crashes>>

Actor == {"event", "compensation"}
None  == -1
Idle  == [at |-> "idle", s |-> CHOOSE s \in Session : TRUE, read |-> {}]
NoAppend == [at |-> "none", k |-> 0]

Init ==
  /\ topic = <<>> /\ next = 0 /\ took = FALSE /\ committed = None
  /\ data = [s \in Session |-> {}]
  /\ ttl = [s \in Session |-> "none"]
  /\ shadow = [s \in Session |-> FALSE]
  /\ index = [s \in Session |-> "none"]
  /\ phase = "down" /\ append = NoAppend /\ todo = <<>>
  /\ listening = FALSE /\ events = <<>>
  /\ actor = [a \in Actor |-> Idle]
  /\ uploads = {}
  /\ files = [s \in Session |-> {}]
  /\ refused \in SUBSET Session
  /\ lost = {} /\ unheard = {} /\ unindexed = {}
  /\ crashes = 0

\* The session of the message the consumer is appending.
Appended == topic[append.k]
Appending(s) == append.at # "none" /\ Appended = s

\* An expiry event of s, or its upload, is under way.
Heard(s)   == \/ s \in ToSet(events)
              \/ actor["event"].at # "idle" /\ actor["event"].s = s
Handled(s) == \/ s \in ToSet(events) \cup ToSet(todo)
              \/ \E a \in Actor : actor[a].at # "idle" /\ actor[a].s = s

\* What was handed to an upload of s whose task has not removed the list yet.
Taken(s) == UNION {actor[a].read : a \in {b \in Actor : actor[b].s = s}}

\* The outcomes of a command to Redis whose result the code discards.
Applied == {TRUE} \cup (IF "redis" \in Faults THEN {FALSE} ELSE {})

Lose(S) == lost' = lost \cup S

-----------------------------------------------------------------------------
(***************************************************************************)
(* The log service hands a message for session s to the producer.  What    *)
(* the producer refuses or does not deliver never gets here.               *)
(***************************************************************************)
SendTrackBytes(s) ==
  /\ Len(topic) < MaxMessages
  /\ topic' = Append(topic, s)
  /\ UNCHANGED <<next, took, committed, redis, tasks, files, refused, lost, missed,
                 crashes>>

(***************************************************************************)
(* Redis.  The shadow key expires when its time to live is over, which     *)
(* POST /session/:id/sync of the server cuts down to a second.  Redis      *)
(* publishes that to who listens at the moment.  A worker that is down     *)
(* finds the session by its score at the next start.                       *)
(***************************************************************************)
ShadowExpires(s) ==
  /\ shadow[s]
  /\ shadow' = [shadow EXCEPT ![s] = FALSE]
  /\ events' = IF listening THEN Append(events, s) ELSE events
  /\ unheard' = IF listening \/ phase = "down" THEN unheard ELSE unheard \cup {s}
  /\ UNCHANGED <<kafka, data, ttl, index, phase, append, todo, listening, actor,
                 uploads, files, refused, lost, unindexed, crashes>>

\* The score is the worker's clock in seconds, set after the shadow key: it is
\* reached about when the key expires, before or after.
ScoreReached(s) ==
  /\ index[s] = "future"
  /\ index' = [index EXCEPT ![s] = "due"]
  /\ UNCHANGED <<kafka, data, ttl, shadow, tasks, files, refused, lost, missed,
                 crashes>>

\* A list whose time to live was renewed lives twice as long as the shadow
\* key: time enough for what is being handled, but not for what nobody
\* handles.  One whose renewal failed may expire at any time.
DataExpires(s) ==
  /\ data[s] # {}
  /\ \/ ttl[s] = "stale"
     \/ ttl[s] = "fresh" /\ ~shadow[s] /\ index[s] # "future" /\ ~Handled(s)
        /\ ~Appending(s)
  /\ data' = [data EXCEPT ![s] = {}]
  /\ ttl' = [ttl EXCEPT ![s] = "none"]
  /\ Lose(data[s] \ Taken(s))
  /\ UNCHANGED <<kafka, shadow, index, tasks, files, refused, missed, crashes>>

-----------------------------------------------------------------------------
(***************************************************************************)
(* The worker starts: init_redis subscribes and spawns the handler of      *)
(* expiry events, then main looks for expired sessions.                    *)
(***************************************************************************)
Start ==
  /\ phase = "down"
  /\ phase' = "scan" /\ listening' = TRUE
  /\ UNCHANGED <<kafka, redis, append, todo, events, actor, uploads, files,
                 refused, lost, missed, crashes>>

ScanFor(S) ==
  /\ phase = "scan"
  /\ phase' = "compensate"
  /\ todo' = SetToSeq(S)
  /\ unheard' = unheard \cup {s \in Session : ~shadow[s] /\ index[s] # "due" /\ ~Heard(s)}
  /\ UNCHANGED <<kafka, redis, append, listening, events, actor, uploads,
                 files, refused, lost, unindexed, crashes>>

\* Mutant: it looks for those that have not expired yet.
ScanUnexpired == ScanFor({s \in Session : index[s] = "future"})

\* A session that has expired and whose score is still to come is overlooked.
Scan == ScanFor({s \in Session : index[s] = "due"})

\* compensate_sessions: a session whose shadow key lives is left to its event.
CheckShadow ==
  /\ phase = "compensate" /\ todo # <<>> /\ actor["compensation"].at = "idle"
  /\ todo' = Tail(todo)
  /\ actor' = IF shadow[Head(todo)] THEN actor
              ELSE [actor EXCEPT !["compensation"] =
                      [Idle EXCEPT !.at = "read", !.s = Head(todo)]]
  /\ UNCHANGED <<kafka, redis, phase, append, listening, events, uploads,
                 files, refused, lost, missed, crashes>>

(***************************************************************************)
(* The consumer begins where its group has committed.  auto.offset.reset   *)
(* is unset: without a committed offset it begins at the end of the topic, *)
(* and what is there already is passed over.                               *)
(***************************************************************************)
Consume ==
  /\ phase = "compensate" /\ todo = <<>> /\ actor["compensation"].at = "idle"
  /\ phase' = "run" /\ took' = FALSE
  /\ next' = IF committed = None THEN Len(topic) ELSE next
  /\ Lose((next + 1) .. next')
  /\ UNCHANGED <<topic, committed, redis, append, todo, listening, events, actor,
                 uploads, files, refused, missed, crashes>>

\* process_message takes the next event.
TakeEvent ==
  /\ listening /\ events # <<>> /\ actor["event"].at = "idle"
  /\ events' = Tail(events)
  /\ actor' = [actor EXCEPT !["event"] =
                 [Idle EXCEPT !.at = "read", !.s = Head(events)]]
  /\ UNCHANGED <<kafka, redis, phase, append, todo, listening, uploads,
                 files, refused, lost, missed, crashes>>

(***************************************************************************)
(* upload_session reads the list and spawns the upload without waiting,    *)
(* or reads it for nothing when it cannot tell the application from the    *)
(* key; the caller then removes the index entry and the list in any case,  *)
(* and does not look whether these commands succeed.                       *)
(***************************************************************************)
ReadList(a) ==
  LET s == actor[a].s
      u == [s |-> s, batches |-> data[s], by |-> a]
  IN  /\ actor[a].at = "read"
      /\ actor' = [actor EXCEPT ![a].at = "zrem",
                                ![a].read = IF s \in refused THEN {} ELSE data[s]]
      /\ uploads' = IF s \in refused THEN uploads ELSE uploads \cup {u}
      /\ UNCHANGED <<kafka, redis, phase, append, todo, listening, events, files,
                     refused, lost, missed, crashes>>

RemoveIndex(a) ==
  /\ actor[a].at = "zrem"
  /\ actor' = [actor EXCEPT ![a].at = "del"]
  /\ \E done \in Applied :
       index' = IF done THEN [index EXCEPT ![actor[a].s] = "none"] ELSE index
  /\ UNCHANGED <<kafka, data, ttl, shadow, phase, append, todo, listening, events,
                 uploads, files, refused, lost, missed, crashes>>

\* A list that stays without its index entry is found by nobody.
DeleteList(a) ==
  LET s == actor[a].s
  IN  /\ actor[a].at = "del"
      /\ actor' = [actor EXCEPT ![a] = Idle]
      /\ \E done \in Applied :
           /\ data' = IF done THEN [data EXCEPT ![s] = {}] ELSE data
           /\ ttl' = IF done THEN [ttl EXCEPT ![s] = "none"] ELSE ttl
           /\ Lose(IF done THEN data[s] \ Taken(s) ELSE {})
           /\ unheard' = IF done \/ shadow[s] THEN unheard ELSE unheard \cup {s}
           /\ unindexed' = IF done \/ index[s] # "none" THEN unindexed
                           ELSE unindexed \cup {s}
      /\ UNCHANGED <<kafka, shadow, index, phase, append, todo, listening,
                     events, uploads, files, refused, crashes>>

(***************************************************************************)
(* The spawned upload.  It leaves out the batches that it cannot unpack;   *)
(* the file is put, then its address is pushed to the document of the      *)
(* session, which must exist: the update does not insert.  A put or an     *)
(* update that fails, or a missing document, loses the batches just like   *)
(* that: their list is deleted whatever becomes of the upload.             *)
(***************************************************************************)
Upload(u) ==
  /\ uploads' = uploads \ {u}
  /\ \E bad \in {{}} \cup (IF "upload" \in Faults THEN SUBSET u.batches ELSE {}) :
       /\ files' = [files EXCEPT ![u.s] = @ \cup (u.batches \ bad)]
       /\ Lose(bad)
  /\ UNCHANGED <<kafka, redis, phase, append, todo, listening, events, actor,
                 refused, missed, crashes>>

-----------------------------------------------------------------------------
(***************************************************************************)
(* The consumer: take a message, then push it, renew the life of the list, *)
(* set the shadow key and the index.  What becomes of a command is not     *)
(* looked at, and the offset of what was taken is committed in the         *)
(* background.                                                             *)
(***************************************************************************)
Take ==
  /\ phase = "run" /\ append.at = "none" /\ next < Len(topic)
  /\ next' = next + 1 /\ took' = TRUE
  /\ append' = [at |-> "rpush", k |-> next + 1]
  /\ UNCHANGED <<topic, committed, redis, phase, todo, listening, events, actor,
                 uploads, files, refused, lost, missed, crashes>>

Rpush ==
  /\ append.at = "rpush" /\ append' = [append EXCEPT !.at = "expire"]
  /\ \E done \in Applied :
       /\ data' = IF done THEN [data EXCEPT ![Appended] = @ \cup {append.k}] ELSE data
       /\ ttl' = IF done /\ ttl[Appended] = "fresh"
                 THEN [ttl EXCEPT ![Appended] = "stale"] ELSE ttl
       /\ Lose(IF done THEN {} ELSE {append.k})
  /\ UNCHANGED <<kafka, shadow, index, phase, todo, listening, events, actor, uploads,
                 files, refused, missed, crashes>>

Expire ==
  /\ append.at = "expire" /\ append' = [append EXCEPT !.at = "set_ex"]
  /\ \E done \in Applied :
       ttl' = IF done /\ data[Appended] # {} THEN [ttl EXCEPT ![Appended] = "fresh"]
              ELSE ttl
  /\ UNCHANGED <<kafka, data, shadow, index, phase, todo, listening, events, actor,
                 uploads, files, refused, lost, missed, crashes>>

\* Without a shadow key there is no expiry to hear of.
SetEx ==
  /\ append.at = "set_ex" /\ append' = [append EXCEPT !.at = "zadd"]
  /\ \E done \in Applied :
       /\ shadow' = IF done THEN [shadow EXCEPT ![Appended] = TRUE] ELSE shadow
       /\ unheard' = IF done THEN unheard \ {Appended}
                     ELSE IF shadow[Appended] THEN unheard ELSE unheard \cup {Appended}
  /\ UNCHANGED <<kafka, data, ttl, index, phase, todo, listening, events, actor,
                 uploads, files, refused, lost, unindexed, crashes>>

Zadd ==
  /\ append.at = "zadd" /\ append' = NoAppend
  /\ \E done \in Applied :
       /\ index' = IF done THEN [index EXCEPT ![Appended] = "future"] ELSE index
       /\ unindexed' = IF done THEN unindexed \ {Appended}
                       ELSE IF index[Appended] = "none" THEN unindexed \cup {Appended}
                       ELSE unindexed
  /\ UNCHANGED <<kafka, data, ttl, shadow, phase, todo, listening, events, actor,
                 uploads, files, refused, lost, unheard, crashes>>

CommitTo(n) ==
  /\ phase = "run" /\ took /\ committed < next
  /\ committed' = n
  /\ UNCHANGED <<topic, next, took, redis, tasks, files, refused, lost, missed, crashes>>

\* Mutant: the end of the topic is committed and not what was taken.
CommitEnd == CommitTo(Len(topic))

Commit == CommitTo(next)

-----------------------------------------------------------------------------
(***************************************************************************)
(* Faults.  The task that hears the events ends when its connection breaks *)
(* or when it cannot read a list, which it unwraps; nobody subscribes      *)
(* again.                                                                  *)
(***************************************************************************)
Deafen(S) ==
  /\ listening' = FALSE /\ events' = <<>>
  /\ unheard' = unheard \cup S \cup ToSet(events)
  /\ UNCHANGED <<kafka, redis, phase, append, todo, uploads, files, refused, lost,
                 unindexed, crashes>>

PubsubBreaks ==
  /\ "pubsub" \in Faults /\ listening
  /\ actor["event"].at = "idle"
  /\ Deafen({}) /\ UNCHANGED actor

ListenerPanics ==
  /\ "redis" \in Faults
  /\ actor["event"].at = "read"
  /\ actor' = [actor EXCEPT !["event"] = Idle]
  /\ Deafen({actor["event"].s})

(***************************************************************************)
(* The worker crashes, or main ends because a command fails whose result   *)
(* it does look at (47, 266, 293).  What it holds in memory is gone.  What *)
(* it has taken since the commit comes again; without a commit, nothing    *)
(* does.                                                                   *)
(***************************************************************************)
Cut == IF append.at = "none" THEN {} ELSE {Appended}

Crash ==
  /\ phase # "down" /\ crashes < MaxCrashes
  /\ crashes' = crashes + 1
  /\ phase' = "down" /\ append' = NoAppend /\ todo' = <<>>
  /\ listening' = FALSE /\ events' = <<>>
  /\ actor' = [a \in Actor |-> Idle]
  /\ uploads' = {}
  /\ next' = IF committed = None THEN next ELSE committed
  /\ Lose((UNION {u.batches : u \in uploads})
            \cup (IF append.at = "rpush" THEN {append.k} \cap 1 .. next' ELSE {}))
  /\ unheard' = unheard \cup {s \in Session : Heard(s) \/ (s \in Cut /\ ~shadow[s])}
  /\ unindexed' = unindexed \cup {s \in Session :
                     /\ index[s] = "none"
                     /\ \/ s \in Cut
                        \/ \E a \in Actor : actor[a].at = "del" /\ actor[a].s = s}
  /\ UNCHANGED <<topic, took, committed, redis, files, refused>>

Listen  == TakeEvent \/ ReadList("event") \/ RemoveIndex("event")
           \/ DeleteList("event")
Main    == \/ Scan \/ CheckShadow \/ Consume
           \/ ReadList("compensation") \/ RemoveIndex("compensation")
           \/ DeleteList("compensation")
           \/ Take \/ Rpush \/ Expire \/ SetEx \/ Zadd

Next ==
  \/ \E s \in Session : \/ SendTrackBytes(s) \/ ShadowExpires(s)
                        \/ ScoreReached(s) \/ DataExpires(s)
  \/ Start \/ Main \/ Listen \/ Commit
  \/ \E u \in uploads : Upload(u)
  \/ PubsubBreaks \/ ListenerPanics \/ Crash

Spec == Init /\ [][Next]_vars

(***************************************************************************)
(* Fairness: the worker is started again and its tasks go on, keys expire  *)
(* in their time, scores are reached.                                      *)
(***************************************************************************)
Fairness ==
  /\ WF_vars(Start) /\ WF_vars(Main) /\ WF_vars(Listen)
  /\ \A s \in Session : WF_vars(ShadowExpires(s)) /\ WF_vars(ScoreReached(s))

FairSpec == Spec /\ Fairness

-----------------------------------------------------------------------------
(***************************************************************************)
(* Properties.                                                             *)
(***************************************************************************)
Position == 1 .. Len(topic)

\* The types of the variables.
TypeOK ==
  /\ topic \in Seq(Session)
  /\ None <= committed /\ committed <= next /\ next <= Len(topic) /\ took \in BOOLEAN
  /\ {data, files} \subseteq [Session -> SUBSET Position]
  /\ shadow \in [Session -> BOOLEAN]
  /\ ttl \in [Session -> {"none", "stale", "fresh"}]
  /\ index \in [Session -> {"none", "future", "due"}]
  /\ phase \in {"down", "scan", "compensate", "run"}
  /\ append.at \in {"none", "rpush", "expire", "set_ex", "zadd"}
  /\ append.at # "none" => append.k \in Position
  /\ \A a \in Actor : actor[a].at \in {"idle", "read", "zrem", "del"}
  /\ {todo, events} \subseteq Seq(Session) /\ listening \in BOOLEAN
  /\ {refused, unheard, unindexed} \subseteq SUBSET Session

Stored(k) == \E s \in Session : k \in data[s] \cup files[s]

(***************************************************************************)
(* What the consumer has passed is on its way to a file or in one.  A      *)
(* batch is lost in these ways only: it was in the topic before the first  *)
(* commit; Redis refused it; it came while its session was being uploaded; *)
(* its list expired unhandled, or had a key that names no application; its *)
(* upload failed; or the worker crashed when its offset was committed, or  *)
(* none was.  And a session with batches that no task is busy with has its *)
(* entry in the index, by which the next start of the worker can find it,  *)
(* unless a command to Redis failed or a crash came between the two.       *)
(***************************************************************************)
BatchesAreIndexed ==
  \A s \in Session :
    data[s] # {} /\ ~Appending(s) /\ ~Handled(s) /\ s \notin unindexed
      => index[s] # "none"

EveryBatchAccounted ==
  /\ TypeOK
  /\ \A k \in 1 .. next :
       \/ Stored(k)
       \/ append.at = "rpush" /\ append.k = k
       \/ \E u \in uploads : k \in u.batches
       \/ k \in lost
  /\ BatchesAreIndexed

(***************************************************************************)
(* Every session is taken out of Redis in the end, whether its expiry is   *)
(* announced, or passes while the worker is down and is found by the scan  *)
(* at its start, or falls between the two; unless its latest expiry is one *)
(* that the worker misses, or it is not in the index.                      *)
(***************************************************************************)
SessionsAreCollected ==
  \A s \in Session : data[s] # {} ~> data[s] = {} \/ s \in unheard \cup unindexed
=============================================================================
