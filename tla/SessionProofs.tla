--------------------------- MODULE SessionProofs ---------------------------
(***************************************************************************)
(* Theorems about a recorded session, on its way and at its end, for every *)
(* value of the constants.                                                 *)
(*                                                                         *)
(* SessionPipeline: for every set of sessions, every bound on the messages *)
(* and the crashes, and every choice of what may fail, no batch that the   *)
(* worker passed in the topic disappears but in a way the model names as a *)
(* loss.  Two facts make the invariant inductive.  What a task of the      *)
(* worker has read of a list, and is about to delete, is in an upload that *)
(* was spawned from it, or already in a file, or already lost (ReadKept);  *)
(* so the delete loses exactly what came after the read.  And a session    *)
(* with batches is without its entry in the index only while its list is   *)
(* being deleted or a batch of it is being appended, or after a failure    *)
(* that is named (Indexed).                                                *)
(*                                                                         *)
(* SessionConsole: the dialog that plays a session has one player, because *)
(* every caller that waited for the events destroys the player of the one  *)
(* before it (OnOpenedSound).  And a video that is saved is the one ffmpeg *)
(* wrote, because what was made is cut, while the connection holds, into   *)
(* what is in the file, the messages on the wire in their order, and what  *)
(* waits for the next (Cuts); the message that ends it comes last.         *)
(***************************************************************************)
EXTENDS SessionPipeline, SessionConsole, FiniteSetTheorems, SequenceTheorems,
        WellFoundedInduction, TLAPS

Filed(k) == \E s \in Session : k \in files[s]
Kept(k)  == \E u \in uploads : k \in u.batches

ActorType == [at : {"idle", "read", "zrem", "del"}, s : Session, read : SUBSET Position]

UploadType == [s : Session, batches : SUBSET Position, by : Actor]

AppendType == [at : {"none", "rpush", "expire", "set_ex", "zadd"}, k : Nat]

KafkaOK ==
  /\ topic \in Seq(Session) /\ took \in BOOLEAN
  /\ next \in Nat /\ committed \in Int
  /\ None <= committed /\ committed <= next /\ next <= Len(topic)
  /\ append \in AppendType
  /\ append.at # "none" => append.k \in 1 .. next

RedisOK ==
  /\ data \in [Session -> SUBSET Position]
  /\ ttl \in [Session -> {"none", "stale", "fresh"}]
  /\ shadow \in [Session -> BOOLEAN]
  /\ index \in [Session -> {"none", "future", "due"}]
  /\ \A s \in Session : index[s] # "none" => s \in ToSet(topic)
  /\ refused \subseteq Session

WorkerOK ==
  /\ phase \in {"down", "scan", "compensate", "run"}
  /\ {todo, events} \subseteq Seq(Session) /\ listening \in BOOLEAN

UploadsOK ==
  /\ actor \in [Actor -> ActorType]
  /\ uploads \subseteq UploadType
  /\ files \in [Session -> SUBSET Position]

MissedOK == {unheard, unindexed} \subseteq SUBSET Session

Typed == KafkaOK /\ RedisOK /\ WorkerOK /\ UploadsOK /\ MissedOK

\* Every position that was passed is in one of these places.
Accounted ==
  \A k \in 1 .. next : \/ Stored(k) \/ Kept(k) \/ k \in lost
                       \/ append.at = "rpush" /\ append.k = k

ReadKept ==
  \A a \in Actor : \A k \in actor[a].read : Filed(k) \/ Kept(k) \/ k \in lost

Deleting(s) == \E a \in Actor : actor[a].at = "del" /\ actor[a].s = s

\* s is in the index, or why it is not.
Found(s) == \/ data[s] = {} \/ index[s] # "none" \/ s \in unindexed
            \/ Appending(s) \/ Deleting(s)

Indexed == \A s \in Session : Found(s)

IInv == Typed /\ Accounted /\ ReadKept /\ Indexed

-----------------------------------------------------------------------------
(***************************************************************************)
(* Sequences.                                                              *)
(***************************************************************************)

\* What a sequence holds, of its elements; what an element more adds.
LEMMA ToSetFacts ==
  ASSUME NEW S, NEW q \in Seq(S)
  PROVE  /\ ToSet(q) \subseteq S
         /\ \A e \in S : /\ Append(q, e) \in Seq(S)
                         /\ ToSet(Append(q, e)) = ToSet(q) \cup {e}
         /\ \A e \in ToSet(q) : \E i \in 1 .. Len(q) : q[i] = e
         /\ \A i \in 1 .. Len(q) : q[i] \in ToSet(q)
<1>1. DOMAIN q = 1 .. Len(q) /\ Len(q) \in Nat /\ \A i \in 1 .. Len(q) : q[i] \in S
  BY LenProperties, ElementOfSeq
<1>2. ToSet(q) \subseteq S /\ (\A i \in 1 .. Len(q) : q[i] \in ToSet(q))
      /\ \A e \in ToSet(q) : \E i \in 1 .. Len(q) : q[i] = e
  BY <1>1 DEF ToSet
<1>3. ASSUME NEW e \in S
      PROVE  Append(q, e) \in Seq(S) /\ ToSet(Append(q, e)) = ToSet(q) \cup {e}
  <2> DEFINE w == Append(q, e)
  <2>1. /\ w \in Seq(S) /\ Len(w) = Len(q) + 1
        /\ \A i \in 1 .. Len(q) : w[i] = q[i]
        /\ w[Len(q) + 1] = e
    BY <1>3, AppendProperties
  <2>2. DOMAIN w = 1 .. Len(q) + 1
    BY <1>1, <2>1, LenProperties
  <2> HIDE DEF w
  <2>3. ToSet(w) \subseteq ToSet(q) \cup {e}
    <3> SUFFICES ASSUME NEW i \in 1 .. Len(q) + 1 PROVE w[i] \in ToSet(q) \cup {e}
      BY <2>2 DEF ToSet
    <3> QED BY <1>1, <1>2, <2>1
  <2>4. ToSet(q) \cup {e} \subseteq ToSet(w)
    <3>1. w[Len(q) + 1] \in ToSet(w)
      BY <1>1, <2>2 DEF ToSet
    <3>2. ASSUME NEW i \in 1 .. Len(q) PROVE q[i] \in ToSet(w)
      BY <1>1, <2>1, <2>2, <3>2 DEF ToSet
    <3> QED BY <1>2, <2>1, <3>1, <3>2
  <2> QED BY <2>1, <2>3, <2>4 DEF w
<1> QED BY <1>2, <1>3

\* A sequence has finitely many elements.
LEMMA ToSetFinite ==
  ASSUME NEW S, NEW q \in Seq(S)
  PROVE  IsFiniteSet(ToSet(q))
<1>1. Len(q) \in Nat /\ DOMAIN q = 1 .. Len(q) /\ q \in [1 .. Len(q) -> S]
  BY LenProperties
<1>2. q \in [1 .. Len(q) -> ToSet(q)] /\ \A e \in ToSet(q) : \E i \in 1 .. Len(q) : q[i] = e
  BY <1>1, ToSetFacts
<1>3. q \in Surjection(1 .. Len(q), ToSet(q))
  BY <1>2 DEF Surjection
<1> QED BY <1>1, <1>3, FS_NatSurjection DEF ExistsSurjection

\* SetToSeq of a finite set is a sequence of its elements.
LEMMA SetToSeqType ==
  ASSUME NEW S, IsFiniteSet(S)
  PROVE  SetToSeq(S) \in Seq(S)
<1>1. Cardinality(S) \in Nat /\ ExistsBijection(1 .. Cardinality(S), S)
  BY FS_CardinalityType
<1>2. PICK f : f \in Bijection(1 .. Cardinality(S), S)
  BY <1>1 DEF ExistsBijection
<1>3. f \in [1 .. Cardinality(S) -> S] /\ IsInjective(f)
  BY <1>2 DEF Bijection, Injection, IsInjective
<1>4. SetToSeq(S) \in [1 .. Cardinality(S) -> S]
  BY <1>3 DEF SetToSeq
<1> QED BY <1>1, <1>4
(***************************************************************************)
(* The types, one group of variables after the other.                      *)
(***************************************************************************)

\* The topic only grows: a position stays one, and keeps its session.
LEMMA TopicGrows ==
  ASSUME Typed, [Next]_vars
  PROVE  /\ topic' \in Seq(Session) /\ Len(topic) <= Len(topic')
         /\ \A i \in 1 .. Len(topic) : topic'[i] = topic[i]
         /\ ToSet(topic) \subseteq ToSet(topic')
         /\ Len(topic') \in Nat /\ Len(topic) \in Nat
<1>0. topic \in Seq(Session) /\ Len(topic) \in Nat
  BY LenProperties DEF Typed, KafkaOK
<1>1. topic' = topic \/ \E s \in Session : topic' = Append(topic, s)
  BY DEF Next, vars, kafka, redis, tasks, missed, SendTrackBytes, ShadowExpires, ScoreReached,
         DataExpires, Start, Main, Listen, Scan, ScanFor, CheckShadow, Consume, TakeEvent,
         ReadList, RemoveIndex, DeleteList, Upload, Take, Rpush, Expire, SetEx, Zadd, Commit,
         CommitTo, PubsubBreaks, ListenerPanics, Deafen, Crash
<1>2. CASE topic' = topic
  BY <1>0, <1>2
<1>3. ASSUME NEW s \in Session, topic' = Append(topic, s)
      PROVE  /\ topic' \in Seq(Session) /\ Len(topic) <= Len(topic')
             /\ \A i \in 1 .. Len(topic) : topic'[i] = topic[i]
             /\ ToSet(topic) \subseteq ToSet(topic') /\ Len(topic') \in Nat
  BY <1>0, <1>3, AppendProperties, ToSetFacts
<1> QED BY <1>0, <1>1, <1>2, <1>3

LEMMA PositionsGrow ==
  ASSUME Typed, [Next]_vars
  PROVE  /\ Position \subseteq Position'
         /\ ActorType \subseteq ActorType' /\ UploadType \subseteq UploadType'
<1>1. Position \subseteq Position'
  BY TopicGrows DEF Position
<1> QED BY <1>1 DEF ActorType, UploadType

\* The actions of the surroundings and of the listener leave these alone.
LEMMA KafkaFrame ==
  ASSUME [Next]_vars
  PROVE  \/ UNCHANGED <<next, took, committed, append>>
         \/ Consume \/ Take \/ Rpush \/ Expire \/ SetEx \/ Zadd \/ Commit \/ Crash
BY DEF Next, vars, kafka, redis, tasks, missed, SendTrackBytes, ShadowExpires,
         ScoreReached, DataExpires, Start, Main, Listen, Scan, ScanFor, CheckShadow,
         TakeEvent, ReadList, RemoveIndex, DeleteList, Upload, PubsubBreaks,
         ListenerPanics, Deafen

LEMMA KafkaStep ==
  ASSUME Typed, [Next]_vars
  PROVE  KafkaOK'
<1> USE DEF KafkaOK
<1>0. KafkaOK /\ topic' \in Seq(Session) /\ Len(topic) <= Len(topic')
      /\ Len(topic) \in Nat /\ Len(topic') \in Nat
  BY TopicGrows DEF Typed
<1>1. CASE Take
  BY <1>0, <1>1 DEF Take, AppendType
<1>2. CASE Rpush \/ Expire \/ SetEx
  BY <1>0, <1>2 DEF Rpush, Expire, SetEx, kafka, AppendType
<1>3. CASE Zadd
  BY <1>0, <1>3 DEF Zadd, kafka, NoAppend, AppendType
<1>4. CASE Commit
  BY <1>0, <1>4 DEF Commit, CommitTo, tasks, None
<1>5. CASE Crash
  BY <1>0, <1>5 DEF Crash, NoAppend, AppendType, None
<1>6. CASE Consume
  <2>1. /\ UNCHANGED <<topic, committed, append>> /\ took' = FALSE
        /\ next' = IF committed = None THEN Len(topic) ELSE next
    BY <1>6 DEF Consume
  <2>2. next' \in Nat /\ next <= next' /\ next' <= Len(topic)
    BY <1>0, <2>1
  <2>3. took' \in BOOLEAN
    BY <2>1
  <2> QED BY <1>0, <2>1, <2>2, <2>3
<1>7. CASE UNCHANGED <<next, took, committed, append>>
  BY <1>0, <1>7
<1> QED BY <1>1, <1>2, <1>3, <1>4, <1>5, <1>6, <1>7, KafkaFrame

\* The session of a message that is being appended.
LEMMA AppendedType ==
  ASSUME Typed, append.at # "none"
  PROVE  Appended \in Session /\ Appended \in ToSet(topic) /\ append.k \in Position
<1>1. append.k \in 1 .. Len(topic) /\ topic \in Seq(Session)
  BY LenProperties DEF Typed, KafkaOK
<1> QED BY <1>1, ToSetFacts, ElementOfSeq DEF Appended, Position

LEMMA ActorsType ==
  ASSUME Typed, NEW a \in Actor
  PROVE  actor[a] \in ActorType /\ actor[a].s \in Session
BY DEF Typed, UploadsOK, ActorType

\* What changes the keys in Redis.
LEMMA RedisFrame ==
  ASSUME [Next]_vars
  PROVE  \/ UNCHANGED <<data, ttl, shadow, index>>
         \/ Rpush \/ Expire \/ SetEx \/ Zadd
         \/ \E s \in Session : ShadowExpires(s) \/ ScoreReached(s) \/ DataExpires(s)
         \/ \E a \in Actor : RemoveIndex(a) \/ DeleteList(a)
BY DEF Next, vars, kafka, redis, tasks, missed, SendTrackBytes, Start, Main, Listen,
         Scan, ScanFor, CheckShadow, Consume, TakeEvent, ReadList, Upload, Take, Commit,
         CommitTo, PubsubBreaks, ListenerPanics, Deafen, Crash, Actor

LEMMA RedisStep ==
  ASSUME Typed, [Next]_vars
  PROVE  RedisOK'
<1> USE DEF RedisOK
<1>0. RedisOK /\ Position \subseteq Position' /\ ToSet(topic) \subseteq ToSet(topic')
  BY TopicGrows, PositionsGrow DEF Typed
<1>r. refused' = refused
  BY DEF Next, vars, kafka, redis, tasks, missed, SendTrackBytes, ShadowExpires, ScoreReached,
         DataExpires, Start, Main, Listen, Scan, ScanFor, CheckShadow, Consume, TakeEvent,
         ReadList, RemoveIndex, DeleteList, Upload, Take, Rpush, Expire, SetEx, Zadd, Commit,
         CommitTo, PubsubBreaks, ListenerPanics, Deafen, Crash
<1>1. CASE Rpush
  <2>1. Appended \in Session /\ append.k \in Position
    BY <1>1, AppendedType DEF Rpush
  <2> QED BY <1>0, <1>r, <1>1, <2>1 DEF Rpush
<1>2. CASE Expire
  BY <1>0, <1>r, <1>2, AppendedType DEF Expire
<1>3. CASE SetEx
  BY <1>0, <1>r, <1>3, AppendedType DEF SetEx
<1>4. CASE Zadd
  BY <1>0, <1>r, <1>4, AppendedType DEF Zadd
<1>5. ASSUME NEW a \in Actor, RemoveIndex(a) \/ DeleteList(a) PROVE RedisOK'
  BY <1>0, <1>r, <1>5, ActorsType DEF RemoveIndex, DeleteList
<1>6. ASSUME NEW s \in Session, ShadowExpires(s) \/ ScoreReached(s) \/ DataExpires(s)
      PROVE  RedisOK'
  BY <1>0, <1>r, <1>6 DEF ShadowExpires, ScoreReached, DataExpires
<1>7. CASE UNCHANGED <<data, ttl, shadow, index>>
  BY <1>0, <1>r, <1>7
<1> QED BY <1>1, <1>2, <1>3, <1>4, <1>5, <1>6, <1>7, RedisFrame

LEMMA WorkerFrame ==
  ASSUME [Next]_vars
  PROVE  \/ UNCHANGED <<phase, todo, events, listening>>
         \/ Scan \/ CheckShadow \/ TakeEvent \/ Consume \/ Start \/ PubsubBreaks
         \/ ListenerPanics \/ Crash \/ \E s \in Session : ShadowExpires(s)
BY DEF Next, vars, kafka, redis, tasks, missed, SendTrackBytes, ScoreReached,
         DataExpires, Main, Listen, ReadList, RemoveIndex, DeleteList, Upload, Take,
         Rpush, Expire, SetEx, Zadd, Commit, CommitTo

LEMMA WorkerStep ==
  ASSUME Typed, [Next]_vars
  PROVE  WorkerOK'
<1> USE DEF WorkerOK
<1>0. WorkerOK /\ <<>> \in Seq(Session)
  BY EmptySeq DEF Typed
<1>1. CASE Scan
  <2> DEFINE D == {s \in Session : index[s] = "due"}
  <2>1. D \subseteq ToSet(topic)
    BY DEF Typed, RedisOK
  <2>2. IsFiniteSet(D)
    BY <2>1, ToSetFinite, FS_Subset DEF Typed, KafkaOK
  <2>3. SetToSeq(D) \in Seq(Session)
    <3>1. SetToSeq(D) \in Seq(D) /\ D \subseteq Session
      BY <2>2, SetToSeqType
    <3> HIDE DEF D
    <3> QED BY <3>1, SeqMonotonic
  <2>4. todo' = SetToSeq(D) /\ phase' = "compensate" /\ UNCHANGED <<events, listening>>
    BY <1>1 DEF Scan, ScanFor
  <2> QED BY <1>0, <2>3, <2>4
<1>2. CASE CheckShadow
  <2>1. Tail(todo) \in Seq(Session)
    BY <1>0, <1>2, HeadTailProperties DEF CheckShadow
  <2> QED BY <1>0, <1>2, <2>1 DEF CheckShadow
<1>3. CASE TakeEvent
  <2>1. Tail(events) \in Seq(Session)
    BY <1>0, <1>3, HeadTailProperties DEF TakeEvent
  <2> QED BY <1>0, <1>3, <2>1 DEF TakeEvent
<1>4. ASSUME NEW s \in Session, ShadowExpires(s) PROVE WorkerOK'
  <2>1. Append(events, s) \in Seq(Session)
    BY <1>0
  <2> QED BY <1>0, <1>4, <2>1 DEF ShadowExpires
<1>5. CASE Consume \/ PubsubBreaks \/ ListenerPanics \/ Crash \/ Start
  <2>1. CASE Consume \/ Start
    BY <1>0, <2>1 DEF Consume, Start
  <2>2. CASE Crash
    BY <1>0, <2>2 DEF Crash
  <2>3. CASE PubsubBreaks \/ ListenerPanics
    BY <1>0, <2>3 DEF PubsubBreaks, ListenerPanics, Deafen
  <2> QED BY <1>5, <2>1, <2>2, <2>3
<1>6. CASE UNCHANGED <<phase, todo, events, listening>>
  BY <1>0, <1>6
<1> QED BY <1>1, <1>2, <1>3, <1>4, <1>5, <1>6, WorkerFrame

LEMMA IdleType == Idle \in ActorType /\ Idle.at = "idle" /\ Idle.read = {}
<1>1. (CHOOSE s \in Session : TRUE) \in Session
  BY PipelineAssumption
<1> QED BY <1>1 DEF Idle, ActorType

\* An actor that is about to read has read nothing.
LEMMA ReaderType ==
  ASSUME NEW s \in Session
  PROVE  LET x == [Idle EXCEPT !.at = "read", !.s = s]
         IN  x \in ActorType /\ x.at = "read" /\ x.read = {}
BY IdleType DEF ActorType

LEMMA ActorFrame ==
  ASSUME [Next]_vars
  PROVE  \/ UNCHANGED actor
         \/ CheckShadow \/ TakeEvent \/ ListenerPanics \/ Crash
         \/ \E a \in Actor : ReadList(a) \/ RemoveIndex(a) \/ DeleteList(a)
BY DEF Next, vars, kafka, redis, tasks, missed, SendTrackBytes, ShadowExpires,
         ScoreReached, DataExpires, Start, Main, Listen, Scan, ScanFor, Consume, Upload,
         Take, Rpush, Expire, SetEx, Zadd, Commit, CommitTo, PubsubBreaks, Actor

\* What a step of the worker makes of the actors: another s, or one more step of one.
LEMMA ActorStep ==
  ASSUME Typed, [Next]_vars
  PROVE  /\ actor' \in [Actor -> ActorType]
         /\ \A a \in Actor : \/ actor'[a].read \subseteq actor[a].read
                            \/ /\ ReadList(a) /\ actor'[a].read \subseteq data[actor[a].s]
                               /\ actor[a].s \in refused => actor'[a].read = {}
<1>0. actor \in [Actor -> ActorType] /\ data \in [Session -> SUBSET Position]
  BY DEF Typed, UploadsOK, RedisOK
<1>1. CASE UNCHANGED actor
  BY <1>0, <1>1
<1>2. ASSUME NEW q \in Seq(Session), q # <<>>, NEW a \in Actor,
             actor' = [actor EXCEPT ![a] = [Idle EXCEPT !.at = "read", !.s = Head(q)]]
      PROVE  /\ actor' \in [Actor -> ActorType]
             /\ \A b \in Actor : actor'[b].read \subseteq actor[b].read
  <2> DEFINE x == [Idle EXCEPT !.at = "read", !.s = Head(q)]
  <2>1. Head(q) \in Session
    BY <1>2, HeadTailProperties
  <2>2. x \in ActorType /\ x.read = {}
    BY <2>1, ReaderType
  <2>3. actor' = [actor EXCEPT ![a] = x]
    BY <1>2
  <2> HIDE DEF x
  <2> QED BY <1>0, <2>2, <2>3
<1>3. CASE CheckShadow \/ TakeEvent
  <2>1. todo \in Seq(Session) /\ events \in Seq(Session)
    BY DEF Typed, WorkerOK
  <2>2. UNCHANGED actor \/ \E q \in {todo, events}, a \in Actor :
          q # <<>> /\ actor' = [actor EXCEPT ![a] = [Idle EXCEPT !.at = "read", !.s = Head(q)]]
    BY <1>3 DEF CheckShadow, TakeEvent, Actor
  <2> QED BY <1>1, <1>2, <2>1, <2>2
<1>4. CASE ListenerPanics \/ Crash
  <2>1. actor' = [a \in Actor |-> Idle] \/ actor' = [actor EXCEPT !["event"] = Idle]
    BY <1>4 DEF ListenerPanics, Crash
  <2> QED BY <1>0, <2>1, IdleType
<1>5. ASSUME NEW a \in Actor, DeleteList(a)
      PROVE  /\ actor' \in [Actor -> ActorType]
             /\ \A b \in Actor : actor'[b].read \subseteq actor[b].read
  <2>1. actor' = [actor EXCEPT ![a] = Idle]
    BY <1>5 DEF DeleteList
  <2> QED BY <1>0, <2>1, IdleType
<1>6. ASSUME NEW a \in Actor, RemoveIndex(a)
      PROVE  /\ actor' \in [Actor -> ActorType]
             /\ \A b \in Actor : actor'[b].read \subseteq actor[b].read
  <2> DEFINE x == [actor[a] EXCEPT !.at = "del"]
  <2>1. x \in ActorType /\ x.read = actor[a].read
    BY <1>0 DEF ActorType
  <2>2. actor' = [actor EXCEPT ![a] = x]
    BY <1>6 DEF RemoveIndex
  <2> HIDE DEF x
  <2> QED BY <1>0, <2>1, <2>2
<1>7. ASSUME NEW a \in Actor, ReadList(a)
      PROVE  /\ actor' \in [Actor -> ActorType]
             /\ actor'[a].read \subseteq data[actor[a].s]
             /\ (actor[a].s \in refused => actor'[a].read = {})
             /\ \A b \in Actor : b # a => actor'[b] = actor[b]
  <2> DEFINE r == IF actor[a].s \in refused THEN {} ELSE data[actor[a].s]
             x == [[actor[a] EXCEPT !.at = "zrem"] EXCEPT !.read = r]
  <2>1. actor[a] \in ActorType /\ actor[a].s \in Session /\ r \in SUBSET Position
    BY <1>0, ActorsType
  <2>2. x \in ActorType /\ x.read = r
    <3> HIDE DEF r
    <3> QED BY <2>1 DEF ActorType
  <2>3. actor' = [actor EXCEPT ![a] = x]
    BY <1>0, <1>7 DEF ReadList
  <2>4. r \subseteq data[actor[a].s] /\ (actor[a].s \in refused => r = {})
    OBVIOUS
  <2> HIDE DEF x, r
  <2> QED BY <1>0, <2>2, <2>3, <2>4
<1> QED BY <1>1, <1>3, <1>4, <1>5, <1>6, <1>7, ActorFrame

LEMMA UploadFrame ==
  ASSUME [Next]_vars
  PROVE  \/ UNCHANGED <<uploads, files>>
         \/ Crash /\ UNCHANGED files
         \/ \E a \in Actor : ReadList(a)
         \/ \E u \in uploads : Upload(u)
BY DEF Next, vars, kafka, redis, tasks, missed, SendTrackBytes, ShadowExpires,
         ScoreReached, DataExpires, Start, Main, Listen, Scan, ScanFor, CheckShadow,
         Consume, TakeEvent, RemoveIndex, DeleteList, Take, Rpush, Expire, SetEx, Zadd,
         Commit, CommitTo, PubsubBreaks, ListenerPanics, Deafen, Crash, Actor

LEMMA UploadsStep ==
  ASSUME Typed, [Next]_vars
  PROVE  UploadsOK'
<1> USE DEF UploadsOK
<1>0. UploadsOK /\ Position \subseteq Position' /\ ActorType \subseteq ActorType'
      /\ UploadType \subseteq UploadType' /\ data \in [Session -> SUBSET Position]
  BY PositionsGrow DEF Typed, RedisOK
<1>1. actor' \in [Actor -> ActorType']
  BY <1>0, ActorStep
<1>2. ASSUME NEW a \in Actor, ReadList(a)
      PROVE  uploads' \subseteq UploadType /\ files' = files
  <2> DEFINE u == [s |-> actor[a].s, batches |-> data[actor[a].s], by |-> a]
  <2>1. u \in UploadType
    BY <1>0, ActorsType DEF UploadType
  <2>2. uploads' \subseteq uploads \cup {u} /\ files' = files
    BY <1>2 DEF ReadList
  <2> HIDE DEF u
  <2> QED BY <1>0, <2>1, <2>2
<1>3. ASSUME NEW u \in uploads, Upload(u)
      PROVE  uploads' \subseteq UploadType /\ files' \in [Session -> SUBSET Position]
  <2>1. u.s \in Session /\ u.batches \in SUBSET Position
    BY <1>0 DEF UploadType
  <2>2. PICK bad : files' = [files EXCEPT ![u.s] = @ \cup (u.batches \ bad)]
    BY <1>3 DEF Upload
  <2>3. uploads' \subseteq UploadType
    BY <1>0, <1>3 DEF Upload
  <2> QED BY <1>0, <2>1, <2>2, <2>3
<1>4. uploads' \subseteq UploadType /\ files' \in [Session -> SUBSET Position]
  <2>1. Crash => uploads' = {}
    BY DEF Crash
  <2> QED BY <1>0, <1>2, <1>3, <2>1, UploadFrame
<1> QED BY <1>0, <1>1, <1>4

LEMMA MissedStep ==
  ASSUME Typed, [Next]_vars
  PROVE  MissedOK'
<1> USE DEF MissedOK
<1>0. MissedOK
  BY DEF Typed
<1>1. CASE UNCHANGED <<unheard, unindexed>>
  BY <1>0, <1>1
<1>2. CASE SetEx \/ Zadd
  BY <1>0, <1>2, AppendedType DEF SetEx, Zadd
<1>3. CASE PubsubBreaks \/ ListenerPanics
  <2>1. ToSet(events) \subseteq Session /\ actor["event"].s \in Session
    BY ToSetFacts, ActorsType DEF Typed, WorkerOK, Actor
  <2> QED BY <1>0, <1>3, <2>1 DEF PubsubBreaks, ListenerPanics, Deafen
<1>4. CASE Scan \/ Crash
  BY <1>0, <1>4 DEF Scan, ScanFor, Crash
<1>5. ASSUME NEW a \in Actor, DeleteList(a) PROVE MissedOK'
  BY <1>0, <1>5, ActorsType DEF DeleteList
<1>6. ASSUME NEW s \in Session, ShadowExpires(s) PROVE MissedOK'
  BY <1>0, <1>6 DEF ShadowExpires
<1>7. \/ UNCHANGED <<unheard, unindexed>> \/ SetEx \/ Zadd \/ PubsubBreaks \/ ListenerPanics
      \/ Scan \/ Crash \/ (\E a \in Actor : DeleteList(a))
      \/ \E s \in Session : ShadowExpires(s)
  BY DEF Next, vars, kafka, redis, tasks, missed, SendTrackBytes, ScoreReached,
         DataExpires, Start, Main, Listen, CheckShadow, Consume, TakeEvent, ReadList,
         RemoveIndex, Upload, Take, Rpush, Expire, Commit, CommitTo, Actor
<1> QED BY <1>1, <1>2, <1>3, <1>4, <1>5, <1>6, <1>7

-----------------------------------------------------------------------------
(***************************************************************************)
(* Where the batches are.                                                  *)
(***************************************************************************)

\* A file is not taken back, and a loss not undone.
LEMMA FilesStay ==
  ASSUME Typed, [Next]_vars
  PROVE  lost \subseteq lost' /\ \A k : Filed(k) => Filed(k)'
<1>1. files' = files \/ \E u \in uploads : \E S : files' = [files EXCEPT ![u.s] = @ \cup S]
  BY UploadFrame DEF Upload, ReadList
<1>2. lost \subseteq lost'
  BY DEF Next, vars, kafka, redis, tasks, missed, SendTrackBytes, ShadowExpires, ScoreReached,
         DataExpires, Start, Main, Listen, Scan, ScanFor, CheckShadow, Consume, TakeEvent,
         ReadList, RemoveIndex, DeleteList, Upload, Take, Rpush, Expire, SetEx, Zadd, Commit,
         CommitTo, PubsubBreaks, ListenerPanics, Deafen, Crash, Lose
<1>3. \A s \in Session : files[s] \subseteq files'[s]
  BY <1>1 DEF Typed, UploadsOK
<1> QED BY <1>2, <1>3 DEF Filed

\* What an upload holds stays in it until it is in a file or lost.
LEMMA UploadsKeep ==
  ASSUME Typed, [Next]_vars, NEW k, Kept(k)
  PROVE  Kept(k)' \/ Filed(k)' \/ k \in lost'
<1>1. PICK u \in uploads : k \in u.batches
  BY DEF Kept
<1>2. CASE u \in uploads'
  BY <1>1, <1>2 DEF Kept
<1>3. CASE Crash
  BY <1>1, <1>3 DEF Crash, Lose
<1>4. CASE Upload(u)
  <2>1. PICK bad : /\ files' = [files EXCEPT ![u.s] = @ \cup (u.batches \ bad)]
                   /\ lost' = lost \cup bad
    BY <1>4 DEF Upload, Lose
  <2>2. u.s \in Session /\ files \in [Session -> SUBSET Position]
    BY DEF Typed, UploadsOK, UploadType
  <2>3. CASE k \in bad
    BY <2>1, <2>3
  <2>4. CASE k \notin bad
    <3>1. k \in files'[u.s]
      BY <1>1, <2>1, <2>2, <2>4
    <3> QED BY <2>2, <3>1 DEF Filed
  <2> QED BY <2>3, <2>4
<1>5. u \in uploads' \/ Crash \/ Upload(u)
  BY UploadFrame DEF ReadList, Upload
<1> QED BY <1>2, <1>3, <1>4, <1>5

\* What is removed from a list was handed to an upload, or is lost.
LEMMA ListsKeep ==
  ASSUME Typed, ReadKept, [Next]_vars, NEW s \in Session, NEW k \in data[s]
  PROVE  k \in data'[s] \/ Kept(k)' \/ Filed(k)' \/ k \in lost'
<1>0. data \in [Session -> SUBSET Position]
  BY DEF Typed, RedisOK
<1>1. CASE data' = data
  BY <1>1
<1>2. CASE Rpush
  BY <1>0, <1>2, AppendedType DEF Rpush
<1>3. ASSUME NEW t \in Session, data' = [data EXCEPT ![t] = {}], lost' = lost \cup (data[t] \ Taken(t))
      PROVE  k \in data'[s] \/ Kept(k)' \/ Filed(k)' \/ k \in lost'
  <2>1. CASE t # s
    BY <1>0, <1>3, <2>1
  <2>2. CASE t = s /\ k \notin Taken(t)
    BY <1>3, <2>2
  <2>3. CASE k \in Taken(t)
    <3>1. PICK a \in Actor : k \in actor[a].read
      BY <2>3 DEF Taken
    <3>2. Filed(k) \/ Kept(k) \/ k \in lost
      BY <3>1 DEF ReadKept
    <3> QED BY <3>2, FilesStay, UploadsKeep
  <2> QED BY <2>1, <2>2, <2>3
<1>4. ASSUME NEW a \in Actor, DeleteList(a), data' # data
      PROVE  k \in data'[s] \/ Kept(k)' \/ Filed(k)' \/ k \in lost'
  <2>1. actor[a].s \in Session
    BY ActorsType
  <2>2. data' = [data EXCEPT ![actor[a].s] = {}]
        /\ lost' = lost \cup (data[actor[a].s] \ Taken(actor[a].s))
    BY <1>4 DEF DeleteList, Lose
  <2> QED BY <1>3, <2>1, <2>2
<1>5. ASSUME NEW t \in Session, DataExpires(t)
      PROVE  k \in data'[s] \/ Kept(k)' \/ Filed(k)' \/ k \in lost'
  BY <1>3, <1>5 DEF DataExpires, Lose
<1>6. data' = data \/ Rpush \/ (\E a \in Actor : DeleteList(a)) \/ \E t \in Session : DataExpires(t)
  BY RedisFrame DEF Expire, SetEx, Zadd, ShadowExpires, ScoreReached, RemoveIndex
<1> QED BY <1>1, <1>2, <1>4, <1>5, <1>6

LEMMA StoredKeeps ==
  ASSUME Typed, ReadKept, [Next]_vars, NEW k, Stored(k)
  PROVE  Stored(k)' \/ Kept(k)' \/ k \in lost'
<1>1. Filed(k)' => Stored(k)'
  BY DEF Filed, Stored
<1>2. CASE Filed(k)
  BY <1>1, <1>2, FilesStay
<1>3. ASSUME NEW s \in Session, k \in data[s] PROVE Stored(k)' \/ Kept(k)' \/ k \in lost'
  BY <1>1, <1>3, ListsKeep DEF Stored
<1> QED BY <1>2, <1>3 DEF Stored, Filed

\* A message that is being appended is in the list after the first command,
\* or lost.
LEMMA AppendKeeps ==
  ASSUME Typed, [Next]_vars, NEW k, append.at = "rpush", append.k = k, k \in 1 .. next'
  PROVE  Stored(k)' \/ k \in lost' \/ append' = append
<1>1. append' = append \/ Rpush \/ Crash
  BY KafkaFrame DEF Consume, Take, Expire, SetEx, Zadd, Commit, CommitTo, tasks
<1>2. CASE Rpush
  <2>1. Appended \in Session /\ data \in [Session -> SUBSET Position]
    BY <1>2, AppendedType DEF Rpush, Typed, RedisOK
  <2>2. \/ data' = [data EXCEPT ![Appended] = @ \cup {k}]
        \/ lost' = lost \cup {k}
    BY <1>2 DEF Rpush, Lose
  <2>3. PICK s \in Session : s = Appended
    BY <2>1
  <2> QED BY <2>1, <2>2, <2>3 DEF Stored
<1>3. CASE Crash
  BY <1>3 DEF Crash, Lose
<1> QED BY <1>1, <1>2, <1>3

LEMMA AccountedStep ==
  ASSUME Typed, ReadKept, Accounted, [Next]_vars
  PROVE  Accounted'
<1> SUFFICES ASSUME NEW k \in 1 .. next'
             PROVE  \/ Stored(k)' \/ Kept(k)' \/ k \in lost'
                    \/ append'.at = "rpush" /\ append'.k = k
  BY DEF Accounted
<1>0. next \in Nat /\ next' \in Nat /\ committed \in Int /\ committed <= next
  BY KafkaStep DEF Typed, KafkaOK
<1>1. CASE k \in 1 .. next
  <2>1. CASE Stored(k)
    BY <2>1, StoredKeeps
  <2>2. CASE Kept(k)
    <3>1. Filed(k)' => Stored(k)'
      BY DEF Filed, Stored
    <3> QED BY <2>2, <3>1, UploadsKeep
  <2>3. CASE k \in lost
    BY <2>3, FilesStay
  <2>4. CASE append.at = "rpush" /\ append.k = k
    BY <2>4, AppendKeeps
  <2> QED BY <1>1, <2>1, <2>2, <2>3, <2>4 DEF Accounted
<1>2. CASE k \notin 1 .. next
  <2>1. CASE Take
    BY <1>0, <1>2, <2>1 DEF Take
  <2>2. CASE Consume
    BY <1>0, <1>2, <2>2 DEF Consume, Lose
  <2>3. CASE Crash
    BY <1>0, <1>2, <2>3 DEF Crash
  <2>4. next' = next \/ Take \/ Consume \/ Crash
    BY KafkaFrame DEF kafka, Rpush, Expire, SetEx, Zadd, Commit, CommitTo
  <2> QED BY <1>0, <1>2, <2>1, <2>2, <2>3, <2>4
<1> QED BY <1>1, <1>2

LEMMA ReadKeptStep ==
  ASSUME Typed, ReadKept, [Next]_vars
  PROVE  ReadKept'
<1> SUFFICES ASSUME NEW a \in Actor, NEW k \in actor'[a].read
             PROVE  Filed(k)' \/ Kept(k)' \/ k \in lost'
  BY DEF ReadKept
<1>1. CASE k \in actor[a].read
  BY <1>1, FilesStay, UploadsKeep DEF ReadKept
<1>2. CASE ReadList(a) /\ k \in data[actor[a].s] /\ actor[a].s \notin refused
  <2> DEFINE u == [s |-> actor[a].s, batches |-> data[actor[a].s], by |-> a]
  <2>1. u \in uploads' /\ u.batches = data[actor[a].s]
    BY <1>2 DEF ReadList
  <2> HIDE DEF u
  <2> QED BY <1>2, <2>1 DEF Kept
<1> QED BY <1>1, <1>2, ActorStep

-----------------------------------------------------------------------------
(***************************************************************************)
(* The index.                                                              *)
(***************************************************************************)

\* A task that deletes a list goes on doing so until it has, or the worker crashes.
LEMMA DeletingStays ==
  ASSUME Typed, [Next]_vars, NEW s \in Session, Deleting(s)
  PROVE  Deleting(s)' \/ Crash \/ \E a \in Actor : DeleteList(a) /\ actor[a].s = s
<1>1. PICK a \in Actor : actor[a].at = "del" /\ actor[a].s = s
  BY DEF Deleting
<1>2. actor'[a] = actor[a] \/ Crash \/ DeleteList(a)
  <2>0. actor \in [Actor -> ActorType]
    BY DEF Typed, UploadsOK
  <2>1. ASSUME CheckShadow \/ TakeEvent \/ ListenerPanics PROVE actor'[a] = actor[a]
    BY <1>1, <2>0, <2>1 DEF CheckShadow, TakeEvent, ListenerPanics
  <2>2. ASSUME NEW b \in Actor, ReadList(b) \/ RemoveIndex(b) PROVE actor'[a] = actor[a]
    BY <1>1, <2>0, <2>2 DEF ReadList, RemoveIndex
  <2>3. ASSUME NEW b \in Actor, DeleteList(b), b # a PROVE actor'[a] = actor[a]
    BY <2>0, <2>3 DEF DeleteList
  <2> QED BY <2>1, <2>2, <2>3, ActorFrame
<1> QED BY <1>1, <1>2 DEF Deleting

LEMMA AppendingStays ==
  ASSUME Typed, [Next]_vars, NEW s \in Session, Appending(s)
  PROVE  Appending(s)' \/ Crash \/ (Zadd /\ Appended = s)
<1>0. append \in AppendType /\ append.at # "none" /\ Appended = s
      /\ topic'[append.k] = topic[append.k]
  BY TopicGrows DEF Typed, KafkaOK, Appending
<1>1. \/ append' = append
      \/ append'.k = append.k /\ append'.at # "none"
      \/ Crash \/ Zadd
  <2>1. ASSUME Rpush \/ Expire \/ SetEx PROVE append'.k = append.k /\ append'.at # "none"
    BY <1>0, <2>1 DEF Rpush, Expire, SetEx, AppendType
  <2> QED BY <1>0, <2>1, KafkaFrame DEF Take, Consume, Commit, CommitTo, tasks
<1> QED BY <1>0, <1>1 DEF Appending, Appended

LEMMA IndexedStep ==
  ASSUME Typed, Indexed, [Next]_vars
  PROVE  Indexed'
<1> SUFFICES ASSUME NEW s \in Session PROVE Found(s)'
  BY DEF Indexed
<1> USE DEF Found
<1>0. /\ data \in [Session -> SUBSET Position]
      /\ index \in [Session -> {"none", "future", "due"}]
      /\ actor \in [Actor -> ActorType]
      /\ Found(s)
  BY DEF Typed, RedisOK, UploadsOK, Indexed
<1>1. CASE Crash
  <2>1. UNCHANGED <<data, index>> /\ unindexed \subseteq unindexed'
    BY <1>1 DEF Crash, redis
  <2>2. (Appending(s) \/ Deleting(s)) /\ index[s] = "none" => s \in unindexed'
    BY <1>1 DEF Crash, Cut, Appending, Deleting
  <2> QED BY <1>0, <2>1, <2>2
<1>2. ASSUME NEW a \in Actor, DeleteList(a) PROVE Found(s)'
  <2>0. actor[a].s \in Session
    BY ActorsType
  <2>1. UNCHANGED <<index, append, topic>> /\ unindexed \subseteq unindexed'
    BY <1>2 DEF DeleteList, kafka
  <2>2. Appending(s)' = Appending(s)
    BY <2>1 DEF Appending, Appended
  <2>3. CASE actor[a].s = s
    BY <1>0, <1>2, <2>3 DEF DeleteList
  <2>4. CASE actor[a].s # s
    <3>1. data'[s] = data[s]
      BY <1>0, <1>2, <2>0, <2>4 DEF DeleteList
    <3>2. Deleting(s) => Deleting(s)'
      BY <1>0, <1>2, <2>4 DEF Deleting, DeleteList
    <3> QED BY <1>0, <2>1, <2>2, <3>1, <3>2
  <2> QED BY <2>3, <2>4
<1>3. CASE Zadd
  <2>0. Appended \in Session
    BY <1>3, AppendedType DEF Zadd
  <2>1. UNCHANGED <<data, actor>>
    BY <1>3 DEF Zadd
  <2>2. Deleting(s)' = Deleting(s)
    BY <2>1 DEF Deleting
  <2>3. CASE Appended = s
    BY <1>0, <1>3, <2>0, <2>3 DEF Zadd
  <2>4. CASE Appended # s
    <3>1. index'[s] = index[s] /\ (s \in unindexed => s \in unindexed') /\ ~Appending(s)
      BY <1>0, <1>3, <2>0, <2>4 DEF Zadd, Appending
    <3> QED BY <1>0, <2>1, <2>2, <3>1
  <2> QED BY <2>3, <2>4
<1>4. ASSUME NEW a \in Actor, RemoveIndex(a) PROVE Found(s)'
  <2>1. UNCHANGED <<data, append, topic, unindexed>>
    BY <1>4 DEF RemoveIndex, kafka, missed
  <2>2. CASE actor[a].s = s
    <3>1. actor'[a].at = "del" /\ actor'[a].s = s
      BY <1>0, <1>4, <2>2 DEF RemoveIndex, ActorType
    <3> QED BY <3>1 DEF Deleting
  <2>3. CASE actor[a].s # s
    <3>1. index'[s] = index[s]
      BY <1>0, <1>4, <2>3 DEF RemoveIndex
    <3>2. Deleting(s) => Deleting(s)'
      BY <1>0, <1>4, <2>3 DEF RemoveIndex, Deleting
    <3>3. Appending(s)' = Appending(s)
      BY <2>1 DEF Appending, Appended
    <3> QED BY <1>0, <2>1, <3>1, <3>2, <3>3
  <2> QED BY <2>2, <2>3
<1>5. CASE Rpush
  <2>0. Appended \in Session /\ append.at = "rpush"
    BY <1>5, AppendedType DEF Rpush
  <2>1. UNCHANGED <<index, actor, unindexed>>
    BY <1>5 DEF Rpush, missed
  <2>2. CASE Appended = s
    <3>1. Appending(s) /\ ~Crash /\ ~Zadd
      BY <1>5, <2>0, <2>2 DEF Appending, Rpush, Zadd, Crash
    <3> QED BY <3>1, AppendingStays
  <2>3. CASE Appended # s
    <3>1. data'[s] = data[s] /\ Deleting(s)' = Deleting(s) /\ ~Appending(s)
      BY <1>0, <1>5, <2>0, <2>1, <2>3 DEF Rpush, Deleting, Appending
    <3> QED BY <1>0, <2>1, <3>1
  <2> QED BY <2>2, <2>3
<1>6. ASSUME ~Crash, ~Zadd, ~(\E a \in Actor : DeleteList(a)), ~(\E a \in Actor : RemoveIndex(a)), ~Rpush
      PROVE  Found(s)'
  <2>1. (Deleting(s) => Deleting(s)') /\ (Appending(s) => Appending(s)')
    BY <1>6, DeletingStays, AppendingStays
  <2>2. data'[s] = data[s] \/ data'[s] = {}
    BY <1>0, <1>6, RedisFrame DEF DataExpires, Expire, SetEx, ShadowExpires, ScoreReached
  <2>3. index'[s] = index[s] \/ index'[s] # "none"
    BY <1>0, <1>6, RedisFrame DEF DataExpires, Expire, SetEx, ShadowExpires, ScoreReached
  <2>4. unindexed' = unindexed
    BY <1>6 DEF Next, vars, kafka, redis, tasks, missed, SendTrackBytes, ShadowExpires,
         ScoreReached, DataExpires, Start, Main, Listen, Scan, ScanFor, CheckShadow,
         Consume, TakeEvent, ReadList, Upload, Take, Expire, SetEx, Commit, CommitTo,
         PubsubBreaks, ListenerPanics, Deafen, Actor
  <2> QED BY <1>0, <2>1, <2>2, <2>3, <2>4
<1> QED BY <1>1, <1>2, <1>3, <1>4, <1>5, <1>6

LEMMA Invariant ==
  /\ Init => IInv
  /\ IInv /\ [Next]_vars => IInv'
<1>1. ASSUME Init PROVE IInv
  <2>0. \A S : <<>> \in Seq(S) /\ Len(<<>>) = 0
    BY EmptySeq
  <2>1. KafkaOK
    <3>1. append \in AppendType /\ append.at = "none"
      BY <1>1 DEF Init, NoAppend, AppendType
    <3>2. Len(topic) = 0 /\ topic \in Seq(Session)
      BY <1>1, <2>0 DEF Init
    <3>3. took \in BOOLEAN
      BY <1>1 DEF Init
    <3>4. next = 0 /\ committed = -1
      BY <1>1 DEF Init, None
    <3> QED BY <3>1, <3>2, <3>3, <3>4 DEF KafkaOK, None
  <2>2. RedisOK /\ WorkerOK /\ MissedOK
    BY <1>1, <2>0 DEF Init, RedisOK, WorkerOK, MissedOK
  <2>3. UploadsOK
    BY <1>1, IdleType DEF Init, UploadsOK
  <2>4. Accounted /\ ReadKept /\ Indexed
    BY <1>1, IdleType DEF Init, Accounted, ReadKept, Indexed, Found
  <2> QED BY <2>1, <2>2, <2>3, <2>4 DEF IInv, Typed
<1>2. ASSUME IInv, [Next]_vars PROVE IInv'
  <2>1. Typed'
    BY <1>2, KafkaStep, RedisStep, WorkerStep, UploadsStep, MissedStep DEF IInv, Typed
  <2> QED BY <1>2, <2>1, AccountedStep, ReadKeptStep, IndexedStep DEF IInv
<1> QED BY <1>1, <1>2

(***************************************************************************)
(* No batch that the worker passed in the topic disappears but in the ways *)
(* that are named, a Redis command whose error is discarded and a start    *)
(* without a committed offset among them; and a session with batches that  *)
(* nobody is busy with can be found by the next start of the worker, but   *)
(* for the failures that are named (packages/worker/src/main.rs).          *)
(***************************************************************************)
THEOREM BatchesAreKept == Spec => []EveryBatchAccounted
<1>1. ASSUME IInv PROVE EveryBatchAccounted
  <2>1. TypeOK
    <3>1. /\ KafkaOK /\ RedisOK /\ WorkerOK /\ UploadsOK /\ MissedOK /\ Len(topic) \in Nat
      BY <1>1, LenProperties DEF IInv, Typed, KafkaOK
    <3>2. append.at # "none" => append.k \in Position
      BY <3>1 DEF KafkaOK, Position
    <3>3. \A a \in Actor : actor[a].at \in {"idle", "read", "zrem", "del"}
      BY <3>1 DEF UploadsOK, ActorType
    <3>4. append.at \in {"none", "rpush", "expire", "set_ex", "zadd"}
      BY <3>1 DEF KafkaOK, AppendType
    <3> QED BY <3>1, <3>2, <3>3, <3>4 DEF TypeOK, KafkaOK, RedisOK, WorkerOK, UploadsOK, MissedOK
  <2>2. BatchesAreIndexed
    <3>1. ASSUME NEW s \in Session, Deleting(s) PROVE Handled(s)
      BY <3>1 DEF Deleting, Handled
    <3> QED BY <1>1, <3>1 DEF IInv, Indexed, Found, BatchesAreIndexed
  <2> QED BY <1>1, <2>1, <2>2 DEF IInv, Accounted, Kept, EveryBatchAccounted
<1> QED BY <1>1, Invariant, PTL DEF Spec

-----------------------------------------------------------------------------
(***************************************************************************)
(* The dialog.                                                             *)
(***************************************************************************)
ViewType(up) ==
  [open : BOOLEAN, timer : BOOLEAN, leaked : Nat, syncs : Nat,
   detail : -1 .. up, events : 0 .. up,
   read : {"no", "reading", "yes", "broken"}, waiting : Nat,
   player : BOOLEAN, shown : BOOLEAN]

\* The players that live are the one the dialog knows, and it is open.
Playing(v, n) ==
  /\ n = IF v.player THEN 1 ELSE 0
  /\ v.player => v.open
  /\ v.shown => v.player

DialogInv ==
  /\ dialog \in {"play", "export"} /\ legacy \in BOOLEAN
  /\ uploaded \in Version /\ asked \in Nat /\ answers \in [Version -> Nat]
  /\ \A n \in Version : answers[n] > 0 => n <= uploaded
  /\ view \in ViewType(uploaded) /\ Playing(view, live)
  /\ clicks \in 0 .. MaxClicks /\ fails \in 0 .. MaxFails

Sound(p, up) == p.view \in ViewType(up) /\ Playing(p.view, p.live)

LEMMA NewPlayerSound ==
  ASSUME NEW p, NEW up \in Nat, Sound(p, up)
  PROVE  Sound(NewPlayer(p), up)
<1> USE DEF Sound
<1>1. CASE ~p.view.open
  BY <1>1 DEF NewPlayer
<1>2. CASE p.view.open
  <2> DEFINE v == [p.view EXCEPT !.player = FALSE, !.shown = FALSE]
             n == IF p.view.player THEN p.live - 1 ELSE p.live
             w == [v EXCEPT !.player = TRUE, !.shown = TRUE]
  <2>1. n = 0
    BY DEF Playing
  <2>2. NewPlayer(p).view = w /\ NewPlayer(p).live = n + 1
    BY <1>2 DEF NewPlayer, ClosePlayer
  <2>3. w \in ViewType(up) /\ w.player /\ w.open
    <3>1. v \in ViewType(up) /\ v.open
      BY <1>2 DEF ViewType
    <3> HIDE DEF v
    <3> QED BY <3>1 DEF ViewType
  <2> HIDE DEF v, n, w
  <2> QED BY <2>1, <2>2, <2>3 DEF Playing
<1> QED BY <1>1, <1>2

\* The function that OnOpened is defined by.
Makes(f, p, n) == f = [i \in 0 .. n |-> IF i = 0 THEN p ELSE NewPlayer(f[i - 1])]

LEMMA OnOpenedDef ==
  ASSUME NEW v, NEW n
  PROVE  OnOpened(v, n) = LET p == [view |-> v, live |-> live]
                          IN  IF v.player THEN p ELSE (CHOOSE f : Makes(f, p, n))[n]
BY DEF OnOpened, Makes

LEMMA LeastOf ==
  ASSUME NEW T \in SUBSET Nat, T # {}
  PROVE  \E x \in T : \A y \in T : x <= y
<1>1. PICK x \in T : \A y \in T : ~ (<<y, x>> \in OpToRel(<, Nat))
  BY NatLessThanWellFounded, WFMin
<1>2. \A y \in T : ~(y < x)
  BY <1>1 DEF OpToRel
<1> QED BY <1>2

LEMMA MakesExist ==
  ASSUME NEW p, NEW len \in Nat
  PROVE  \E f : Makes(f, p, len)
<1> DEFINE Bad == {m \in Nat : ~ \E f : Makes(f, p, m)}
<1> SUFFICES ASSUME Bad # {} PROVE FALSE
  OBVIOUS
<1>1. PICK m \in Bad : \A n \in Bad : m <= n
  <2>1. Bad \in SUBSET Nat
    OBVIOUS
  <2> HIDE DEF Bad
  <2> QED BY <2>1, LeastOf
<1>2. m # 0
  <2> SUFFICES ASSUME m = 0 PROVE FALSE
    OBVIOUS
  <2> DEFINE f == [i \in 0 .. 0 |-> p]
  <2>1. f = [i \in 0 .. 0 |-> IF i = 0 THEN p ELSE NewPlayer(f[i - 1])]
    OBVIOUS
  <2>2. Makes(f, p, 0)
    <3> HIDE DEF f
    <3> QED BY <2>1 DEF Makes
  <2> HIDE DEF f
  <2> QED BY <2>2
<1>3. m \in Nat /\ m - 1 \in Nat /\ ~(m <= m - 1)
  BY <1>2
<1>4. m - 1 \notin Bad
  <2> HIDE DEF Bad
  <2> QED BY <1>1, <1>3
<1>5. PICK f : Makes(f, p, m - 1)
  BY <1>3, <1>4
<1> DEFINE h == [i \in 0 .. m |-> IF i = m THEN NewPlayer(f[i - 1]) ELSE f[i]]
<1>6. \A n \in 0 .. (m - 1) : h[n] = f[n]
  BY <1>3
<1>7. \A i \in 0 .. (m - 1) : f[i] = IF i = 0 THEN p ELSE NewPlayer(f[i - 1])
  BY <1>5 DEF Makes
<1>8. \A i \in 0 .. m : h[i] = IF i = 0 THEN p ELSE NewPlayer(h[i - 1])
  <2> TAKE i \in 0 .. m
  <2>1. CASE i = m
    <3>1. h[i - 1] = f[i - 1] /\ i # 0
      BY <2>1, <1>2, <1>3, <1>6
    <3>2. h[i] = NewPlayer(f[i - 1])
      BY <2>1
    <3> HIDE DEF h
    <3> QED BY <3>1, <3>2
  <2>2. CASE i # m
    <3>1. i \in 0 .. (m - 1)
      BY <2>2, <1>3
    <3>2. i # 0 => h[i - 1] = f[i - 1]
      BY <3>1, <1>3, <1>6
    <3>3. h[i] = f[i]
      BY <3>1, <1>6
    <3> HIDE DEF h
    <3> QED BY <1>7, <3>1, <3>2, <3>3
  <2> QED BY <2>1, <2>2
<1>9. Makes(h, p, m)
  <2>1. h = [i \in 0 .. m |-> h[i]]
    OBVIOUS
  <2> HIDE DEF h
  <2> QED BY <2>1, <1>8 DEF Makes
<1> HIDE DEF h
<1> QED BY <1>9

LEMMA MakesSound ==
  ASSUME NEW p, NEW up \in Nat, NEW n \in Nat, NEW f, Makes(f, p, n), Sound(p, up)
  PROVE  Sound(f[n], up)
<1> DEFINE Bad == {i \in 0 .. n : ~Sound(f[i], up)}
<1>1. \A i \in 0 .. n : f[i] = IF i = 0 THEN p ELSE NewPlayer(f[i - 1])
  BY DEF Makes
<1>2. Bad = {}
  <2> SUFFICES ASSUME Bad # {} PROVE FALSE
    OBVIOUS
  <2>1. PICK m \in Bad : \A k \in Bad : m <= k
    <3>1. Bad \in SUBSET Nat
      OBVIOUS
    <3> HIDE DEF Bad
    <3> QED BY <3>1, LeastOf
  <2>2. m \in 0 .. n /\ ~Sound(f[m], up)
    OBVIOUS
  <2>3. m # 0
    BY <1>1, <2>2
  <2>4. m - 1 \in 0 .. n /\ ~(m <= m - 1)
    BY <2>2, <2>3
  <2>5. Sound(f[m - 1], up)
    <3>1. m - 1 \notin Bad
      <4> HIDE DEF Bad
      <4> QED BY <2>1, <2>4
    <3> QED BY <2>4, <3>1
  <2>6. f[m] = NewPlayer(f[m - 1])
    BY <1>1, <2>2, <2>3
  <2> QED BY <2>2, <2>5, <2>6, NewPlayerSound
<1>3. n \in 0 .. n
  OBVIOUS
<1> QED BY <1>2, <1>3

\* However many callers waited, one player is made.
LEMMA OnOpenedSound ==
  ASSUME NEW v, NEW up \in Nat, NEW n \in Nat, v \in ViewType(up), Playing(v, live)
  PROVE  Sound(OnOpened(v, n), up)
<1> DEFINE p == [view |-> v, live |-> live]
<1>1. Sound(p, up)
  BY DEF Sound
<1>2. OnOpened(v, n) = IF v.player THEN p ELSE (CHOOSE f : Makes(f, p, n))[n]
  BY OnOpenedDef
<1> HIDE DEF p
<1>3. Makes(CHOOSE f : Makes(f, p, n), p, n)
  BY MakesExist
<1>4. Sound((CHOOSE f : Makes(f, p, n))[n], up)
  BY <1>1, <1>3, MakesSound
<1> QED BY <1>1, <1>2, <1>4

LEMMA VersionNat == Version \subseteq Nat /\ \A n \in Version : n \in 0 .. MaxFiles
  BY ConsoleAssumption DEF Version

LEMMA GetDetailSound ==
  ASSUME NEW up \in Nat, NEW n \in 0 .. up, NEW v \in ViewType(up), Playing(v, live)
  PROVE  GetDetail(v, n) \in ViewType(up) /\ Playing(GetDetail(v, n), live)
<1>1. CASE HasReplayData(n)
  <2> DEFINE e == IF v.events = 0 THEN n ELSE v.events
             r == IF v.read = "no" THEN (IF legacy THEN "reading" ELSE "yes") ELSE v.read
             w == [v EXCEPT !.detail = n, !.timer = FALSE, !.events = e, !.read = r]
  <2>1. GetDetail(v, n) = w
    BY <1>1 DEF GetDetail
  <2>2. e \in 0 .. up /\ r \in {"no", "reading", "yes", "broken"} /\ n \in -1 .. up
    BY DEF ViewType
  <2> HIDE DEF e, r
  <2>3. w \in ViewType(up) /\ w.player = v.player /\ w.open = v.open /\ w.shown = v.shown
    BY <2>2 DEF ViewType
  <2> HIDE DEF w
  <2> QED BY <2>1, <2>3 DEF Playing
<1>2. CASE ~HasReplayData(n)
  <2> DEFINE w == [v EXCEPT !.detail = n, !.shown = FALSE]
  <2>1. GetDetail(v, n) = w
    BY <1>2 DEF GetDetail
  <2>2. n \in -1 .. up
    OBVIOUS
  <2>3. w \in ViewType(up) /\ w.player = v.player /\ w.open = v.open /\ ~w.shown
    BY <2>2 DEF ViewType
  <2> HIDE DEF w
  <2> QED BY <2>1, <2>3 DEF Playing
<1> QED BY <1>1, <1>2

LEMMA DialogInit == ConsoleInit => DialogInv
<1> SUFFICES ASSUME ConsoleInit PROVE DialogInv
  OBVIOUS
<1>1. 0 \in Version /\ MaxClicks \in Nat /\ MaxFails \in Nat
  BY ConsoleAssumption DEF Version
<1>2. view \in ViewType(uploaded) /\ Playing(view, live)
  <2>1. uploaded = 0 /\ live = 0 /\ -1 \in -1 .. 0 /\ 0 \in 0 .. 0
    BY DEF ConsoleInit
  <2>2. view = [open |-> TRUE, timer |-> FALSE, leaked |-> 0, syncs |-> 0,
                detail |-> -1, events |-> 0, read |-> "no", waiting |-> 0,
                player |-> FALSE, shown |-> FALSE]
    BY DEF ConsoleInit
  <2> QED BY <2>1, <2>2 DEF ViewType, Playing
<1>3. answers \in [Version -> Nat] /\ \A n \in Version : answers[n] = 0
  BY DEF ConsoleInit
<1> QED BY <1>1, <1>2, <1>3 DEF ConsoleInit, DialogInv

LEMMA DialogStep == DialogInv /\ [ConsoleNext]_consoleVars => DialogInv'
<1> SUFFICES ASSUME DialogInv, [ConsoleNext]_consoleVars PROVE DialogInv'
  OBVIOUS
<1>0. /\ uploaded \in Nat /\ view \in ViewType(uploaded) /\ Playing(view, live)
      /\ Version \subseteq Nat /\ MaxClicks \in Nat /\ MaxFails \in Nat
  BY VersionNat, ConsoleAssumption DEF DialogInv
<1>a. ASSUME UNCHANGED <<dialog, legacy, uploaded, asked, clicks>>, fails' \in 0 .. MaxFails,
             answers' = answers \/
               \E n \in Version : answers[n] > 0 /\ answers' = [answers EXCEPT ![n] = @ - 1],
             view' \in ViewType(uploaded), Playing(view', live')
      PROVE  DialogInv'
  <2>1. answers' \in [Version -> Nat] /\ \A n \in Version : answers'[n] > 0 => answers[n] > 0
    <3>1. CASE answers' = answers
      BY <3>1 DEF DialogInv
    <3>2. CASE answers' # answers
      <4>1. PICK n \in Version : answers[n] > 0 /\ answers' = [answers EXCEPT ![n] = @ - 1]
        BY <1>a, <3>2
      <4>2. answers \in [Version -> Nat] /\ answers[n] \in Nat /\ answers[n] - 1 \in Nat
        BY <4>1 DEF DialogInv
      <4> QED BY <4>1, <4>2
    <3> QED BY <3>1, <3>2
  <2> QED BY <1>a, <2>1 DEF DialogInv
<1>1. ASSUME NEW n \in Version, Arrive(n)
      PROVE  DialogInv'
  <2> DEFINE v == GetDetail(view, n)
  <2>1. answers[n] > 0 /\ n \in 0 .. uploaded
    <3>1. answers[n] > 0 /\ n <= uploaded /\ n \in Nat
      BY <1>0, <1>1 DEF Arrive, DialogInv
    <3> QED BY <1>0, <3>1
  <2>2. v \in ViewType(uploaded) /\ Playing(v, live)
    BY <1>0, <2>1, GetDetailSound
  <2>3. /\ UNCHANGED <<dialog, legacy, uploaded, asked, clicks, fails>>
        /\ answers' = [answers EXCEPT ![n] = @ - 1]
        /\ \/ Callback(v)
           \/ view' = v /\ UNCHANGED live
    BY <1>1 DEF Arrive
  <2> HIDE DEF v
  <2>4. view' \in ViewType(uploaded) /\ Playing(view', live')
    <3>1. CASE view' = v /\ UNCHANGED live
      BY <2>2, <3>1
    <3>2. CASE view' = OnOpened(v, 1).view /\ live' = OnOpened(v, 1).live
      <4>1. Sound(OnOpened(v, 1), uploaded)
        BY <1>0, <2>2, OnOpenedSound
      <4> QED BY <3>2, <4>1 DEF Sound
    <3>3. CASE view' = [v EXCEPT !.waiting = @ + 1] /\ UNCHANGED live
      <4> DEFINE w == [v EXCEPT !.waiting = v.waiting + 1]
      <4>1. w \in ViewType(uploaded) /\ w.player = v.player /\ w.open = v.open /\ w.shown = v.shown
        BY <2>2 DEF ViewType
      <4>2. view' = w
        BY <3>3
      <4> HIDE DEF w
      <4> QED BY <2>2, <3>3, <4>1, <4>2 DEF Playing
    <3>4. \/ view' = v /\ UNCHANGED live
          \/ view' = OnOpened(v, 1).view /\ live' = OnOpened(v, 1).live
          \/ view' = [v EXCEPT !.waiting = @ + 1] /\ UNCHANGED live
      <4>1. CASE Callback(v) /\ dialog = "export"
        BY <4>1 DEF Callback
      <4>2. CASE Callback(v) /\ dialog = "play" /\ v.read = "yes"
        BY <4>2 DEF Callback
      <4>3. CASE Callback(v) /\ dialog = "play" /\ v.read # "yes"
        BY <4>3 DEF Callback
      <4> QED BY <2>3, <4>1, <4>2, <4>3 DEF DialogInv
    <3> QED BY <3>1, <3>2, <3>3, <3>4
  <2>5. fails' \in 0 .. MaxFails
    BY <2>3 DEF DialogInv
  <2> QED BY <1>a, <2>1, <2>3, <2>4, <2>5
<1>2. CASE GetSessionEvents
  <2> DEFINE v == [view EXCEPT !.read = "yes", !.waiting = 0]
             n == view.waiting
  <2>1. v \in ViewType(uploaded) /\ Playing(v, live) /\ n \in Nat
    BY <1>0 DEF ViewType, Playing
  <2>2. /\ view' = OnOpened(v, n).view /\ live' = OnOpened(v, n).live
        /\ UNCHANGED <<dialog, legacy, uploaded, asked, answers, clicks, fails>>
    BY <1>2 DEF GetSessionEvents
  <2> HIDE DEF v, n
  <2>3. Sound(OnOpened(v, n), uploaded)
    BY <1>0, <2>1, OnOpenedSound
  <2>4. fails' \in 0 .. MaxFails
    BY <2>2 DEF DialogInv
  <2> QED BY <1>a, <2>2, <2>3, <2>4 DEF Sound
<1>v. view.leaked \in Nat /\ view.syncs \in Nat
  BY <1>0 DEF ViewType
<1>3. CASE FileUnreadable
  <2>1. /\ view' = [view EXCEPT !.read = "broken", !.waiting = 0] /\ fails < MaxFails /\ fails' = fails + 1
        /\ UNCHANGED <<dialog, legacy, uploaded, asked, answers, live, clicks>>
    BY <1>3 DEF FileUnreadable
  <2>2. view' \in ViewType(uploaded) /\ Playing(view', live')
    BY <1>0, <2>1 DEF ViewType, Playing
  <2>3. fails' \in 0 .. MaxFails
    BY <1>0, <2>1 DEF DialogInv
  <2> QED BY <1>a, <2>1, <2>2, <2>3
<1>4. CASE SyncClicked
  <2>1. /\ view' = [view EXCEPT !.syncs = @ + 1] /\ clicks < MaxClicks /\ clicks' = clicks + 1
        /\ UNCHANGED <<dialog, legacy, uploaded, asked, answers, live, fails>>
    BY <1>4 DEF SyncClicked
  <2>2. view.syncs + 1 \in Nat
    BY <1>v
  <2>3. view' \in ViewType(uploaded) /\ Playing(view', live')
    BY <1>0, <2>1, <2>2 DEF ViewType, Playing
  <2>4. clicks' \in 0 .. MaxClicks
    BY <1>0, <2>1 DEF DialogInv
  <2> QED BY <2>1, <2>3, <2>4 DEF DialogInv
<1>5. CASE SyncAnswered
  <2>1. view.syncs > 0 /\ UNCHANGED <<dialog, legacy, uploaded, asked, answers, live, clicks>>
    BY <1>5 DEF SyncAnswered
  <2>2. view.syncs - 1 \in Nat
    BY <1>v, <2>1
  <2>3. \/ /\ view' = [view EXCEPT !.syncs = @ - 1, !.timer = TRUE,
                                   !.leaked = IF view.timer THEN @ + 1 ELSE @]
           /\ UNCHANGED fails
        \/ /\ fails < MaxFails /\ fails' = fails + 1
           /\ view' = [view EXCEPT !.syncs = @ - 1]
    BY <1>5 DEF SyncAnswered
  <2>4. fails' \in 0 .. MaxFails
    BY <1>0, <2>3 DEF DialogInv
  <2>5. view' \in ViewType(uploaded) /\ Playing(view', live')
    <3> DEFINE l == IF view.timer THEN view.leaked + 1 ELSE view.leaked
               s == view.syncs - 1
    <3>1. l \in Nat /\ s \in Nat
      BY <1>v, <2>2
    <3>2. \/ view' = [view EXCEPT !.syncs = s, !.timer = TRUE, !.leaked = l]
          \/ view' = [view EXCEPT !.syncs = s]
      BY <2>3
    <3> HIDE DEF l, s
    <3> QED BY <1>0, <2>1, <3>1, <3>2 DEF ViewType, Playing
  <2> QED BY <1>a, <2>1, <2>4, <2>5
<1>6. CASE Close
  <2> DEFINE v == [view EXCEPT !.player = FALSE, !.shown = FALSE]
             w == [v EXCEPT !.open = FALSE, !.timer = FALSE, !.detail = -1]
             n == IF view.player THEN live - 1 ELSE live
  <2>1. /\ view' = w /\ live' = n
        /\ UNCHANGED <<dialog, legacy, uploaded, asked, answers, clicks, fails>>
    BY <1>6 DEF Close, ClosePlayer
  <2>2. n = 0
    BY <1>0 DEF Playing
  <2>3. w \in ViewType(uploaded) /\ ~w.player /\ ~w.shown
    <3>1. v \in ViewType(uploaded) /\ ~v.player /\ ~v.shown
      BY <1>0 DEF ViewType
    <3>2. -1 \in -1 .. uploaded
      BY <1>0
    <3> HIDE DEF v
    <3> QED BY <3>1, <3>2 DEF ViewType
  <2> HIDE DEF w, n
  <2>4. fails' \in 0 .. MaxFails
    BY <2>1 DEF DialogInv
  <2>5. Playing(view', live')
    BY <2>1, <2>2, <2>3 DEF Playing
  <2> QED BY <1>a, <2>1, <2>3, <2>4, <2>5
<1>7. CASE FileUploaded
  <2>1. /\ uploaded' = uploaded + 1 /\ uploaded < MaxFiles
        /\ UNCHANGED <<dialog, legacy, asked, answers, view, live, clicks, fails>>
    BY <1>7 DEF FileUploaded
  <2>2. uploaded' \in Version /\ uploaded <= uploaded'
    BY <1>0, <2>1, ConsoleAssumption DEF Version, DialogInv
  <2>3. -1 .. uploaded \subseteq -1 .. uploaded' /\ 0 .. uploaded \subseteq 0 .. uploaded'
    BY <1>0, <2>1
  <2>4. view \in ViewType(uploaded')
    BY <1>0, <2>3 DEF ViewType
  <2>5. \A n \in Version : answers[n] > 0 => n <= uploaded'
    <3> SUFFICES ASSUME NEW n \in Version, answers[n] > 0 PROVE n <= uploaded'
      OBVIOUS
    <3>1. n <= uploaded /\ n \in Nat
      BY <1>0 DEF DialogInv
    <3> QED BY <1>0, <2>1, <3>1
  <2> QED BY <2>1, <2>2, <2>4, <2>5 DEF DialogInv
<1>8. CASE ReadSession
  <2>1. /\ asked > 0 /\ asked' = asked - 1 /\ answers' = [answers EXCEPT ![uploaded] = @ + 1]
        /\ UNCHANGED <<dialog, legacy, uploaded, view, live, clicks, fails>>
    BY <1>8 DEF ReadSession
  <2>2. asked' \in Nat
    BY <2>1 DEF DialogInv
  <2>3. answers' \in [Version -> Nat]
        /\ \A n \in Version : n # uploaded => answers'[n] = answers[n]
    <3>1. answers[uploaded] + 1 \in Nat /\ answers \in [Version -> Nat]
      BY DEF DialogInv
    <3> QED BY <2>1, <3>1
  <2>4. \A n \in Version : answers'[n] > 0 => n <= uploaded
    <3>1. uploaded <= uploaded
      BY <1>0
    <3> QED BY <2>3, <3>1 DEF DialogInv
  <2> QED BY <2>1, <2>2, <2>3, <2>4 DEF DialogInv
<1>9. CASE ReadFails
  <2>1. /\ asked > 0 /\ asked' = asked - 1 /\ fails < MaxFails /\ fails' = fails + 1
        /\ UNCHANGED <<dialog, legacy, uploaded, answers, view, live, clicks>>
    BY <1>9 DEF ReadFails
  <2>2. asked' \in Nat /\ fails' \in 0 .. MaxFails
    BY <1>0, <2>1 DEF DialogInv
  <2> QED BY <2>1, <2>2 DEF DialogInv
<1>10. CASE Poll
  <2>1. asked' = asked + 1
        /\ UNCHANGED <<dialog, legacy, uploaded, answers, view, live, clicks, fails>>
    BY <1>10 DEF Poll
  <2>2. asked' \in Nat
    BY <2>1 DEF DialogInv
  <2> QED BY <2>1, <2>2 DEF DialogInv
<1>11. ASSUME \/ UNCHANGED consoleVars
              \/ \E i \in DOMAIN jobs :
                   \/ FfmpegData(i) \/ Dispatch(i) \/ FfmpegClose(i) \/ FfmpegError(i)
                   \/ ConnectionLost(i) \/ OnMessage(i) \/ Retry(i)
              \/ TabHides \/ TabShows
       PROVE  DialogInv'
  <2>1. UNCHANGED <<dialog, legacy, uploaded, asked, answers, view, live, clicks, fails>>
    BY <1>11 DEF consoleVars, FfmpegData, Dispatch, FfmpegClose, FfmpegError, ConnectionLost,
       OnMessage, Retry, TabHides, TabShows, JobStep
  <2> QED BY <2>1 DEF DialogInv
<1> QED BY <1>1, <1>2, <1>3, <1>4, <1>5, <1>6, <1>7, <1>8, <1>9, <1>10, <1>11 DEF ConsoleNext

LEMMA DialogHolds == DialogInv => OnePlayer
<1> SUFFICES ASSUME DialogInv PROVE OnePlayer
  OBVIOUS
<1>1. view.detail \in -1 .. uploaded /\ view.events \in 0 .. uploaded
  BY DEF DialogInv, ViewType
<1>2. live = (IF view.player THEN 1 ELSE 0) /\ (view.player => view.open) /\ (view.shown => view.player)
  BY DEF DialogInv, Playing
<1>3. live \in Nat
  BY <1>2
<1> QED BY <1>1, <1>2, <1>3 DEF OnePlayer, DialogTypeOK, DialogInv

-----------------------------------------------------------------------------
(***************************************************************************)
(* The export.                                                             *)
(***************************************************************************)
\* The chunks after the a-th, up to the b-th.
Run(a, b) == [k \in 1 .. b - a |-> a + k]

Positive == Nat \ {0}

JobType ==
  [made : 0 .. MaxChunks, chunks : Seq(Positive), stage : {"generate", "transform", "fail"},
   ended : {"no", "threw", "done"}, wire : Seq(Seq(Nat)),
   conn : {"on", "off", "lost", "closed"}, posts : Positive, left : Seq(Nat),
   file : Seq(Nat), saved : {"no", "yes", "never"}]

\* The k-th message on the wire holds the chunks between two cuts, or it is
\* the last.
Says(job, k, a, b) ==
  \/ job.wire[k] = Run(a, b)
  \/ job.wire[k] = Done /\ k = Len(job.wire) /\ job.ended = "done" /\ a = job.made /\ b = job.made

\* What was made is cut into what is in the file, the messages, and what waits.
Cuts(job, cut) ==
  /\ Len(cut) = Len(job.wire) + 1
  /\ cut[1] = Len(job.file)
  /\ \A k \in 1 .. Len(cut) : cut[k] \in 0 .. job.made
  /\ \A k \in 1 .. Len(job.wire) : cut[k] <= cut[k + 1] /\ Says(job, k, cut[k], cut[k + 1])
  /\ job.chunks = Run(cut[Len(cut)], job.made)

Flows(job) ==
  /\ \E cut \in Seq(Nat) : Cuts(job, cut)
  /\ job.file = Run(0, Len(job.file))
  /\ job.stage = "transform" \/ job.chunks = <<>>

\* What was made flows into the file while the connection holds; what came of
\* it is a part of it even when it does not.
JobOK(job) ==
  /\ job \in JobType
  /\ job.conn = "on" /\ job.ended # "threw" => Flows(job)
  /\ job.ended # "threw" => job.file = Run(0, Len(job.file)) /\ Len(job.file) <= job.made
  /\ job.ended # "done" => job.wire \in Seq(Seq(Positive))
  /\ job.saved = "yes" => /\ job.conn = "closed" /\ job.ended # "threw"
                          /\ Len(job.file) = job.made
  /\ job.posts = 1 => job.left = <<>>

JobsOK == jobs \in Seq(JobType) /\ \A i \in DOMAIN jobs : JobOK(jobs[i])

LEMMA RunType ==
  ASSUME NEW a \in Nat, NEW b \in Nat, a <= b
  PROVE  /\ Run(a, b) \in Seq(Nat) /\ Len(Run(a, b)) = b - a
         /\ \A k \in 1 .. b - a : Run(a, b)[k] = a + k
         /\ Run(a, b) # Done
<1>1. b - a \in Nat /\ \A k \in 1 .. b - a : a + k \in Nat
  OBVIOUS
<1>2. Run(a, b) \in Seq(Nat) /\ Len(Run(a, b)) = b - a
  BY <1>1 DEF Run
<1>3. \A k \in 1 .. b - a : Run(a, b)[k] = a + k
  BY DEF Run
<1>4. Run(a, b) # Done
  <2> SUFFICES ASSUME Run(a, b) = Done PROVE FALSE
    OBVIOUS
  <2>1. Len(Done) = 1 /\ Done[1] = 0
    BY DEF Done
  <2>2. b - a = 1
    BY <1>2, <2>1
  <2>3. Run(a, b)[1] = a + 1
    BY <1>3, <2>2
  <2> QED BY <2>1, <2>3
<1> QED BY <1>2, <1>3, <1>4

LEMMA RunNothing == \A a \in Nat : Run(a, a) = <<>>
<1> TAKE a \in Nat
<1>1. Run(a, a) \in Seq(Nat) /\ Len(Run(a, a)) = 0
  BY RunType
<1> QED BY <1>1, EmptySeq

LEMMA RunNext ==
  ASSUME NEW a \in Nat, NEW b \in Nat, a <= b
  PROVE  Append(Run(a, b), b + 1) = Run(a, b + 1)
<1> DEFINE s == Append(Run(a, b), b + 1)
           t == Run(a, b + 1)
<1>1. /\ Run(a, b) \in Seq(Nat) /\ Len(Run(a, b)) = b - a
      /\ \A k \in 1 .. b - a : Run(a, b)[k] = a + k
  BY RunType
<1>2. /\ t \in Seq(Nat) /\ Len(t) = b + 1 - a /\ \A k \in 1 .. b + 1 - a : t[k] = a + k
  <2>1. b + 1 \in Nat /\ a <= b + 1
    OBVIOUS
  <2> QED BY <2>1, RunType
<1>3. /\ s \in Seq(Nat) /\ Len(s) = b - a + 1 /\ s[b - a + 1] = b + 1
      /\ \A k \in 1 .. b - a : s[k] = Run(a, b)[k]
  BY <1>1
<1> HIDE DEF s, t
<1>4. \A k \in 1 .. b - a + 1 : s[k] = a + k
  <2>1. \A k \in 1 .. b - a + 1 : k \in 1 .. b - a \/ k = b - a + 1
    OBVIOUS
  <2>2. s[b - a + 1] = a + (b - a + 1)
    BY <1>3
  <2> QED BY <1>1, <1>3, <2>1, <2>2
<1>5. Len(s) = Len(t) /\ \A k \in 1 .. Len(s) : s[k] = t[k]
  BY <1>2, <1>3, <1>4
<1>6. s = t
  BY <1>2, <1>3, <1>5, SeqEqual
<1> QED BY <1>6 DEF s, t

LEMMA RunMore ==
  ASSUME NEW a \in Nat, NEW b \in Nat, a <= b
  PROVE  Run(0, a) \o Run(a, b) = Run(0, b)
<1> DEFINE s == Run(0, a) \o Run(a, b)
           t == Run(0, b)
<1>1. /\ Run(a, b) \in Seq(Nat) /\ Len(Run(a, b)) = b - a
      /\ \A k \in 1 .. b - a : Run(a, b)[k] = a + k
  BY RunType
<1>2. /\ Run(0, a) \in Seq(Nat) /\ Len(Run(0, a)) = a
      /\ \A k \in 1 .. a : Run(0, a)[k] = k
  <2>1. 0 \in Nat /\ 0 <= a
    OBVIOUS
  <2>2. /\ Run(0, a) \in Seq(Nat) /\ Len(Run(0, a)) = a - 0
        /\ \A k \in 1 .. a - 0 : Run(0, a)[k] = 0 + k
    BY <2>1, RunType
  <2> QED BY <2>2
<1>3. /\ t \in Seq(Nat) /\ Len(t) = b /\ \A k \in 1 .. b : t[k] = k
  <2>1. 0 \in Nat /\ 0 <= b
    OBVIOUS
  <2>2. /\ t \in Seq(Nat) /\ Len(t) = b - 0 /\ \A k \in 1 .. b - 0 : t[k] = 0 + k
    BY <2>1, RunType
  <2> HIDE DEF t
  <2> QED BY <2>2
<1>4. /\ s \in Seq(Nat) /\ Len(s) = b
      /\ \A k \in 1 .. b : s[k] = IF k <= a THEN Run(0, a)[k] ELSE Run(a, b)[k - a]
  BY <1>1, <1>2
<1> HIDE DEF s, t
<1>5. \A k \in 1 .. b : s[k] = k
  <2>1. \A k \in 1 .. b : k <= a => k \in 1 .. a
    OBVIOUS
  <2>2. \A k \in 1 .. b : ~(k <= a) => k - a \in 1 .. b - a /\ a + (k - a) = k
    OBVIOUS
  <2> QED BY <1>1, <1>2, <1>4, <2>1, <2>2
<1>6. Len(s) = Len(t) /\ \A k \in 1 .. Len(s) : s[k] = t[k]
  BY <1>3, <1>4, <1>5
<1>7. s = t
  BY <1>3, <1>4, <1>6, SeqEqual
<1> QED BY <1>7 DEF s, t

\* A part of what was made has no more chunks.
LEMMA FlowsBound ==
  ASSUME NEW job \in JobType, Flows(job)
  PROVE  Len(job.file) <= job.made
<1>1. PICK cut \in Seq(Nat) : Cuts(job, cut)
  BY DEF Flows
<1>2. Len(job.wire) \in Nat /\ job.made \in Nat
  BY ConsoleAssumption DEF JobType
<1>3. 1 \in 1 .. Len(cut)
  BY <1>1, <1>2 DEF Cuts
<1>4. Len(job.file) \in 0 .. job.made
  BY <1>1, <1>3 DEF Cuts
<1> QED BY <1>2, <1>4

LEMMA EmptyFlows ==
  ASSUME NEW job \in JobType, job.made = 0, job.chunks = <<>>, job.wire = <<>>, job.file = <<>>
  PROVE  Flows(job)
<1>1. Run(0, 0) = <<>>
  BY RunNothing
<1>2. Len(job.wire) = 0 /\ Len(job.file) = 0
  OBVIOUS
<1>3. <<0>> \in Seq(Nat) /\ Len(<<0>>) = 1 /\ <<0>>[1] = 0
  OBVIOUS
<1>4. Cuts(job, <<0>>)
  BY <1>1, <1>2, <1>3 DEF Cuts
<1> QED BY <1>1, <1>2, <1>3, <1>4 DEF Flows

LEMMA NewJobOK == JobOK(Job)
<1>1. MaxChunks \in Nat /\ 0 \in 0 .. MaxChunks /\ 1 \in Positive
  BY ConsoleAssumption DEF Positive
<1>2. <<>> \in Seq(Nat) /\ <<>> \in Seq(Positive) /\ <<>> \in Seq(Seq(Nat))
      /\ <<>> \in Seq(Seq(Positive)) /\ Len(<<>>) = 0
  BY EmptySeq
<1>3. Job \in JobType
  BY <1>1, <1>2 DEF Job, JobType
<1>4. /\ Job.made = 0 /\ Job.chunks = <<>> /\ Job.wire = <<>> /\ Job.left = <<>>
      /\ Job.file = <<>> /\ Job.saved = "no"
  BY DEF Job
<1>5. Job.file = Run(0, Len(Job.file)) /\ Len(Job.file) <= Job.made
  BY <1>2, <1>4, RunNothing
<1> QED BY <1>2, <1>3, <1>4, <1>5, EmptyFlows DEF JobOK

\* One more chunk is made.
Data(job) == [job EXCEPT !.made = @ + 1, !.stage = "transform",
                         !.chunks = Append(@, job.made + 1)]

LEMMA DataType ==
  ASSUME NEW job \in JobType, job.made < MaxChunks
  PROVE  /\ Data(job) \in JobType /\ Data(job).made = job.made + 1
         /\ Data(job).chunks = Append(job.chunks, job.made + 1)
         /\ Data(job).stage = "transform" /\ Data(job).wire = job.wire
         /\ Data(job).file = job.file /\ Data(job).left = job.left
         /\ Data(job).ended = job.ended /\ Data(job).conn = job.conn
         /\ Data(job).posts = job.posts /\ Data(job).saved = job.saved
<1> DEFINE m == job.made + 1
           c == Append(job.chunks, m)
           t == "transform"
<1>1. MaxChunks \in Nat /\ job.made \in 0 .. MaxChunks /\ job.chunks \in Seq(Positive)
  BY ConsoleAssumption DEF JobType
<1>2. m \in 0 .. MaxChunks /\ m \in Positive
  BY <1>1 DEF Positive
<1>3. c \in Seq(Positive)
  BY <1>1, <1>2
<1>4. Data(job) = [job EXCEPT !.made = m, !.stage = t, !.chunks = c]
  BY DEF Data
<1> HIDE DEF m, c
<1> QED BY <1>2, <1>3, <1>4 DEF JobType, m, c

LEMMA DataFlows ==
  ASSUME NEW job \in JobType, Flows(job), job.ended # "done", job.made < MaxChunks
  PROVE  Flows(Data(job))
<1> DEFINE m == job.made + 1
           new == Data(job)
<1>1. PICK cut \in Seq(Nat) : Cuts(job, cut)
  BY DEF Flows
<1>2. /\ MaxChunks \in Nat /\ job.made \in Nat /\ Len(job.wire) \in Nat
  BY ConsoleAssumption DEF JobType
<1>3. 0 .. job.made \subseteq 0 .. m
  BY <1>2
<1>4. Append(job.chunks, m) = Run(cut[Len(cut)], m)
  <2> DEFINE a == cut[Len(cut)]
  <2>1. Len(cut) \in 1 .. Len(cut)
    BY <1>1, <1>2 DEF Cuts
  <2>2. a \in Nat /\ a <= job.made /\ job.chunks = Run(a, job.made)
    BY <1>1, <1>2, <2>1 DEF Cuts
  <2> HIDE DEF a
  <2>3. Append(Run(a, job.made), job.made + 1) = Run(a, job.made + 1)
    BY <1>2, <2>2, RunNext
  <2> QED BY <2>2, <2>3 DEF a
<1>5. /\ new.made = m /\ new.chunks = Append(job.chunks, m) /\ new.wire = job.wire
      /\ new.file = job.file /\ new.ended = job.ended /\ new.stage = "transform"
  BY DataType
<1> HIDE DEF new, m
<1>6. Cuts(new, cut)
  <2>1. \A k \in 1 .. Len(cut) : cut[k] \in 0 .. m
    BY <1>1, <1>3 DEF Cuts
  <2>2. \A k \in 1 .. Len(job.wire) : cut[k] <= cut[k + 1] /\ job.wire[k] = Run(cut[k], cut[k + 1])
    BY <1>1 DEF Cuts, Says
  <2>3. Len(cut) = Len(job.wire) + 1 /\ cut[1] = Len(job.file)
    BY <1>1 DEF Cuts
  <2> QED BY <1>4, <1>5, <2>1, <2>2, <2>3 DEF Cuts, Says
<1> QED BY <1>5, <1>6 DEF Flows, new

LEMMA StateType ==
  ASSUME NEW job \in JobType
  PROVE  /\ State(job) \in JobType /\ State(job).chunks = <<>>
         /\ State(job).wire = Append(job.wire, Message(job))
         /\ State(job).made = job.made /\ State(job).stage = job.stage
         /\ State(job).file = job.file /\ State(job).left = job.left
         /\ State(job).ended = job.ended /\ State(job).conn = job.conn
         /\ State(job).posts = job.posts /\ State(job).saved = job.saved
         /\ job.wire \in Seq(Seq(Positive)) => State(job).wire \in Seq(Seq(Positive))
<1> DEFINE e == <<>>
           w == Append(job.wire, Message(job))
<1>1. Seq(Positive) \subseteq Seq(Nat) /\ e \in Seq(Positive)
  <2>1. Positive \subseteq Nat
    BY DEF Positive
  <2> QED BY <2>1, SeqMonotonic, EmptySeq
<1>2. Message(job) \in Seq(Positive)
  BY <1>1 DEF Message, JobType
<1>3. w \in Seq(Seq(Nat)) /\ (job.wire \in Seq(Seq(Positive)) => w \in Seq(Seq(Positive)))
  BY <1>1, <1>2 DEF JobType
<1>4. State(job) = [job EXCEPT !.wire = w, !.chunks = e]
  BY DEF State
<1> HIDE DEF w, e
<1> QED BY <1>1, <1>3, <1>4 DEF JobType, w, e

\* A message of a job that has not ended.
LEMMA StateFlows ==
  ASSUME NEW job \in JobType, Flows(job), job.ended # "done"
  PROVE  Flows(State(job))
<1> DEFINE w == Append(job.wire, job.chunks)
           new == State(job)
           n == Len(job.wire)
<1>1. PICK cut \in Seq(Nat) : Cuts(job, cut)
  BY DEF Flows
<1>2. /\ job.made \in Nat /\ job.chunks \in Seq(Nat) /\ job.wire \in Seq(Seq(Nat)) /\ n \in Nat
  <2>1. Positive \subseteq Nat
    BY DEF Positive
  <2>2. job.chunks \in Seq(Positive) /\ job.wire \in Seq(Seq(Nat)) /\ job.made \in Nat
    BY ConsoleAssumption DEF JobType
  <2>3. job.chunks \in Seq(Nat)
    BY <2>1, <2>2, SeqMonotonic
  <2> QED BY <2>2, <2>3
<1>3. /\ w \in Seq(Seq(Nat)) /\ Len(w) = n + 1 /\ w[n + 1] = job.chunks
      /\ \A k \in 1 .. n : w[k] = job.wire[k]
  BY <1>2
<1> DEFINE more == Append(cut, job.made)
<1>4. /\ more \in Seq(Nat) /\ Len(more) = n + 2 /\ more[n + 2] = job.made
      /\ \A k \in 1 .. n + 1 : more[k] = cut[k]
      /\ Len(cut) = n + 1
  BY <1>1, <1>2 DEF Cuts
<1>5. /\ \A k \in 1 .. n + 2 : k \in 1 .. n + 1 \/ k = n + 2
      /\ \A k \in 1 .. n + 1 : k \in 1 .. n \/ k = n + 1
      /\ \A k \in 1 .. n : k \in 1 .. n + 1 /\ k + 1 \in 1 .. n + 1
      /\ n + 1 \in 1 .. n + 1 /\ n + 1 + 1 = n + 2 /\ 1 \in 1 .. n + 1
      /\ job.made \in 0 .. job.made
  BY <1>2
<1>6. job.chunks = Run(cut[n + 1], job.made) /\ cut[n + 1] \in 0 .. job.made /\ cut[1] = Len(job.file)
  BY <1>1, <1>4, <1>5 DEF Cuts
<1>7. \A k \in 1 .. n : cut[k] <= cut[k + 1] /\ job.wire[k] = Run(cut[k], cut[k + 1])
  BY <1>1 DEF Cuts, Says
<1>8. \A k \in 1 .. n + 1 : cut[k] \in 0 .. job.made
  BY <1>1, <1>4 DEF Cuts
<1>m. Message(job) = job.chunks
  BY DEF Flows, Message
<1> HIDE DEF w, more
<1>9. /\ new.made = job.made /\ new.chunks = <<>> /\ new.wire = w
      /\ new.file = job.file /\ new.stage = job.stage
  BY <1>m, StateType DEF w
<1> HIDE DEF new, n
<1>10. \A k \in 1 .. n + 2 : more[k] \in 0 .. job.made
  BY <1>4, <1>5, <1>8
<1>11. \A k \in 1 .. n + 1 : more[k] <= more[k + 1] /\ w[k] = Run(more[k], more[k + 1])
  <2> TAKE k \in 1 .. n + 1
  <2>1. CASE k \in 1 .. n
    BY <1>3, <1>4, <1>5, <1>7, <2>1
  <2>2. CASE k = n + 1
    <3>1. more[k] = cut[n + 1] /\ more[k + 1] = job.made /\ w[k] = job.chunks
      BY <1>3, <1>4, <1>5, <2>2
    <3>2. cut[n + 1] <= job.made
      BY <1>2, <1>6
    <3> QED BY <1>6, <3>1, <3>2
  <2> QED BY <1>5, <2>1, <2>2
<1>12. <<>> = Run(job.made, job.made)
  BY <1>2, RunNothing
<1>13. more[1] = Len(job.file)
  BY <1>4, <1>5, <1>6
<1>14. Cuts(new, more)
  <2>1. Len(more) = Len(new.wire) + 1
    BY <1>2, <1>3, <1>4, <1>9
  <2>2. \A k \in 1 .. Len(more) : more[k] \in 0 .. new.made
    BY <1>4, <1>9, <1>10
  <2>3. \A k \in 1 .. Len(new.wire) : more[k] <= more[k + 1] /\ Says(new, k, more[k], more[k + 1])
    BY <1>3, <1>9, <1>11 DEF Says
  <2>4. new.chunks = Run(more[Len(more)], new.made)
    BY <1>4, <1>9, <1>12
  <2> QED BY <1>9, <1>13, <2>1, <2>2, <2>3, <2>4 DEF Cuts
<1> QED BY <1>4, <1>9, <1>14 DEF Flows, new

\* The message that ends the export.
Finish(job) == [job EXCEPT !.ended = "done", !.wire = Append(@, Done)]

LEMMA FinishType ==
  ASSUME NEW job \in JobType
  PROVE  /\ Finish(job) \in JobType /\ Finish(job).ended = "done"
         /\ Finish(job).wire = Append(job.wire, Done)
         /\ Finish(job).chunks = job.chunks /\ Finish(job).made = job.made
         /\ Finish(job).stage = job.stage
         /\ Finish(job).file = job.file /\ Finish(job).left = job.left
         /\ Finish(job).conn = job.conn
         /\ Finish(job).posts = job.posts /\ Finish(job).saved = job.saved
<1> DEFINE w == Append(job.wire, Done)
           d == "done"
<1>1. w \in Seq(Seq(Nat))
  BY DEF JobType, Done
<1>2. Finish(job) = [job EXCEPT !.ended = d, !.wire = w]
  BY DEF Finish
<1> HIDE DEF w
<1> QED BY <1>1, <1>2 DEF JobType, w

LEMMA FinishFlows ==
  ASSUME NEW job \in JobType, Flows(job), job.ended # "done", job.chunks = <<>>
  PROVE  Flows(Finish(job))
<1> DEFINE w == Append(job.wire, Done)
           new == Finish(job)
           n == Len(job.wire)
<1>1. PICK cut \in Seq(Nat) : Cuts(job, cut)
  BY DEF Flows
<1>2. /\ job.made \in Nat /\ job.wire \in Seq(Seq(Nat)) /\ n \in Nat /\ Done \in Seq(Nat)
  BY ConsoleAssumption DEF JobType, Done
<1>3. /\ w \in Seq(Seq(Nat)) /\ Len(w) = n + 1 /\ w[n + 1] = Done
      /\ \A k \in 1 .. n : w[k] = job.wire[k]
  BY <1>2
<1> DEFINE more == Append(cut, job.made)
<1>4. /\ more \in Seq(Nat) /\ Len(more) = n + 2 /\ more[n + 2] = job.made
      /\ \A k \in 1 .. n + 1 : more[k] = cut[k]
      /\ Len(cut) = n + 1
  BY <1>1, <1>2 DEF Cuts
<1>5. /\ \A k \in 1 .. n + 2 : k \in 1 .. n + 1 \/ k = n + 2
      /\ \A k \in 1 .. n + 1 : k \in 1 .. n \/ k = n + 1
      /\ \A k \in 1 .. n : k \in 1 .. n + 1 /\ k + 1 \in 1 .. n + 1
      /\ n + 1 \in 1 .. n + 1 /\ n + 1 + 1 = n + 2 /\ 1 \in 1 .. n + 1
      /\ job.made \in 0 .. job.made
  BY <1>2
<1>6. cut[n + 1] = job.made /\ cut[1] = Len(job.file)
  <2> DEFINE a == cut[n + 1]
  <2>1. job.chunks = Run(a, job.made) /\ a \in 0 .. job.made /\ cut[1] = Len(job.file)
    BY <1>1, <1>4, <1>5 DEF Cuts
  <2> HIDE DEF a
  <2>2. a \in Nat /\ a <= job.made
    BY <1>2, <2>1
  <2>3. Len(Run(a, job.made)) = job.made - a
    BY <1>2, <2>2, RunType
  <2>4. job.made - a = 0
    BY <2>1, <2>3
  <2>5. a = job.made
    BY <1>2, <2>2, <2>4
  <2> QED BY <2>1, <2>5 DEF a
<1>7. \A k \in 1 .. n : cut[k] <= cut[k + 1] /\ job.wire[k] = Run(cut[k], cut[k + 1])
  BY <1>1 DEF Cuts, Says
<1>8. \A k \in 1 .. n + 1 : cut[k] \in 0 .. job.made
  BY <1>1, <1>4 DEF Cuts
<1> HIDE DEF w, more
<1>9. /\ new.made = job.made /\ new.chunks = job.chunks /\ new.wire = w
      /\ new.file = job.file /\ new.ended = "done" /\ new.stage = job.stage
  BY FinishType DEF w
<1> HIDE DEF new, n
<1>10. \A k \in 1 .. n + 2 : more[k] \in 0 .. job.made
  BY <1>4, <1>5, <1>8
<1>11. \A k \in 1 .. n + 1 : more[k] <= more[k + 1] /\ Says(new, k, more[k], more[k + 1])
  <2> TAKE k \in 1 .. n + 1
  <2>1. CASE k \in 1 .. n
    BY <1>3, <1>4, <1>5, <1>7, <1>9, <2>1 DEF Says
  <2>2. CASE k = n + 1
    <3>1. more[k] = job.made /\ more[k + 1] = job.made /\ w[k] = Done
      BY <1>3, <1>4, <1>5, <1>6, <2>2
    <3>2. k = Len(new.wire)
      BY <1>3, <1>9, <2>2
    <3> QED BY <1>2, <1>9, <3>1, <3>2 DEF Says
  <2> QED BY <1>5, <2>1, <2>2
<1>12. job.chunks = Run(job.made, job.made)
  BY <1>2, RunNothing
<1>13. Cuts(new, more)
  <2>1. Len(more) = Len(new.wire) + 1
    BY <1>2, <1>3, <1>4, <1>9
  <2>2. \A k \in 1 .. Len(more) : more[k] \in 0 .. new.made
    BY <1>4, <1>9, <1>10
  <2>3. \A k \in 1 .. Len(new.wire) : more[k] <= more[k + 1] /\ Says(new, k, more[k], more[k + 1])
    BY <1>3, <1>9, <1>11
  <2>4. new.chunks = Run(more[Len(more)], new.made)
    BY <1>4, <1>9, <1>12
  <2>5. more[1] = Len(new.file)
    BY <1>4, <1>5, <1>6, <1>9
  <2> QED BY <2>1, <2>2, <2>3, <2>4, <2>5 DEF Cuts
<1> QED BY <1>4, <1>9, <1>13 DEF Flows, new

\* The next message reaches the page: a part of the video, or the end.
Took(job)   == [job EXCEPT !.wire = Tail(@), !.file = @ \o Head(job.wire)]
Closed(job) == [job EXCEPT !.wire = Tail(@), !.conn = "closed",
                           !.saved = IF @ = "no" THEN "yes" ELSE @]

LEMMA TookType ==
  ASSUME NEW job \in JobType, job.wire # <<>>
  PROVE  /\ Took(job) \in JobType /\ Took(job).wire = Tail(job.wire)
         /\ Took(job).file = job.file \o Head(job.wire)
         /\ Took(job).made = job.made /\ Took(job).chunks = job.chunks
         /\ Took(job).stage = job.stage /\ Took(job).left = job.left
         /\ Took(job).ended = job.ended /\ Took(job).conn = job.conn
         /\ Took(job).posts = job.posts /\ Took(job).saved = job.saved
<1> DEFINE w == Tail(job.wire)
           f == job.file \o Head(job.wire)
<1>1. w \in Seq(Seq(Nat)) /\ f \in Seq(Nat)
  BY DEF JobType
<1>2. Took(job) = [job EXCEPT !.wire = w, !.file = f]
  BY DEF Took
<1> HIDE DEF w, f
<1> QED BY <1>1, <1>2 DEF JobType, w, f

LEMMA ClosedType ==
  ASSUME NEW job \in JobType, job.wire # <<>>
  PROVE  /\ Closed(job) \in JobType /\ Closed(job).wire = Tail(job.wire)
         /\ Closed(job).file = job.file /\ Closed(job).made = job.made
         /\ Closed(job).ended = job.ended /\ Closed(job).conn = "closed"
         /\ Closed(job).posts = job.posts /\ Closed(job).left = job.left
<1> DEFINE w == Tail(job.wire)
           c == "closed"
           s == IF job.saved = "no" THEN "yes" ELSE job.saved
<1>1. w \in Seq(Seq(Nat)) /\ s \in {"no", "yes", "never"} /\ c \in {"on", "off", "lost", "closed"}
  BY DEF JobType
<1>2. Closed(job) = [job EXCEPT !.wire = w, !.conn = c, !.saved = s]
  BY DEF Closed
<1> HIDE DEF w, s
<1> QED BY <1>1, <1>2 DEF JobType, w

\* The first message starts where the file ends.
LEMMA FirstMessage ==
  ASSUME NEW job \in JobType, NEW cut \in Seq(Nat), Cuts(job, cut), job.wire # <<>>
  PROVE  /\ cut[1] \in Nat /\ cut[2] \in Nat /\ cut[1] <= cut[2] /\ cut[2] <= job.made
         /\ cut[1] = Len(job.file)
         /\ Head(job.wire) # Done => Head(job.wire) = Run(cut[1], cut[2])
         /\ Head(job.wire) = Done => Len(job.wire) = 1 /\ cut[1] = job.made /\ job.ended = "done"
<1>1. Len(job.wire) \in Nat \ {0} /\ job.made \in Nat /\ Head(job.wire) = job.wire[1]
  BY ConsoleAssumption DEF JobType
<1>2. 1 \in 1 .. Len(cut) /\ 2 \in 1 .. Len(cut) /\ 1 \in 1 .. Len(job.wire)
  BY <1>1 DEF Cuts
<1>3. /\ cut[1] \in 0 .. job.made /\ cut[2] \in 0 .. job.made /\ cut[1] <= cut[1 + 1]
      /\ cut[1] = Len(job.file) /\ Says(job, 1, cut[1], cut[1 + 1])
  BY <1>2 DEF Cuts
<1>4. cut[1] \in Nat /\ cut[2] \in Nat /\ cut[1] <= cut[2] /\ cut[2] <= job.made
  BY <1>1, <1>3
<1>5. Run(cut[1], cut[2]) # Done
  BY <1>4, RunType
<1> QED BY <1>1, <1>3, <1>4, <1>5 DEF Says

LEMMA TookFlows ==
  ASSUME NEW job \in JobType, Flows(job), job.wire # <<>>, Head(job.wire) # Done
  PROVE  Flows(Took(job))
<1> DEFINE w == Tail(job.wire)
           new == Took(job)
           n == Len(job.wire)
<1>1. PICK cut \in Seq(Nat) : Cuts(job, cut)
  BY DEF Flows
<1>2. /\ job.made \in Nat /\ job.file \in Seq(Nat)
      /\ job.wire \in Seq(Seq(Nat)) /\ n \in Nat \ {0}
  BY ConsoleAssumption DEF JobType
<1>3. /\ w \in Seq(Seq(Nat)) /\ Len(w) = n - 1
      /\ \A k \in 1 .. n - 1 : w[k] = job.wire[k + 1]
  BY <1>2
<1> DEFINE rest == Tail(cut)
<1>4. /\ rest \in Seq(Nat) /\ Len(rest) = n /\ \A k \in 1 .. n : rest[k] = cut[k + 1]
      /\ Len(cut) = n + 1
  BY <1>1, <1>2 DEF Cuts
<1> DEFINE a == cut[1]
           b == cut[2]
<1>5. /\ a \in Nat /\ b \in Nat /\ a <= b /\ b <= job.made /\ a = Len(job.file)
      /\ Head(job.wire) = Run(a, b)
  BY <1>1, FirstMessage
<1>6. \A k \in 1 .. n : rest[k] \in 0 .. job.made
  <2>1. \A k \in 1 .. n + 1 : cut[k] \in 0 .. job.made
    BY <1>1, <1>4 DEF Cuts
  <2>2. \A k \in 1 .. n : k + 1 \in 1 .. n + 1
    BY <1>2
  <2> HIDE DEF rest, n
  <2> QED BY <1>4, <2>1, <2>2
<1>7. \A k \in 1 .. n - 1 : rest[k] <= rest[k + 1] /\ Says(job, k + 1, rest[k], rest[k + 1])
  <2> TAKE k \in 1 .. n - 1
  <2>1. k + 1 \in 1 .. n /\ k \in 1 .. n
    BY <1>2
  <2>2. cut[k + 1] <= cut[k + 1 + 1] /\ Says(job, k + 1, cut[k + 1], cut[k + 1 + 1])
    BY <1>1, <2>1 DEF Cuts
  <2> QED BY <1>4, <2>1, <2>2
<1>8. job.chunks = Run(rest[n], job.made)
  <2>1. job.chunks = Run(cut[n + 1], job.made) /\ n \in 1 .. n
    BY <1>1, <1>2, <1>4 DEF Cuts
  <2> QED BY <1>4, <2>1
<1>9. rest[1] = b
  BY <1>2, <1>4
<1> HIDE DEF w, rest, a, b
<1>10. /\ new.made = job.made /\ new.chunks = job.chunks /\ new.wire = w
       /\ new.ended = job.ended /\ new.stage = job.stage
       /\ new.file = job.file \o Head(job.wire)
  BY TookType DEF w
<1> HIDE DEF new
<1>11. new.file = Run(0, b) /\ Len(new.file) = b
  <2>1. job.file = Run(0, a)
    BY <1>5 DEF Flows
  <2>2. new.file = Run(0, a) \o Run(a, b)
    BY <1>5, <1>10, <2>1
  <2>3. new.file = Run(0, b)
    BY <1>5, <2>2, RunMore
  <2>4. Len(Run(0, b)) = b - 0
    <3>1. 0 \in Nat /\ 0 <= b
      BY <1>5
    <3> QED BY <1>5, <3>1, RunType
  <2> QED BY <1>5, <2>3, <2>4
<1> HIDE DEF n
<1>12. \A k \in 1 .. n - 1 : Says(new, k, rest[k], rest[k + 1])
  <2> TAKE k \in 1 .. n - 1
  <2>1. w[k] = job.wire[k + 1] /\ Says(job, k + 1, rest[k], rest[k + 1])
    BY <1>3, <1>7
  <2>2. k + 1 = Len(job.wire) => k = Len(w)
    BY <1>2, <1>3 DEF n
  <2> QED BY <1>10, <2>1, <2>2 DEF Says
<1>13. Cuts(new, rest)
  <2>1. Len(rest) = Len(new.wire) + 1
    BY <1>2, <1>3, <1>4, <1>10
  <2>2. \A k \in 1 .. Len(rest) : rest[k] \in 0 .. new.made
    BY <1>4, <1>6, <1>10
  <2>3. \A k \in 1 .. Len(new.wire) : rest[k] <= rest[k + 1] /\ Says(new, k, rest[k], rest[k + 1])
    BY <1>3, <1>7, <1>10, <1>12
  <2>4. new.chunks = Run(rest[Len(rest)], new.made)
    BY <1>4, <1>8, <1>10
  <2>5. rest[1] = Len(new.file)
    BY <1>9, <1>11
  <2> QED BY <2>1, <2>2, <2>3, <2>4, <2>5 DEF Cuts
<1>14. new.file = Run(0, Len(new.file)) /\ (new.stage = "transform" \/ new.chunks = <<>>)
  BY <1>10, <1>11 DEF Flows
<1> QED BY <1>4, <1>13, <1>14 DEF Flows, new

\* A job that still has its connection is sound when its chunks flow.
LEMMA OpenJobOK ==
  ASSUME NEW job \in JobType, job.ended # "threw" => Flows(job),
         job.ended # "done" => job.wire \in Seq(Seq(Positive)),
         job.saved # "yes", job.posts = 1 => job.left = <<>>
  PROVE  JobOK(job)
BY FlowsBound DEF JobOK, Flows

LEMMA TookOK ==
  ASSUME NEW job, JobOK(job), job.conn = "on", job.wire # <<>>, Head(job.wire) # Done
  PROVE  JobOK(Took(job))
<1>1. job \in JobType /\ job.saved # "yes" /\ (job.posts = 1 => job.left = <<>>)
  BY DEF JobOK
<1>2. /\ Took(job) \in JobType /\ Took(job).saved # "yes" /\ Took(job).ended = job.ended
      /\ Took(job).posts = job.posts /\ Took(job).left = job.left
      /\ Took(job).wire = Tail(job.wire)
  BY <1>1, TookType
<1>3. job.ended # "threw" => Flows(Took(job))
  BY <1>1, TookFlows DEF JobOK
<1>4. job.ended # "done" => Took(job).wire \in Seq(Seq(Positive))
  BY <1>2 DEF JobOK
<1> QED BY <1>1, <1>2, <1>3, <1>4, OpenJobOK

LEMMA ClosedOK ==
  ASSUME NEW job, JobOK(job), job.conn = "on", job.wire # <<>>, Head(job.wire) = Done
  PROVE  JobOK(Closed(job))
<1>1. job \in JobType
  BY DEF JobOK
<1>2. job.ended = "done"
  <2> SUFFICES ASSUME job.ended # "done" PROVE FALSE
    OBVIOUS
  <2>0. job.wire \in Seq(Seq(Positive))
    BY DEF JobOK
  <2>1. Head(job.wire) \in Seq(Positive) /\ Len(Head(job.wire)) = 1
    <3>1. Len(Done) = 1
      BY DEF Done
    <3>2. Head(job.wire) \in Seq(Positive)
      BY <2>0
    <3> QED BY <3>1, <3>2
  <2>2. Head(job.wire)[1] \in Positive
    BY <2>1
  <2> QED BY <2>2 DEF Done, Positive
<1>3. Flows(job)
  BY <1>2 DEF JobOK
<1>4. PICK cut \in Seq(Nat) : Cuts(job, cut)
  BY <1>3 DEF Flows
<1>5. Len(job.file) = job.made
  BY <1>1, <1>4, FirstMessage
<1>6. /\ Closed(job) \in JobType /\ Closed(job).file = job.file /\ Closed(job).made = job.made
      /\ Closed(job).ended = "done" /\ Closed(job).conn = "closed"
      /\ Closed(job).posts = job.posts /\ Closed(job).left = job.left
  BY <1>1, <1>2, ClosedType
<1>7. job.made \in Nat /\ job.file = Run(0, Len(job.file))
  BY <1>1, <1>3, ConsoleAssumption DEF JobType, Flows
<1> QED BY <1>5, <1>6, <1>7 DEF JobOK

\* The request of a job is made again.
LEMMA PostOK ==
  ASSUME NEW job, JobOK(job), job.conn # "closed"
  PROVE  JobOK(Post(job))
<1> DEFINE l == job.left \o job.file
           p == job.posts + 1
           z == 0
           e == <<>>
           g == "generate"
           o == "no"
           c == "on"
           new == [job EXCEPT !.made = z, !.chunks = e, !.stage = g, !.ended = o, !.wire = e,
                              !.conn = c, !.posts = p, !.left = l, !.file = e]
<1>1. job \in JobType /\ job.saved # "yes"
  BY DEF JobOK
<1>2. l \in Seq(Nat) /\ p \in Positive /\ p # 1 /\ z \in 0 .. MaxChunks
  BY <1>1, ConsoleAssumption DEF JobType, Positive
<1>3. e \in Seq(Nat) /\ e \in Seq(Positive) /\ e \in Seq(Seq(Nat)) /\ e \in Seq(Seq(Positive))
  BY EmptySeq
<1>4. Post(job) = new
  BY DEF Post
<1> HIDE DEF l, p, e, z
<1>5. /\ new \in JobType /\ new.saved = job.saved /\ new.posts = p /\ new.made = z
      /\ new.chunks = e /\ new.wire = e /\ new.file = e
  BY <1>1, <1>2, <1>3 DEF JobType
<1> HIDE DEF new
<1>6. Flows(new)
  BY <1>5, EmptyFlows DEF e, z
<1>7. JobOK(new)
  BY <1>1, <1>2, <1>3, <1>5, <1>6, OpenJobOK
<1> QED BY <1>4, <1>7

\* A connection ends without an answer.
LEMMA CutOffOK ==
  ASSUME NEW job, JobOK(job), job.conn = "on", NEW c \in {"off", "lost"},
         NEW s \in {job.saved, "never"}
  PROVE  JobOK([job EXCEPT !.conn = c, !.wire = <<>>, !.saved = s])
<1> DEFINE e == <<>>
           new == [job EXCEPT !.conn = c, !.wire = e, !.saved = s]
<1>1. job \in JobType /\ job.saved # "yes" /\ s # "yes" /\ s \in {"no", "yes", "never"}
  BY DEF JobOK, JobType
<1>2. e \in Seq(Seq(Nat)) /\ e \in Seq(Seq(Positive)) /\ c \in {"on", "off", "lost", "closed"}
  BY EmptySeq
<1> HIDE DEF e
<1>3. /\ new \in JobType /\ new.conn = c /\ new.wire = e /\ new.saved = s
      /\ new.file = job.file /\ new.made = job.made /\ new.ended = job.ended
      /\ new.posts = job.posts /\ new.left = job.left
  BY <1>1, <1>2 DEF JobType
<1> HIDE DEF new
<1>4. JobOK(new)
  BY <1>1, <1>2, <1>3 DEF JobOK
<1> QED BY <1>4 DEF new, e

LEMMA DataOK ==
  ASSUME NEW job, JobOK(job), job.conn = "on", job.ended # "done", job.made < MaxChunks
  PROVE  JobOK(Data(job))
<1>1. job \in JobType /\ job.saved # "yes" /\ (job.posts = 1 => job.left = <<>>)
  BY DEF JobOK
<1>2. /\ Data(job) \in JobType /\ Data(job).saved # "yes" /\ Data(job).ended = job.ended
      /\ Data(job).posts = job.posts /\ Data(job).left = job.left
      /\ Data(job).wire = job.wire
  BY <1>1, DataType
<1>3. job.ended # "threw" => Flows(Data(job))
  BY <1>1, DataFlows DEF JobOK
<1>4. Data(job).wire \in Seq(Seq(Positive))
  BY <1>2 DEF JobOK
<1> QED BY <1>1, <1>2, <1>3, <1>4, OpenJobOK

LEMMA StateOK ==
  ASSUME NEW job, JobOK(job), job.conn = "on", job.ended # "done"
  PROVE  JobOK(State(job))
<1>1. job \in JobType /\ job.saved # "yes" /\ (job.posts = 1 => job.left = <<>>)
  BY DEF JobOK
<1>2. /\ State(job) \in JobType /\ State(job).saved # "yes" /\ State(job).ended = job.ended
      /\ State(job).posts = job.posts /\ State(job).left = job.left
      /\ job.wire \in Seq(Seq(Positive)) => State(job).wire \in Seq(Seq(Positive))
  BY <1>1, StateType
<1>3. job.ended # "threw" => Flows(State(job))
  BY <1>1, StateFlows DEF JobOK
<1>4. State(job).wire \in Seq(Seq(Positive))
  BY <1>2 DEF JobOK
<1> QED BY <1>1, <1>2, <1>3, <1>4, OpenJobOK

\* The end of ffmpeg: what waits, and then the message that says so.
LEMMA CloseOK ==
  ASSUME NEW job, JobOK(job), job.conn = "on", job.ended = "no"
  PROVE  JobOK(Finish(State(job)))
<1> DEFINE last == State(job)
<1>1. job \in JobType /\ job.saved # "yes" /\ (job.posts = 1 => job.left = <<>>) /\ Flows(job)
  BY DEF JobOK
<1>2. /\ last \in JobType /\ last.saved # "yes" /\ last.ended = "no" /\ last.chunks = <<>>
      /\ last.posts = job.posts /\ last.left = job.left
  BY <1>1, StateType
<1>3. Flows(last)
  BY <1>1, StateFlows
<1> HIDE DEF last
<1>4. /\ Finish(last) \in JobType /\ Finish(last).saved # "yes" /\ Finish(last).ended = "done"
      /\ Finish(last).posts = last.posts /\ Finish(last).left = last.left
  BY <1>2, FinishType
<1>5. Flows(Finish(last))
  BY <1>2, <1>3, FinishFlows
<1>6. JobOK(Finish(last))
  BY <1>1, <1>2, <1>4, <1>5, OpenJobOK
<1> QED BY <1>6 DEF last

\* The export throws: from here on nothing is promised of its file.
LEMMA ErrorOK ==
  ASSUME NEW job, JobOK(job), job.conn = "on", job.ended # "done"
  PROVE  JobOK([job EXCEPT !.stage = "fail", !.ended = "threw"])
<1> DEFINE f == "fail"
           t == "threw"
           new == [job EXCEPT !.stage = f, !.ended = t]
<1>1. job \in JobType /\ job.saved # "yes" /\ (job.posts = 1 => job.left = <<>>)
      /\ job.wire \in Seq(Seq(Positive))
  BY DEF JobOK
<1>2. /\ new \in JobType /\ new.ended = t /\ new.wire = job.wire /\ new.saved = job.saved
      /\ new.posts = job.posts /\ new.left = job.left
  BY <1>1 DEF JobType
<1> HIDE DEF new
<1>3. JobOK(new)
  BY <1>1, <1>2, OpenJobOK
<1> QED BY <1>3 DEF new

LEMMA JobsInit == ConsoleInit => JobsOK
<1> SUFFICES ASSUME ConsoleInit PROVE JobsOK
  OBVIOUS
<1>1. jobs = <<>>
  BY DEF ConsoleInit
<1> QED BY <1>1 DEF JobsOK

LEMMA JobsStep == JobsOK /\ DialogInv /\ [ConsoleNext]_consoleVars => JobsOK'
<1> SUFFICES ASSUME JobsOK, DialogInv, [ConsoleNext]_consoleVars PROVE JobsOK'
  OBVIOUS
<1>0. jobs \in Seq(JobType)
  BY DEF JobsOK
<1>a. ASSUME NEW i \in DOMAIN jobs, NEW job, jobs' = [jobs EXCEPT ![i] = job], JobOK(job)
      PROVE  JobsOK'
  <2>1. job \in JobType
    BY <1>a DEF JobOK
  <2>2. jobs' \in Seq(JobType) /\ DOMAIN jobs' = DOMAIN jobs
    BY <1>0, <1>a, <2>1
  <2>3. \A k \in DOMAIN jobs : jobs'[k] = IF k = i THEN job ELSE jobs[k]
    BY <1>0, <1>a
  <2> QED BY <1>a, <2>2, <2>3 DEF JobsOK
<1>1. ASSUME NEW i \in DOMAIN jobs, FfmpegData(i)
      PROVE  JobsOK'
  <2>1. /\ JobOK(jobs[i]) /\ jobs[i].conn = "on" /\ jobs[i].ended # "done"
        /\ jobs[i].made < MaxChunks /\ jobs' = [jobs EXCEPT ![i] = Data(jobs[i])]
    BY <1>1 DEF FfmpegData, JobStep, Data, JobsOK
  <2> QED BY <1>a, <2>1, DataOK
<1>2. ASSUME NEW i \in DOMAIN jobs, Dispatch(i)
      PROVE  JobsOK'
  <2>1. /\ JobOK(jobs[i]) /\ jobs[i].conn = "on" /\ jobs[i].ended # "done"
        /\ jobs' = [jobs EXCEPT ![i] = State(jobs[i])]
    BY <1>2 DEF Dispatch, JobStep, JobsOK
  <2> QED BY <1>a, <2>1, StateOK
<1>3. ASSUME NEW i \in DOMAIN jobs, FfmpegClose(i)
      PROVE  JobsOK'
  <2>1. /\ JobOK(jobs[i]) /\ jobs[i].conn = "on" /\ jobs[i].ended = "no"
        /\ jobs' = [jobs EXCEPT ![i] = Finish(State(jobs[i]))]
    BY <1>3 DEF FfmpegClose, JobStep, Finish, JobsOK
  <2> QED BY <1>a, <2>1, CloseOK
<1>4. ASSUME NEW i \in DOMAIN jobs, FfmpegError(i)
      PROVE  JobsOK'
  <2>1. /\ JobOK(jobs[i]) /\ jobs[i].conn = "on" /\ jobs[i].ended # "done"
        /\ jobs' = [jobs EXCEPT ![i] = [jobs[i] EXCEPT !.stage = "fail", !.ended = "threw"]]
    BY <1>4 DEF FfmpegError, JobStep, JobsOK
  <2> QED BY <1>a, <2>1, ErrorOK
<1>5. ASSUME NEW i \in DOMAIN jobs, ConnectionLost(i)
      PROVE  JobsOK'
  <2>1. /\ JobOK(jobs[i]) /\ jobs[i].conn = "on"
        /\ jobs' = [jobs EXCEPT ![i] =
                      [jobs[i] EXCEPT !.conn = "lost", !.wire = <<>>, !.saved = "never"]]
    BY <1>5 DEF ConnectionLost, JobStep, JobsOK
  <2>2. JobOK([jobs[i] EXCEPT !.conn = "lost", !.wire = <<>>, !.saved = "never"])
    BY <2>1, CutOffOK
  <2> QED BY <1>a, <2>1, <2>2
<1>6. ASSUME NEW i \in DOMAIN jobs, OnMessage(i)
      PROVE  JobsOK'
  <2> DEFINE job == jobs[i]
  <2>1. /\ JobOK(job) /\ job.conn = "on" /\ job.wire # <<>>
        /\ jobs' = [jobs EXCEPT ![i] = IF Head(job.wire) = Done THEN Closed(job) ELSE Took(job)]
    <3>1. /\ JobOK(job) /\ job.conn = "on" /\ job.wire # <<>>
          /\ jobs' = [jobs EXCEPT ![i] =
               LET rest == [job EXCEPT !.wire = Tail(@)]
               IN  IF Head(job.wire) = Done
                   THEN [rest EXCEPT !.conn = "closed", !.saved = IF @ = "no" THEN "yes" ELSE @]
                   ELSE [rest EXCEPT !.file = @ \o Head(job.wire)]]
      BY <1>6 DEF OnMessage, JobStep, JobsOK
    <3>2. job \in JobType
      BY <3>1 DEF JobOK
    <3> HIDE DEF job
    <3>3. [[job EXCEPT !.wire = Tail(@)] EXCEPT !.file = @ \o Head(job.wire)] = Took(job)
      BY <3>2 DEF Took, JobType
    <3>4. [[job EXCEPT !.wire = Tail(@)]
             EXCEPT !.conn = "closed", !.saved = IF @ = "no" THEN "yes" ELSE @] = Closed(job)
      BY <3>2 DEF Closed, JobType
    <3> QED BY <3>1, <3>3, <3>4
  <2>2. JobOK(IF Head(job.wire) = Done THEN Closed(job) ELSE Took(job))
    BY <2>1, TookOK, ClosedOK
  <2> HIDE DEF job
  <2> QED BY <1>a, <2>1, <2>2
<1>10. ASSUME NEW i \in DOMAIN jobs, Retry(i)
      PROVE  JobsOK'
  <2>1. JobOK(jobs[i]) /\ jobs[i].conn # "closed" /\ jobs' = [jobs EXCEPT ![i] = Post(jobs[i])]
    BY <1>10 DEF Retry, JobsOK
  <2> QED BY <1>a, <2>1, PostOK
<1>b. ASSUME NEW f, jobs' = [i \in DOMAIN jobs |-> f[i]], \A i \in DOMAIN jobs : JobOK(f[i])
      PROVE  JobsOK'
  <2>1. DOMAIN jobs = 1 .. Len(jobs) /\ Len(jobs) \in Nat
    BY <1>0
  <2>2. \A i \in DOMAIN jobs : f[i] \in JobType
    BY <1>b DEF JobOK
  <2>3. jobs' \in Seq(JobType) /\ DOMAIN jobs' = DOMAIN jobs
    BY <1>b, <2>1, <2>2
  <2> QED BY <1>b, <2>3 DEF JobsOK
<1>11. ASSUME TabHides
      PROVE  JobsOK'
  <2> DEFINE f == [i \in DOMAIN jobs |->
                    IF jobs[i].conn = "on" THEN [jobs[i] EXCEPT !.conn = "off", !.wire = <<>>]
                    ELSE jobs[i]]
  <2>1. jobs' = f
    BY <1>11 DEF TabHides
  <2>2. ASSUME NEW i \in DOMAIN jobs
        PROVE  JobOK(f[i])
    <3> DEFINE job == jobs[i]
    <3>1. JobOK(job) /\ job \in JobType
      BY DEF JobsOK, JobOK
    <3>2. f[i] = IF job.conn = "on" THEN [job EXCEPT !.conn = "off", !.wire = <<>>] ELSE job
      OBVIOUS
    <3> HIDE DEF job, f
    <3>3. CASE job.conn = "on"
      <4>1. JobOK([job EXCEPT !.conn = "off", !.wire = <<>>, !.saved = job.saved])
        BY <3>1, <3>3, CutOffOK
      <4>2. [job EXCEPT !.conn = "off", !.wire = <<>>, !.saved = job.saved]
            = [job EXCEPT !.conn = "off", !.wire = <<>>]
        BY <3>1 DEF JobType
      <4> QED BY <3>2, <3>3, <4>1, <4>2
    <3> QED BY <3>1, <3>2, <3>3
  <2>3. f = [i \in DOMAIN jobs |-> f[i]]
    OBVIOUS
  <2> HIDE DEF f
  <2> QED BY <1>b, <2>1, <2>2, <2>3
<1>12. ASSUME TabShows
      PROVE  JobsOK'
  <2> DEFINE f == [i \in DOMAIN jobs |-> IF jobs[i].conn = "closed" THEN jobs[i]
                                         ELSE Post(jobs[i])]
  <2>1. jobs' = f
    BY <1>12 DEF TabShows
  <2>2. \A i \in DOMAIN jobs : JobOK(f[i])
    BY PostOK DEF JobsOK
  <2>3. f = [i \in DOMAIN jobs |-> f[i]]
    OBVIOUS
  <2> HIDE DEF f
  <2> QED BY <1>b, <2>1, <2>2, <2>3
<1>7. ASSUME jobs' = jobs \/ jobs' = Append(jobs, Job)
      PROVE  JobsOK'
  <2>1. CASE jobs' = jobs
    BY <2>1 DEF JobsOK
  <2>2. CASE jobs' = Append(jobs, Job)
    <3>1. Job \in JobType /\ JobOK(Job)
      BY NewJobOK DEF JobOK
    <3>2. jobs' \in Seq(JobType)
      BY <1>0, <2>2, <3>1
    <3>3. \A k \in DOMAIN jobs' : jobs'[k] = Job \/ (k \in DOMAIN jobs /\ jobs'[k] = jobs[k])
      <4> TAKE k \in DOMAIN jobs'
      <4>1. Len(jobs) \in Nat /\ k \in 1 .. Len(jobs) + 1
        BY <1>0, <2>2
      <4>2. CASE k = Len(jobs) + 1
        BY <1>0, <2>2, <4>2
      <4>3. CASE k \in 1 .. Len(jobs)
        BY <1>0, <2>2, <4>3
      <4> QED BY <4>1, <4>2, <4>3
    <3> QED BY <3>1, <3>2, <3>3 DEF JobsOK
  <2> QED BY <1>7, <2>1, <2>2
<1>8. ASSUME NEW n \in Version, Arrive(n)
      PROVE  JobsOK'
  <2>1. Callback(GetDetail(view, n)) \/ jobs' = jobs
    BY <1>8 DEF Arrive
  <2>2. dialog \in {"play", "export"}
    BY DEF DialogInv
  <2>3. jobs' = jobs \/ jobs' = Append(jobs, Job)
    BY <2>1, <2>2 DEF Callback
  <2> QED BY <1>7, <2>3
<1>9. ASSUME \/ GetSessionEvents \/ FileUnreadable \/ SyncClicked \/ SyncAnswered \/ Poll \/ Close
             \/ FileUploaded \/ ReadSession \/ ReadFails \/ UNCHANGED consoleVars
      PROVE  JobsOK'
  <2>1. jobs' = jobs
    BY <1>9 DEF GetSessionEvents, FileUnreadable, SyncClicked, SyncAnswered, Poll, Close,
       FileUploaded, ReadSession, ReadFails, consoleVars
  <2> QED BY <1>7, <2>1
<1> QED BY <1>1, <1>2, <1>3, <1>4, <1>5, <1>6, <1>8, <1>9, <1>10, <1>11, <1>12 DEF ConsoleNext

LEMMA JobsHold == JobsOK => FileIsWhole
<1> SUFFICES ASSUME JobsOK, NEW i \in DOMAIN jobs
             PROVE  /\ jobs[i].ended # "threw" => IsPrefix(jobs[i].file, Numbered(jobs[i].made))
                    /\ jobs[i].saved = "yes" => jobs[i].file = Numbered(jobs[i].made)
                    /\ jobs[i].posts = 1 => jobs[i].left = <<>>
  BY DEF FileIsWhole
<1> DEFINE f == jobs[i].file
           m == jobs[i].made
<1>0. JobOK(jobs[i]) /\ jobs[i] \in JobType
  BY DEF JobsOK, JobOK
<1>1. JobOK(jobs[i]) /\ f \in Seq(Nat) /\ m \in Nat
  BY <1>0, ConsoleAssumption DEF JobType
<1>2. \A n \in Nat : Run(0, n) = Numbered(n)
  <2> TAKE n \in Nat
  <2>1. n - 0 = n /\ \A k \in 1 .. n : 0 + k = k
    OBVIOUS
  <2> QED BY <2>1 DEF Run, Numbered
<1>3. ASSUME jobs[i].ended # "threw"
      PROVE  IsPrefix(f, Numbered(m))
  <2> DEFINE n == Len(f)
             t == Numbered(m)
  <2>1. n \in Nat /\ n <= m /\ f = Numbered(n)
    BY <1>1, <1>2, <1>3 DEF JobOK
  <2>2. t \in Seq(Nat) /\ Len(t) = m /\ \A k \in 1 .. m : t[k] = k
    BY <1>1 DEF Numbered
  <2>3. \A k \in 1 .. n : f[k] = k /\ k \in 1 .. m
    <3>1. \A k \in 1 .. n : Numbered(n)[k] = k
      BY DEF Numbered
    <3> HIDE DEF f, n
    <3> QED BY <1>1, <2>1, <3>1
  <2> HIDE DEF f, t, n
  <2>4. SubSeq(f, 1, n) = f
    BY <1>1 DEF n
  <2>5. SubSeq(t, 1, n) = [k \in 1 .. n |-> t[k]]
    BY <1>1, <2>1, <2>2
  <2>6. f = [k \in 1 .. n |-> f[k]]
    BY <1>1 DEF n
  <2>7. SubSeq(t, 1, n) = f
    BY <2>2, <2>3, <2>5, <2>6
  <2> QED BY <2>1, <2>2, <2>4, <2>7 DEF IsPrefix, n, t
<1>4. jobs[i].saved = "yes" => f = Numbered(m)
  BY <1>1, <1>2 DEF JobOK
<1>5. jobs[i].posts = 1 => jobs[i].left = <<>>
  BY <1>1 DEF JobOK
<1> QED BY <1>3, <1>4, <1>5

(* Whatever polling, slow answers, late files and closing do in between,    *)
(* the dialog has one player at most, and none once it is closed            *)
(* (SessionH5.vue, onOpened and closePlayer).                               *)
THEOREM OnePlayerAlways == ConsoleSpec => []OnePlayer
BY DialogInit, DialogStep, DialogHolds, PTL DEF ConsoleSpec

(* What one request brings into the file is a prefix of the video that was  *)
(* made for it, and the whole of what ffmpeg wrote when the file is saved,  *)
(* however the interval and the end of the export share the chunks out      *)
(* among the messages, wherever ffmpeg ends and whenever a connection is    *)
(* lost or the tab is hidden; and it comes after what an earlier request    *)
(* left only when the request was made again (rrweb2video.ts, device.ts,    *)
(* app.ts: exportVideo).                                                    *)
THEOREM FileIsAlwaysWhole == ConsoleSpec => []FileIsWhole
BY DialogInit, DialogStep, JobsInit, JobsStep, JobsHold, PTL DEF ConsoleSpec
==============================================================================
