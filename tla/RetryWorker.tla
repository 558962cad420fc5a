---------------------------- MODULE RetryWorker ----------------------------
(***************************************************************************)
(* The worker of the browser SDK (packages/core/src/browser/worker.ts): it *)
(* sends the records that the page hands to it and, when that fails, keeps *)
(* them in memory and tries again ten seconds later.                       *)
(*                                                                         *)
(* Its handlers await one request after the other, so several runs of      *)
(* sendWithRetry, begun by reports and by the timer, are under way at the  *)
(* same time; they share the buffer, the timer and the streak of failures. *)
(*                                                                         *)
(* A record is a number, its stamp.  The kinds "other" and "api" go into   *)
(* one request and are one kind here.                                      *)
(***************************************************************************)
EXTENDS Integers, FiniteSets, SequencesExt

CONSTANTS
  Records,      \* the records, each a number
  Track,        \* those of rrweb
  Size,         \* [Track -> Nat]: what estimateSize says of them
  ChunkSize,    \* MAX_TRACK_MESSAGE_BYTES * TRACK_COMPRESS_RATIO
  MaxBuffer,    \* MAX_RETRY_COUNT
  MaxRetry,     \* retries in a row before the worker gives up
  MaxRuns       \* bound: runs under way at the same time

ASSUME WorkerAssumption ==
  /\ Records \subseteq Nat
  /\ IsFiniteSet(Records)
  /\ Track \subseteq Records
  /\ Size \in [Track -> Nat]
  /\ ChunkSize \in Nat
  /\ MaxBuffer \in Nat \ {0}
  /\ MaxRetry \in Nat \ {0}
  /\ MaxRuns \in Nat \ {0}

Runs == 1 .. MaxRuns

VARIABLES
  fresh,      \* the records the page has not handed over yet
  buffer,     \* retryBuffer
  timer,      \* whether retryTimer is set
  streak,     \* failStreak
  exhausted,
  todo,       \* for each run, the requests it has not finished, oldest first
  failed,     \* for each run, the records of its failed requests
  alive,      \* FALSE once the page has terminated the worker
  \* What has become of the records, and whether a run ever succeeded.
  delivered, parting, cut, givenUp, ignored, served

runs == <<todo, failed>>
fate == <<delivered, parting, cut, givenUp, ignored, served>>
vars == <<fresh, buffer, timer, streak, exhausted, runs, alive, fate>>

Init ==
  /\ fresh = Records
  /\ buffer = <<>>
  /\ timer = FALSE
  /\ streak = 0
  /\ exhausted = FALSE
  /\ todo = [r \in Runs |-> <<>>]
  /\ failed = [r \in Runs |-> <<>>]
  /\ alive = TRUE
  /\ delivered = {}
  /\ parting = {}
  /\ cut = {}
  /\ givenUp = {}
  /\ ignored = {}
  /\ served = FALSE

-----------------------------------------------------------------------------
(***************************************************************************)
(* packTrackPayloads: a record opens a chunk of its own when it does not   *)
(* fit into the last one.                                                  *)
(***************************************************************************)
TotalSize(chunk) == FoldLeft(LAMBDA n, x : n + Size[x], 0, chunk)

Pack(chunks, x) ==
  IF chunks # <<>> /\ TotalSize(Last(chunks)) + Size[x] <= ChunkSize
  THEN Append(Front(chunks), Append(Last(chunks), x))
  ELSE Append(chunks, <<x>>)

PackTrackPayloads(records) ==
  LET chunks[n \in 0 .. Len(records)] ==
        IF n = 0 THEN <<>> ELSE Pack(chunks[n - 1], records[n])
  IN  chunks[Len(records)]

\* sliceDataForKeepalive: the records of a kind, in their order.
Slice(data, kind) ==
  LET slice[n \in 0 .. Len(data)] ==
        IF n = 0 THEN <<>>
        ELSE IF data[n] \in kind THEN Append(slice[n - 1], data[n]) ELSE slice[n - 1]
  IN  slice[Len(data)]

\* The requests of sendWithRetry: the common records, then the chunks.
Requests(data) ==
  LET common == Slice(data, Records \ Track)
      tracks == Slice(data, Track)
  IN  (IF common = <<>> THEN <<>> ELSE <<common>>) \o PackTrackPayloads(tracks)

Busy(r) == todo[r] # <<>>
FreeRuns == {r \in Runs : ~Busy(r)}
SendWithRetry(data) ==
  \E r \in FreeRuns :
    /\ \A q \in FreeRuns : r <= q
    /\ todo' = [todo EXCEPT ![r] = Requests(data)]
    /\ UNCHANGED failed

\* How many of the records waiting are kept.
Room(waiting) == IF Len(waiting) > MaxBuffer THEN MaxBuffer ELSE Len(waiting)

\* scheduleRetry: the timer is set unless it is set already.  Mutant: only
\* the first failure in a row sets it.
ScheduleFirst == timer' = (timer \/ streak = 0)
ScheduleRetry == timer' = TRUE

-----------------------------------------------------------------------------
(***************************************************************************)
(* handleReport, for a non-empty list of records.  A report of a page that *)
(* is being left sends all it has once, without waiting.                   *)
(***************************************************************************)
Incoming(store) ==
  CHOOSE s \in [1 .. Cardinality(store) -> store] :
    \A i, j \in DOMAIN s : i < j => s[i] < s[j]

\* Mutant: an exhausted worker goes on.
ReportAnyway(store, keepalive) ==
  LET data == buffer \o Incoming(store)
  IN  /\ alive
      /\ fresh' = fresh \ store
      /\ buffer' = <<>>
      /\ ~keepalive
      /\ SendWithRetry(data)
      /\ UNCHANGED <<timer, streak, exhausted, alive, fate>>

Report(store, keepalive) ==
  LET data == buffer \o Incoming(store)
  IN  /\ alive
      /\ fresh' = fresh \ store
      /\ \/ /\ exhausted
            /\ ignored' = ignored \cup store
            /\ UNCHANGED <<buffer, runs, parting>>
         \/ /\ ~exhausted /\ keepalive
            /\ buffer' = <<>>
            /\ parting' = parting \cup ToSet(data)
            /\ UNCHANGED <<runs, ignored>>
         \/ /\ ~exhausted /\ ~keepalive
            /\ buffer' = <<>>
            /\ SendWithRetry(data)
            /\ UNCHANGED <<parting, ignored>>
      /\ UNCHANGED <<timer, streak, exhausted, alive, delivered, cut, givenUp,
                     served>>

(***************************************************************************)
(* handleSendResult, when a run ends with the failed records rest.         *)
(***************************************************************************)
Succeeded ==
  /\ streak' = 0
  /\ timer' = FALSE
  /\ served' = TRUE
  /\ UNCHANGED <<buffer, exhausted, cut, givenUp>>

\* Mutant: what another run has put into the buffer is overwritten.
OverwritingFailure(rest) ==
  /\ streak' = streak + 1
  /\ IF streak' > MaxRetry
     THEN /\ exhausted' = TRUE
          /\ buffer' = <<>>
          /\ timer' = FALSE
          /\ givenUp' = givenUp \cup ToSet(rest)
          /\ UNCHANGED cut
     ELSE /\ buffer' = SubSeq(rest, 1, Room(rest))
          /\ ScheduleRetry
          /\ UNCHANGED <<exhausted, givenUp, cut>>
  /\ UNCHANGED served

Failed(rest) ==
  LET waiting == rest \o buffer
      kept == SubSeq(waiting, 1, Room(waiting))
      over == ToSet(SubSeq(waiting, Room(waiting) + 1, Len(waiting)))
  IN  /\ streak' = streak + 1
      /\ cut' = cut \cup over
      /\ IF streak' > MaxRetry
         THEN /\ exhausted' = TRUE
              /\ buffer' = <<>>
              /\ timer' = FALSE
              /\ givenUp' = givenUp \cup ToSet(kept)
         ELSE /\ buffer' = kept
              /\ ScheduleRetry
              /\ UNCHANGED <<exhausted, givenUp>>
      /\ UNCHANGED served

HandleSendResult(rest) == IF rest = <<>> THEN Succeeded ELSE Failed(rest)

\* The request that run r waits for ends.
RequestEnds(r, success) ==
  LET rest == IF success THEN failed[r] ELSE failed[r] \o Head(todo[r])
      last == Tail(todo[r]) = <<>>
  IN  /\ alive
      /\ Busy(r)
      /\ todo' = [todo EXCEPT ![r] = Tail(@)]
      /\ failed' = [failed EXCEPT ![r] = IF last THEN <<>> ELSE rest]
      /\ delivered' = IF success THEN delivered \cup ToSet(Head(todo[r]))
                                 ELSE delivered
      /\ IF last THEN HandleSendResult(rest)
                 ELSE UNCHANGED <<buffer, timer, streak, exhausted, cut,
                                  givenUp, served>>
      /\ UNCHANGED <<fresh, alive, parting, ignored>>

\* The timer of scheduleRetry.
RetryTimer ==
  /\ alive
  /\ timer
  /\ timer' = FALSE
  /\ IF buffer = <<>>
     THEN UNCHANGED <<buffer, runs>>
     ELSE buffer' = <<>> /\ SendWithRetry(buffer)
  /\ UNCHANGED <<fresh, streak, exhausted, alive, fate>>

\* The page hears that the worker is exhausted and terminates it.
Terminate ==
  /\ alive
  /\ exhausted
  /\ alive' = FALSE
  /\ UNCHANGED <<fresh, buffer, timer, streak, exhausted, runs, fate>>

Next ==
  \/ \E store \in SUBSET fresh \ {{}}, keepalive \in BOOLEAN :
       Report(store, keepalive)
  \/ \E r \in Runs, success \in BOOLEAN : RequestEnds(r, success)
  \/ RetryTimer
  \/ Terminate

Spec == Init /\ [][Next]_vars

(***************************************************************************)
(* Fairness: requests end and the timer fires.  Nothing says that a        *)
(* request succeeds.                                                       *)
(***************************************************************************)
Fairness ==
  /\ \A r \in Runs : WF_vars(\E success \in BOOLEAN : RequestEnds(r, success))
  /\ WF_vars(RetryTimer)

FairSpec == Spec /\ Fairness

-----------------------------------------------------------------------------
(***************************************************************************)
(* Properties.                                                             *)
(***************************************************************************)
Request == Seq(Records) \ {<<>>}

\* The types of the variables; the buffer is within its limit.
TypeOK ==
  /\ fresh \subseteq Records
  /\ buffer \in Seq(Records)
  /\ Len(buffer) <= MaxBuffer
  /\ timer \in BOOLEAN
  /\ streak \in Nat
  /\ exhausted \in BOOLEAN
  /\ \A r \in Runs : todo[r] \in Seq(Request)
  /\ \A r \in Runs : failed[r] \in Seq(Records)
  /\ alive \in BOOLEAN
  /\ \A done \in {delivered, parting, cut, givenUp, ignored} :
       done \subseteq Records
  /\ served \in BOOLEAN

Held == buffer \o FlattenSeq([r \in Runs |-> FlattenSeq(todo[r]) \o failed[r]])

(***************************************************************************)
(* Every record is at one place and only there: with the page, in the      *)
(* buffer or a run, or at its end.  Runs that fail at the same time, and   *)
(* reports during a run, neither lose a record nor send it twice, and the  *)
(* buffer stays within its limit.                                          *)
(***************************************************************************)
EachRecordOnce ==
  /\ TypeOK
  /\ LET ends == <<fresh, delivered, parting, cut, givenUp, ignored>>
     IN  \A x \in Records :
           Cardinality({i \in DOMAIN Held : Held[i] = x}) +
           Cardinality({i \in DOMAIN ends : x \in ends[i]}) = 1

(***************************************************************************)
(* A server that does not answer is left alone: the failures in a row are  *)
(* at most the retries allowed, and one for each run that was under way    *)
(* when the worker gave up.                                                *)
(***************************************************************************)
RetriesAreBounded == streak <= MaxRetry + MaxRuns

(***************************************************************************)
(* As long as no run has succeeded, no record stays in the worker for      *)
(* ever, however runs and reports interleave: it is delivered, cut, given  *)
(* up, or sent once more when the page is left.                            *)
(***************************************************************************)
NothingWaitsForever ==
  \A x \in Records :
    x \in ToSet(Held) ~> (served \/ x \notin ToSet(Held) \/ ~alive)
=============================================================================
