---------------------------- MODULE ClientProofs ----------------------------
(***************************************************************************)
(* Theorems about what runs with a user: the SDK in a page and in a        *)
(* mini-program, and the console in a browser.                             *)
(*                                                                         *)
(* MpSender: the flag "sending" is a lock, and the reporter of a           *)
(* mini-program implements Delivery, for any limits and sizes, any number  *)
(* of retries and launches, and every pattern of failures.                 *)
(*                                                                         *)
(* CollectionPlugins: every error of a page has one reporter, the          *)
(* recording is reported whole, and the performance record leaves with     *)
(* what flushes the page, for any options and any number of errors,        *)
(* events and visits.                                                      *)
(*                                                                         *)
(* HostHooks: every request that the options ask for is reported, and none *)
(* of the SDK's own, the texts of a failed one whole, and every error with *)
(* a name and a text, for any options, limits, contents and errors, and    *)
(* any number of requests.                                                 *)
(*                                                                         *)
(* ClientParts: one SDK runs, with the options that were set, and files     *)
(* the records of a load under one device and one session, for any options, *)
(* files, tabs and loads and any fault of the storage; a window of the      *)
(* console asks about the application it shows and lists that               *)
(* application's entries, no chart outlives the element or the analysis it  *)
(* draws, and only empty projects are deleted, for any windows,             *)
(* applications, menus, analyses and words, and any number of captchas.     *)
(***************************************************************************)
EXTENDS MpSender, CollectionPlugins, HostHooks, ClientParts, FiniteSetTheorems,
        SequenceTheorems, WellFoundedInduction, TLAPS


Held(h) == h.buffer \cup h.queue

\* What every function of the code keeps of the state it is given.
LockOf(h) ==
  /\ h.sending <=> h.request # NoRequest
  /\ h.stopped => ~h.sendTimer /\ ~h.pendingSend
  /\ h.failStreak > MaxRetry => h.stopped

SaneOf(h) ==
  /\ h.buffer \cap h.queue = {}
  /\ h.request.list \subseteq h.queue \cup h.cut

Good(h) == h \in AppState /\ LockOf(h) /\ SaneOf(h)

\* From h to f nothing is accepted: what f does not hold any more was cut.
Loses(h, f) ==
  /\ Held(f) \subseteq Held(h)
  /\ f.cut = h.cut \cup (Held(h) \ Held(f))

-----------------------------------------------------------------------------
(***************************************************************************)
(* The limits only drop.                                                   *)
(***************************************************************************)
LEMMA NewestDrops == ASSUME NEW S, NEW n PROVE Newest(S, n) \subseteq S
  BY DEF Newest

LEMMA TrimDrops == ASSUME NEW S, NEW n PROVE TrimOldest(S, n) \subseteq S
<1>1. Newest(S \ Info, Max({0, n - Cardinality(S \cap Info)})) \subseteq S \ Info
  BY NewestDrops
<1> QED BY <1>1 DEF TrimOldest

LEMMA FitDrops == ASSUME NEW S PROVE Fit(S) \subseteq S
<1> DEFINE T == TrimOldest(S, MaxPersist)
           enough == {n \in 0 .. Cardinality(T \ Info) : n = 0 \/
                        Bytes((T \cap Info) \cup Newest(T \ Info, n)) <= MaxQueueBytes}
<1>1. T \subseteq S
  BY TrimDrops
<1>2. Newest(T \ Info, Max(enough)) \subseteq T \ Info
  BY NewestDrops
<1>3. Fit(S) = (T \cap Info) \cup Newest(T \ Info, Max(enough))
  BY DEF Fit, TrimByBytes
<1> HIDE DEF T, enough
<1> QED BY <1>1, <1>2, <1>3

-----------------------------------------------------------------------------
(***************************************************************************)
(* The functions of the code, from state to state.                         *)
(***************************************************************************)
LEMMA FlushFacts ==
  ASSUME NEW h \in AppState, NEW io \in Io, SaneOf(h)
  PROVE  LET f == FlushMemoryToStorage(h, io)
         IN  /\ f \in AppState /\ SaneOf(f) /\ Loses(h, f)
             /\ h.queue \subseteq f.queue \cup f.cut
             /\ f.memory = h.memory /\ f.request = h.request
             /\ f.sending = h.sending /\ f.sendTimer = h.sendTimer
             /\ f.pendingSend = h.pendingSend /\ f.failStreak = h.failStreak
             /\ f.stopped = h.stopped
<1> DEFINE all == h.queue \cup h.buffer
<1>1. Fit(all) \subseteq all
  BY FitDrops
<1> QED BY <1>1 DEF FlushMemoryToStorage, AppState, SaneOf, Loses, Held, Io

Requests == [list : SUBSET Record, memory : SUBSET Record]

LEMMA NoRequestFacts ==
  NoRequest \in Requests /\ NoRequest.list = {} /\ NoRequest.memory = {}
BY DEF NoRequest, Requests

\* The flag and the request it stands for are cleared together.
LEMMA FreedFacts ==
  ASSUME NEW h \in AppState, h.buffer \cap h.queue = {}
  PROVE  LET e == [h EXCEPT !.sending = FALSE, !.request = NoRequest]
         IN  /\ e \in AppState /\ SaneOf(e) /\ Held(e) = Held(h)
             /\ e.cut = h.cut /\ e.memory = h.memory /\ e.request = NoRequest
             /\ ~e.sending /\ e.stopped = h.stopped /\ e.sendTimer = h.sendTimer
             /\ e.pendingSend = h.pendingSend /\ e.failStreak = h.failStreak
<1> DEFINE e == [h EXCEPT !.sending = FALSE, !.request = NoRequest]
<1>1. e \in AppState
  BY NoRequestFacts DEF AppState, Requests
<1>2. e.request = NoRequest
  BY DEF AppState
<1>3. /\ e.queue = h.queue /\ e.buffer = h.buffer /\ e.cut = h.cut /\ e.memory = h.memory
      /\ ~e.sending /\ e.stopped = h.stopped /\ e.sendTimer = h.sendTimer
      /\ e.pendingSend = h.pendingSend /\ e.failStreak = h.failStreak
  BY DEF AppState
<1> HIDE DEF e
<1>4. SaneOf(e) /\ Held(e) = Held(h)
  BY <1>2, <1>3, NoRequestFacts DEF SaneOf, Held
<1> QED BY <1>1, <1>2, <1>3, <1>4 DEF e

\* What is held is told by five of the fields.
Keeps(h, f) ==
  f.queue = h.queue /\ f.buffer = h.buffer /\ f.cut = h.cut /\ f.memory = h.memory
  /\ f.request = h.request

LEMMA KeepsFacts ==
  ASSUME NEW h, NEW f, Keeps(h, f), SaneOf(h)
  PROVE  SaneOf(f) /\ Held(f) = Held(h)
BY DEF Keeps, SaneOf, Held

\* A new streak keeps the type.
LEMMA StreakFacts ==
  ASSUME NEW h \in AppState, NEW n \in 0 .. MaxRetry + 1
  PROVE  [h EXCEPT !.pendingSend = FALSE, !.failStreak = n] \in AppState
<1> DEFINE T == 0 .. MaxRetry + 1
<1>1. n \in T
  OBVIOUS
<1>2. AppState =
        [queue : SUBSET Record, buffer : SUBSET Record, flushTimer : BOOLEAN,
         memory : SUBSET Record, sending : BOOLEAN,
         request : [list : SUBSET Record, memory : SUBSET Record],
         sendTimer : BOOLEAN, pendingSend : BOOLEAN, failStreak : T,
         stopped : BOOLEAN, cut : SUBSET Record]
  BY DEF AppState
<1> HIDE DEF T
<1> QED BY <1>1, <1>2

LEMMA FinishFailedFacts ==
  ASSUME NEW h \in AppState, SaneOf(h), h.stopped => ~h.sendTimer /\ ~h.pendingSend,
         h.failStreak > MaxRetry => h.stopped
  PROVE  LET f == FinishFailed(h)
         IN  /\ Good(f) /\ Held(f) = Held(h) /\ f.cut = h.cut /\ f.memory = h.memory
             /\ f.request = NoRequest
<1> DEFINE idle == [h EXCEPT !.sending = FALSE, !.request = NoRequest]
           bad  == [idle EXCEPT !.pendingSend = FALSE, !.failStreak = @ + 1]
<1>0. /\ idle \in AppState /\ SaneOf(idle) /\ Held(idle) = Held(h)
      /\ idle.cut = h.cut /\ idle.memory = h.memory /\ idle.request = NoRequest
      /\ ~idle.sending /\ idle.stopped = h.stopped /\ idle.sendTimer = h.sendTimer
      /\ idle.pendingSend = h.pendingSend /\ idle.failStreak = h.failStreak
  BY FreedFacts DEF SaneOf
<1>1. CASE h.stopped
  <2>1. FinishFailed(h) = idle
    BY <1>1 DEF FinishFailed
  <2> HIDE DEF idle
  <2> QED BY <1>0, <1>1, <2>1 DEF Good, LockOf
<1>2. CASE ~h.stopped
  <2>0. FinishFailed(h) = IF bad.failStreak > MaxRetry THEN StopSending(bad) ELSE ScheduleSend(bad)
    BY <1>2 DEF FinishFailed
  <2> HIDE DEF idle
  <2>1. idle.failStreak \in 0 .. MaxRetry
    BY <1>0, <1>2, MpAssumption DEF AppState
  <2>2. bad \in AppState
    <3>1. idle.failStreak + 1 \in 0 .. MaxRetry + 1
      BY <2>1, MpAssumption
    <3> QED BY <1>0, <3>1, StreakFacts
  <2>3. Keeps(idle, bad) /\ ~bad.sending /\ ~bad.pendingSend /\ ~bad.stopped
    BY <1>0, <1>2 DEF Keeps, AppState
  <2> HIDE DEF bad
  <2>4. SaneOf(bad) /\ Held(bad) = Held(h) /\ bad.cut = h.cut
        /\ bad.memory = h.memory /\ bad.request = NoRequest
    BY <1>0, <2>3, KeepsFacts DEF Keeps
  <2> DEFINE f == FinishFailed(h)
  <2>5. CASE bad.failStreak > MaxRetry
    <3>1. f \in AppState /\ Keeps(bad, f) /\ LockOf(f)
      BY <2>0, <2>2, <2>3, <2>4, <2>5 DEF StopSending, LockOf, AppState, Keeps
    <3> HIDE DEF f
    <3> QED BY <2>4, <3>1, KeepsFacts DEF Good, Keeps, f
  <2>6. CASE ~(bad.failStreak > MaxRetry)
    <3>1. f \in AppState /\ Keeps(bad, f) /\ LockOf(f)
      BY <2>0, <2>2, <2>3, <2>4, <2>6 DEF ScheduleSend, LockOf, AppState, Keeps
    <3> HIDE DEF f
    <3> QED BY <2>4, <3>1, KeepsFacts DEF Good, Keeps, f
  <2> QED BY <2>5, <2>6
<1> QED BY <1>1, <1>2

LEMMA FinishDoneFacts ==
  ASSUME NEW h \in AppState, h.buffer \cap h.queue = {}, h.stopped => ~h.sendTimer /\ ~h.pendingSend,
         h.failStreak > MaxRetry => h.stopped
  PROVE  LET f == FinishDone(h)
         IN  /\ Good(f) /\ Held(f) = Held(h) /\ f.cut = h.cut /\ f.memory = h.memory
             /\ f.request = NoRequest
<1> DEFINE idle == [h EXCEPT !.sending = FALSE, !.request = NoRequest]
<1>1. /\ idle \in AppState /\ SaneOf(idle) /\ Held(idle) = Held(h)
      /\ idle.cut = h.cut /\ idle.memory = h.memory /\ idle.request = NoRequest
      /\ ~idle.sending /\ idle.stopped = h.stopped /\ idle.sendTimer = h.sendTimer
      /\ idle.pendingSend = h.pendingSend /\ idle.failStreak = h.failStreak
  BY FreedFacts
<1>2. FinishDone(h) = IF h.stopped THEN idle
                      ELSE [idle EXCEPT !.pendingSend = FALSE, !.failStreak = 0]
  BY DEF FinishDone
<1> HIDE DEF idle
<1>3. CASE h.stopped
  BY <1>1, <1>2, <1>3 DEF Good, LockOf
<1>4. CASE ~h.stopped
  <2> DEFINE f == FinishDone(h)
  <2>1. f \in AppState /\ Keeps(idle, f)
    <3>1. 0 \in 0 .. MaxRetry + 1
      BY MpAssumption
    <3>2. f \in AppState
      BY <1>1, <1>2, <1>4, <3>1, StreakFacts
    <3> QED BY <1>1, <1>2, <1>4, <3>2 DEF AppState, Keeps
  <2>2. ~f.sending /\ ~f.pendingSend /\ ~f.stopped /\ f.failStreak = 0
    BY <1>1, <1>2, <1>4 DEF AppState
  <2> HIDE DEF f
  <2>3. LockOf(f)
    BY <1>1, <2>1, <2>2, MpAssumption DEF LockOf, Keeps
  <2> QED BY <1>1, <2>1, <2>3, KeepsFacts DEF Good, Keeps, f
<1> QED BY <1>3, <1>4

\* One send: what it puts into a request is held, and its memory the list's.
LEMMA SendFacts ==
  ASSUME NEW h, Good(h), NEW io \in Io
  PROVE  LET f == SendRequest(h, io)
         IN  /\ Good(f) /\ Loses(h, f) /\ f.memory = h.memory
             /\ f.request.memory \subseteq h.memory \cup h.request.memory
             /\ f.request.list \subseteq Held(h) \cup h.request.list
<1> DEFINE g == [h EXCEPT !.sendTimer = FALSE, !.pendingSend = FALSE, !.sending = TRUE]
           f == FlushMemoryToStorage(g, io)
<1>1. CASE h.stopped \/ h.sending
  BY <1>1 DEF SendRequest, Good, LockOf, SaneOf, AppState, Loses, Held
<1>2. CASE ~h.stopped /\ ~h.sending
  <2>1. g \in AppState /\ SaneOf(g) /\ Held(g) = Held(h) /\ g.cut = h.cut
        /\ g.memory = h.memory /\ g.request = NoRequest
    BY <1>2 DEF Good, LockOf, SaneOf, AppState, Held
  <2>2. /\ f \in AppState /\ SaneOf(f) /\ Loses(g, f)
        /\ f.memory = h.memory /\ f.request = NoRequest /\ f.sending
        /\ ~f.sendTimer /\ ~f.pendingSend /\ ~f.stopped /\ f.failStreak = h.failStreak
    <3>1. /\ g.sending /\ ~g.sendTimer /\ ~g.pendingSend /\ ~g.stopped
          /\ g.failStreak = h.failStreak
      BY <1>2 DEF Good, AppState
    <3> HIDE DEF g
    <3> QED BY <2>1, <3>1, FlushFacts
  <2>3. Loses(h, f)
    BY <2>1, <2>2 DEF Loses
  <2>4. f.failStreak <= MaxRetry
    BY <1>2, <2>2, MpAssumption DEF Good, LockOf, AppState
  <2>5. CASE f.queue \cup f.memory = {}
    <3>1. SendRequest(h, io) = FinishDone(f)
      BY <1>2, <2>5 DEF SendRequest
    <3> HIDE DEF f
    <3>2. LET d == FinishDone(f)
          IN  /\ Good(d) /\ Held(d) = Held(f) /\ d.cut = f.cut /\ d.memory = f.memory
              /\ d.request = NoRequest
      BY <2>2, <2>4, FinishDoneFacts, MpAssumption DEF AppState, SaneOf
    <3> QED BY <2>2, <2>3, <3>1, <3>2 DEF Loses, NoRequest
  <2>6. CASE f.queue \cup f.memory # {} /\ io.throw
    <3>1. SendRequest(h, io) = FinishFailed(f)
      BY <1>2, <2>6 DEF SendRequest
    <3> HIDE DEF f
    <3>2. LET d == FinishFailed(f)
          IN  /\ Good(d) /\ Held(d) = Held(f) /\ d.cut = f.cut /\ d.memory = f.memory
              /\ d.request = NoRequest
      BY <2>2, <2>4, FinishFailedFacts, MpAssumption DEF AppState
    <3> QED BY <2>2, <2>3, <3>1, <3>2 DEF Loses, NoRequest
  <2>7. CASE f.queue \cup f.memory # {} /\ ~io.throw
    <3>1. SendRequest(h, io) = [f EXCEPT !.request = [list |-> f.queue, memory |-> f.memory]]
      BY <1>2, <2>7 DEF SendRequest
    <3> HIDE DEF f
    <3> QED
      BY <2>2, <2>3, <2>4, <2>7, <3>1, MpAssumption
         DEF Good, LockOf, SaneOf, AppState, Loses, Held, NoRequest
  <2> QED BY <2>5, <2>6, <2>7
<1> QED BY <1>1, <1>2

\* A record comes into the buffer: it, or others, may be cut at once.
LEMMA WriteFacts ==
  ASSUME NEW h, Good(h), NEW r \in Record, r \notin Held(h)
  PROVE  LET k == WriteMemory(h, r)
         IN  /\ Good(k) /\ Held(k) \subseteq Held(h) \cup {r}
             /\ k.cut = h.cut \cup ((Held(h) \cup {r}) \ Held(k))
             /\ k.memory = h.memory /\ k.request = h.request /\ k.stopped = h.stopped
<1> DEFINE all  == h.buffer \cup {r}
           kept == TrimOldest(all, MaxPersist)
           k    == WriteMemory(h, r)
<1>1. kept \subseteq all
  BY TrimDrops
<1>2. k = [h EXCEPT !.buffer = kept, !.flushTimer = TRUE, !.cut = @ \cup (all \ kept)]
  BY DEF WriteMemory
<1> HIDE DEF kept, k
<1>3. h \in AppState /\ all \subseteq Record
  BY DEF Good, AppState
<1>4. k \in AppState
  BY <1>1, <1>2, <1>3 DEF AppState
<1>5. /\ k.buffer = kept /\ k.queue = h.queue /\ k.cut = h.cut \cup (all \ kept)
      /\ k.memory = h.memory /\ k.request = h.request /\ k.stopped = h.stopped
      /\ k.sending = h.sending /\ k.sendTimer = h.sendTimer
      /\ k.pendingSend = h.pendingSend /\ k.failStreak = h.failStreak
  BY <1>2, <1>3 DEF AppState
<1>6. LockOf(k) /\ SaneOf(k)
  BY <1>1, <1>5 DEF Good, LockOf, SaneOf, Held
<1>7. /\ Held(k) \subseteq Held(h) \cup {r}
      /\ k.cut = h.cut \cup ((Held(h) \cup {r}) \ Held(k))
  BY <1>1, <1>5 DEF Good, SaneOf, Held
<1> QED BY <1>4, <1>5, <1>6, <1>7 DEF Good, k

\* A record comes into the list of what is not stored: the queue is as it was.
LEMMA PushFacts ==
  ASSUME NEW h, Good(h), NEW r \in Record
  PROVE  LET k == PushMemory(h, r)
         IN  /\ Good(k) /\ Held(k) = Held(h)
             /\ k.memory \subseteq h.memory \cup {r}
             /\ h.cut \subseteq k.cut /\ k.cut \subseteq h.cut \cup h.memory \cup {r}
             /\ k.request = h.request /\ k.stopped = h.stopped
<1> DEFINE all  == h.memory \cup {r}
           kept == Newest(all, MaxCache)
           k    == PushMemory(h, r)
<1>1. kept \subseteq all
  BY NewestDrops
<1>2. k = [h EXCEPT !.memory = kept, !.cut = @ \cup (all \ kept)]
  BY DEF PushMemory
<1> HIDE DEF kept, k
<1>3. h \in AppState /\ all \subseteq Record
  BY DEF Good, AppState
<1>4. k \in AppState
  BY <1>1, <1>2, <1>3 DEF AppState
<1>5. /\ k.buffer = h.buffer /\ k.queue = h.queue /\ k.cut = h.cut \cup (all \ kept)
      /\ k.memory = kept /\ k.request = h.request /\ k.stopped = h.stopped
      /\ k.sending = h.sending /\ k.sendTimer = h.sendTimer
      /\ k.pendingSend = h.pendingSend /\ k.failStreak = h.failStreak
  BY <1>2, <1>3 DEF AppState
<1>6. LockOf(k) /\ SaneOf(k) /\ Held(k) = Held(h)
  BY <1>5 DEF Good, LockOf, SaneOf, Held
<1> QED BY <1>1, <1>4, <1>5, <1>6 DEF Good, k

\* A timer that is set, or a follow-up that is asked for, while sending goes on.
LEMMA AskFacts ==
  ASSUME NEW h, Good(h), ~h.stopped
  PROVE  LET k == [h EXCEPT !.pendingSend = @ \/ h.sending]
         IN  Good(k) /\ Keeps(h, k)
<1> DEFINE k == [h EXCEPT !.pendingSend = @ \/ h.sending]
<1>1. k \in AppState
  BY DEF Good, AppState
<1>2. /\ Keeps(h, k) /\ k.sending = h.sending /\ k.sendTimer = h.sendTimer
      /\ k.failStreak = h.failStreak /\ k.stopped = h.stopped
  BY DEF Good, AppState, Keeps
<1> HIDE DEF k
<1> QED BY <1>1, <1>2, KeepsFacts DEF Good, LockOf, Keeps, k

LEMMA ScheduleFacts ==
  ASSUME NEW h, Good(h)
  PROVE  Good(ScheduleSend(h)) /\ Keeps(h, ScheduleSend(h))
<1>1. CASE h.stopped
  BY <1>1 DEF ScheduleSend, Keeps
<1>2. CASE ~h.stopped
  <2> DEFINE k == ScheduleSend(h)
  <2>1. k = [h EXCEPT !.sendTimer = TRUE]
    BY <1>2 DEF ScheduleSend
  <2> HIDE DEF k
  <2>2. k \in AppState
    BY <2>1 DEF Good, AppState
  <2>3. /\ Keeps(h, k) /\ k.sending = h.sending /\ k.pendingSend = h.pendingSend
        /\ k.failStreak = h.failStreak /\ k.stopped = h.stopped
    BY <2>1 DEF Good, AppState, Keeps
  <2> QED BY <1>2, <2>2, <2>3, KeepsFacts DEF Good, LockOf, Keeps, k
<1> QED BY <1>1, <1>2

LEMMA StopFacts ==
  ASSUME NEW h, Good(h)
  PROVE  Good(StopSending(h)) /\ Keeps(h, StopSending(h))
<1> DEFINE k == StopSending(h)
<1>1. k \in AppState
  BY DEF Good, AppState, StopSending
<1>2. /\ Keeps(h, k) /\ k.sending = h.sending /\ ~k.sendTimer /\ ~k.pendingSend
      /\ k.stopped
  BY DEF Good, AppState, StopSending, Keeps
<1> HIDE DEF k
<1> QED BY <1>1, <1>2, KeepsFacts DEF Good, LockOf, Keeps, k

-----------------------------------------------------------------------------
(***************************************************************************)
(* The inductive invariant.  Delivery speaks of the stored queue alone: so *)
(* what is held, or sent from it, was reported with store, and what the    *)
(* memory list holds, or is sent from it, was not; a confirmed request and *)
(* a full memory list then say nothing of a record of the other kind.  The *)
(* number of the next record is above every other, so no record that was   *)
(* dropped or confirmed is ever accepted again.                            *)
(***************************************************************************)
Apart(h, kept, n) ==
  /\ Held(h) \cup h.request.list \subseteq kept
  /\ (h.memory \cup h.request.memory) \cap kept = {}
  /\ h.cut \cup h.memory \cup h.request.memory \subseteq 1 .. n

Counters ==
  /\ last \in 0 .. NumRecords /\ starts \in Nat
  /\ \A S \in {stored, mine, acked, gone} : S \subseteq 1 .. last

MpInv == Good(app) /\ Apart(app, stored, last) /\ Counters

LEMMA LimitsOfLast == ASSUME Counters PROVE 1 .. last \subseteq Record
BY QueueAssumption DEF Counters, Record

\* A step that only loses of the queue keeps the two kinds apart.
LEMMA ApartFacts ==
  ASSUME NEW h, NEW f, NEW kept, NEW n \in Nat, kept \subseteq 1 .. n,
         Apart(h, kept, n), Loses(h, f), f.memory = h.memory,
         f.request.memory \subseteq h.memory \cup h.request.memory,
         f.request.list \subseteq Held(h) \cup h.request.list
  PROVE  Apart(f, kept, n)
BY DEF Apart, Loses

\* What Delivery is told of such a step.
LEMMA LoseStep ==
  ASSUME MpInv, Loses(app, app'), UNCHANGED <<stored, acked, gone>>
  PROVE  D!Lose
BY DEF MpInv, Apart, Loses, Held, D!Lose

LEMMA InitInv == Init => MpInv /\ D!Init
<1> SUFFICES ASSUME Init PROVE MpInv /\ D!Init
  OBVIOUS
<1>1. app = Started({}, {}) /\ last = 0 /\ starts = 1
      /\ stored = {} /\ mine = {} /\ acked = {} /\ gone = {}
  BY DEF Init
<1>2. Started({}, {}) \in AppState
  BY NoRequestFacts, MpAssumption DEF Started, AppState, Requests
<1>3. Good(app)
  BY <1>1, <1>2, NoRequestFacts, MpAssumption DEF Started, Good, LockOf, SaneOf
<1>4. Apart(app, stored, last)
  BY <1>1, NoRequestFacts DEF Started, Apart, Held
<1>5. Counters
  BY <1>1, QueueAssumption DEF Counters
<1>6. D!Init
  BY <1>1 DEF D!Init, Started
<1> QED BY <1>3, <1>4, <1>5, <1>6 DEF MpInv

-----------------------------------------------------------------------------
(***************************************************************************)
(* One step per handler.                                                   *)
(***************************************************************************)

\* The handlers that accept and confirm nothing.
LEMMA QuietStep ==
  ASSUME MpInv, Good(app'), Loses(app, app'), app'.memory = app.memory,
         app'.request.memory \subseteq app.memory \cup app.request.memory,
         app'.request.list \subseteq Held(app) \cup app.request.list,
         UNCHANGED <<last, starts, stored, mine, acked, gone>>
  PROVE  MpInv' /\ D!Lose
<1>1. last \in Nat /\ stored \subseteq 1 .. last
  BY DEF MpInv, Counters
<1>2. Apart(app', stored, last)
  BY <1>1, ApartFacts DEF MpInv
<1>3. Counters'
  BY DEF MpInv, Counters
<1> QED BY <1>2, <1>3, LoseStep DEF MpInv

LEMMA SendTimerStep ==
  ASSUME MpInv, NEW io \in Io, SendTimer(io)
  PROVE  MpInv' /\ D!Lose
<1> DEFINE h == [app EXCEPT !.sendTimer = FALSE]
<1>1. h \in AppState
  BY DEF MpInv, Good, AppState
<1>2. /\ Keeps(app, h) /\ h.sending = app.sending /\ h.pendingSend = app.pendingSend
      /\ h.failStreak = app.failStreak /\ h.stopped = app.stopped /\ ~h.sendTimer
  BY DEF MpInv, Good, AppState, Keeps
<1>3. app' = SendRequest(h, io) /\ UNCHANGED <<last, starts, stored, mine, acked, gone>>
  BY DEF SendTimer
<1> HIDE DEF h
<1>4. Good(h) /\ Held(h) = Held(app)
  BY <1>1, <1>2, KeepsFacts DEF MpInv, Good, LockOf, Keeps
<1>5. /\ Good(app') /\ Loses(h, app') /\ app'.memory = h.memory
      /\ app'.request.memory \subseteq h.memory \cup h.request.memory
      /\ app'.request.list \subseteq Held(h) \cup h.request.list
  BY <1>3, <1>4, SendFacts
<1>6. Loses(app, app')
  BY <1>2, <1>4, <1>5 DEF Loses, Keeps
<1> QED BY <1>2, <1>3, <1>4, <1>5, <1>6, QuietStep DEF Keeps

LEMMA FlushTimerStep ==
  ASSUME MpInv, NEW io \in Io, FlushTimer(io)
  PROVE  MpInv' /\ D!Lose
<1>1. app' = FlushMemoryToStorage(app, io)
      /\ UNCHANGED <<last, starts, stored, mine, acked, gone>>
  BY DEF FlushTimer
<1>2. /\ app' \in AppState /\ SaneOf(app') /\ Loses(app, app')
      /\ app'.memory = app.memory /\ app'.request = app.request
      /\ app'.sending = app.sending /\ app'.sendTimer = app.sendTimer
      /\ app'.pendingSend = app.pendingSend /\ app'.failStreak = app.failStreak
      /\ app'.stopped = app.stopped
  BY <1>1, FlushFacts DEF MpInv, Good
<1>3. Good(app')
  BY <1>2 DEF MpInv, Good, LockOf
<1> QED BY <1>1, <1>2, <1>3, QuietStep

LEMMA FailStep ==
  ASSUME MpInv, Fail
  PROVE  MpInv' /\ D!Lose
<1>1. app' = FinishFailed(app) /\ UNCHANGED <<last, starts, stored, mine, acked, gone>>
  BY DEF Fail
<1>2. /\ Good(app') /\ Held(app') = Held(app) /\ app'.cut = app.cut
      /\ app'.memory = app.memory /\ app'.request = NoRequest
  BY <1>1, FinishFailedFacts DEF MpInv, Good, LockOf
<1>3. Loses(app, app')
  BY <1>2 DEF Loses
<1> QED BY <1>1, <1>2, <1>3, NoRequestFacts, QuietStep

LEMMA AbortStep ==
  ASSUME MpInv, Abort
  PROVE  MpInv' /\ D!Lose
<1>1. app' = StopSending(app) /\ UNCHANGED <<last, starts, stored, mine, acked, gone>>
  BY DEF Abort
<1>2. Good(app') /\ Keeps(app, app') /\ Held(app') = Held(app)
  BY <1>1, StopFacts, KeepsFacts DEF MpInv, Good
<1>3. Loses(app, app')
  BY <1>2 DEF Loses, Keeps
<1> QED BY <1>1, <1>2, <1>3, QuietStep DEF Keeps

\* The buffer dies with the instance; the stored queue is what was held of it.
LEMMA RestartStep ==
  ASSUME MpInv, Restart
  PROVE  MpInv' /\ D!Lose
<1>1. /\ app' = Started(app.queue, app.cut)
      /\ gone' = gone \cup app.buffer \cup app.memory
      /\ mine' = {} /\ starts' = starts + 1 /\ UNCHANGED <<last, stored, acked>>
  BY DEF Restart
<1>2. app \in AppState
  BY DEF MpInv, Good
<1>3. app' \in AppState
  BY <1>1, <1>2, NoRequestFacts, MpAssumption DEF Started, AppState, Requests
<1>4. /\ app'.queue = app.queue /\ app'.buffer = {} /\ app'.cut = app.cut
      /\ app'.memory = {} /\ app'.request = NoRequest /\ ~app'.sending
      /\ ~app'.sendTimer /\ ~app'.pendingSend /\ app'.failStreak = 0 /\ ~app'.stopped
  BY <1>1 DEF Started
<1>5. Good(app')
  BY <1>3, <1>4, NoRequestFacts, MpAssumption DEF Good, LockOf, SaneOf
<1>6. Apart(app', stored, last) /\ app.buffer \subseteq stored
      /\ app.memory \subseteq 1 .. last /\ stored \subseteq 1 .. last
  BY <1>4, NoRequestFacts DEF MpInv, Counters, Apart, Held
<1>7. Counters'
  BY <1>1, <1>6 DEF MpInv, Counters
<1>8. D!Lose
  BY <1>1, <1>4 DEF MpInv, Good, SaneOf, Apart, Held, D!Lose
<1> QED BY <1>1, <1>5, <1>6, <1>7, <1>8 DEF MpInv

\* The request is confirmed, and perhaps the next one leaves at once.
LEMMA SuccessStep ==
  ASSUME MpInv, NEW io \in Io, Success(io)
  PROVE  MpInv' /\ D!Confirm(app.request.list) /\ app.request.list \subseteq D!Accepted
<1> DEFINE left == IF io.write THEN app.queue \ app.request.list ELSE app.queue
           base == [app EXCEPT !.queue = left, !.memory = {}]
           done == FinishDone(base)
<1>1. /\ app' = IF app.pendingSend THEN SendRequest(done, io) ELSE done
      /\ acked' = acked \cup app.request.list \cup app.request.memory
      /\ UNCHANGED <<last, starts, stored, mine, gone>>
  BY DEF Success
<1>2. app \in AppState /\ left \subseteq app.queue /\ app.queue \ left \subseteq app.request.list
  BY DEF MpInv, Good
<1> HIDE DEF left
<1>3. base \in AppState
  BY <1>2 DEF AppState
<1>4. /\ base.queue = left /\ base.buffer = app.buffer /\ base.cut = app.cut
      /\ base.memory = {} /\ base.stopped = app.stopped /\ base.sendTimer = app.sendTimer
      /\ base.pendingSend = app.pendingSend /\ base.failStreak = app.failStreak
  BY <1>2 DEF AppState
<1> HIDE DEF base
<1>5. base.buffer \cap base.queue = {}
  BY <1>2, <1>4 DEF MpInv, Good, SaneOf
<1>6. /\ Good(done) /\ Held(done) = Held(base) /\ done.cut = base.cut
      /\ done.memory = base.memory /\ done.request = NoRequest
  BY <1>3, <1>4, <1>5, FinishDoneFacts DEF MpInv, Good, LockOf
<1> HIDE DEF done
<1>7. /\ Good(app') /\ Loses(done, app') /\ app'.memory = {}
      /\ app'.request.memory = {} /\ app'.request.list \subseteq Held(done)
  <2>1. CASE app.pendingSend
    BY <1>1, <1>4, <1>6, <2>1, NoRequestFacts, SendFacts
  <2>2. CASE ~app.pendingSend
    BY <1>1, <1>4, <1>6, <2>2, NoRequestFacts DEF Loses
  <2> QED BY <2>1, <2>2
<1>8. Held(done) \subseteq Held(app) /\ Held(app) \ Held(done) \subseteq app.request.list
  BY <1>2, <1>4, <1>6 DEF Held
<1>9. /\ Held(app) \cup app.request.list \subseteq stored /\ stored \subseteq 1 .. last
      /\ app.request.memory \subseteq 1 .. last /\ app.request.memory \cap stored = {}
      /\ app.cut \subseteq 1 .. last
  BY DEF MpInv, Apart, Counters
<1>10. Apart(app', stored, last)
  BY <1>4, <1>6, <1>7, <1>8, <1>9 DEF Apart, Loses
<1>11. Counters'
  BY <1>1, <1>9 DEF MpInv, Counters
<1>12. D!Confirm(app.request.list)
  BY <1>1, <1>4, <1>6, <1>7, <1>8, <1>9 DEF Loses, Held, D!Confirm
<1>13. app.request.list \subseteq D!Accepted
  BY <1>9 DEF MpInv, Good, SaneOf, Held, D!Accepted
<1> QED BY <1>1, <1>7, <1>10, <1>11, <1>12, <1>13 DEF MpInv

\* What a report does once its record is taken: the limits may still cut.
LEMMA AfterReport ==
  ASSUME NEW k, Good(k), ~k.stopped, NEW io \in Io, NEW immediate \in BOOLEAN
  PROVE  LET seen == [k EXCEPT !.pendingSend = @ \/ k.sending]
             f    == ScheduleSend(IF immediate THEN SendRequest(seen, io) ELSE seen)
         IN  /\ Good(f) /\ Loses(k, f) /\ f.memory = k.memory
             /\ f.request.memory \subseteq k.memory \cup k.request.memory
             /\ f.request.list \subseteq Held(k) \cup k.request.list
<1> DEFINE seen == [k EXCEPT !.pendingSend = @ \/ k.sending]
           q    == IF immediate THEN SendRequest(seen, io) ELSE seen
           f    == ScheduleSend(q)
<1>1. Good(seen) /\ Keeps(k, seen) /\ Held(seen) = Held(k)
  BY AskFacts, KeepsFacts DEF Good
<1> HIDE DEF seen
<1>2. /\ Good(q) /\ Loses(seen, q) /\ q.memory = seen.memory
      /\ q.request.memory \subseteq seen.memory \cup seen.request.memory
      /\ q.request.list \subseteq Held(seen) \cup seen.request.list
  <2>1. CASE immediate
    BY <1>1, <2>1, SendFacts
  <2>2. CASE ~immediate
    BY <1>1, <2>2 DEF Loses
  <2> QED BY <2>1, <2>2
<1> HIDE DEF q
<1>3. Good(f) /\ Keeps(q, f) /\ Held(f) = Held(q)
  BY <1>2, ScheduleFacts, KeepsFacts DEF Good
<1> HIDE DEF f
<1>4. /\ Good(f) /\ Loses(k, f) /\ f.memory = k.memory
      /\ f.request.memory \subseteq k.memory \cup k.request.memory
      /\ f.request.list \subseteq Held(k) \cup k.request.list
  BY <1>1, <1>2, <1>3 DEF Loses, Keeps
<1> QED BY <1>4 DEF f, q, seen

LEMMA ReportStep ==
  ASSUME MpInv, NEW store \in BOOLEAN, NEW immediate \in BOOLEAN, NEW io \in Io,
         Report(store, immediate, io)
  PROVE  MpInv' /\ (D!Accept(last + 1) \/ D!Lose) /\ last + 1 \in Record
<1> DEFINE r == last + 1
           k == IF store THEN WriteMemory(app, r) ELSE PushMemory(app, r)
<1>1. /\ ~app.stopped /\ last < NumRecords /\ last' = r
      /\ mine' = mine \cup {r} /\ stored' = IF store THEN stored \cup {r} ELSE stored
      /\ UNCHANGED <<starts, acked, gone>>
      /\ app' = ScheduleSend(IF immediate
                             THEN SendRequest([k EXCEPT !.pendingSend = @ \/ k.sending], io)
                             ELSE [k EXCEPT !.pendingSend = @ \/ k.sending])
  BY DEF Report
<1>2. last \in Nat /\ r \in Nat /\ r \in Record /\ r \notin 1 .. last
      /\ 1 .. last \subseteq 1 .. r /\ r \in 1 .. r /\ r \in 0 .. NumRecords
  BY <1>1, QueueAssumption DEF MpInv, Counters, Record
<1>3. /\ Held(app) \cup app.request.list \subseteq stored
      /\ (app.memory \cup app.request.memory) \cap stored = {}
      /\ app.cut \cup app.memory \cup app.request.memory \subseteq 1 .. last
      /\ stored \subseteq 1 .. last /\ mine \subseteq 1 .. last
      /\ acked \subseteq 1 .. last /\ gone \subseteq 1 .. last
  BY DEF MpInv, Apart, Counters
<1>4. Counters'
  BY <1>1, <1>2, <1>3 DEF MpInv, Counters
<1> HIDE DEF r
<1>5. r \notin Held(app)
  BY <1>2, <1>3
<1>6. CASE store
  <2>1. /\ Good(k) /\ Held(k) \subseteq Held(app) \cup {r}
        /\ k.cut = app.cut \cup ((Held(app) \cup {r}) \ Held(k))
        /\ k.memory = app.memory /\ k.request = app.request /\ k.stopped = app.stopped
    BY <1>2, <1>5, <1>6, WriteFacts DEF MpInv
  <2> HIDE DEF k
  <2>2. /\ Good(app') /\ Loses(k, app') /\ app'.memory = k.memory
        /\ app'.request.memory \subseteq k.memory \cup k.request.memory
        /\ app'.request.list \subseteq Held(k) \cup k.request.list
    BY <1>1, <2>1, AfterReport
  <2>3. Apart(k, stored', r)
    BY <1>1, <1>2, <1>3, <1>6, <2>1 DEF Apart
  <2>4. Apart(app', stored', r)
    BY <1>1, <1>2, <1>3, <1>6, <2>2, <2>3, ApartFacts
  <2>5. /\ Held(app') \subseteq Held(app) \cup {r}
        /\ app'.cut = app.cut \cup ((Held(app) \cup {r}) \ Held(app'))
    BY <2>1, <2>2 DEF Loses
  <2>6. D!Accept(r)
    BY <1>1, <1>2, <1>3, <1>5, <1>6, <2>5 DEF Held, D!Accept, D!Accepted
  <2> QED BY <1>1, <1>2, <1>4, <2>2, <2>4, <2>6 DEF MpInv, r
<1>7. CASE ~store
  <2>1. /\ Good(k) /\ Held(k) = Held(app) /\ k.memory \subseteq app.memory \cup {r}
        /\ app.cut \subseteq k.cut /\ k.cut \subseteq app.cut \cup app.memory \cup {r}
        /\ k.request = app.request /\ k.stopped = app.stopped
    BY <1>2, <1>7, PushFacts DEF MpInv
  <2> HIDE DEF k
  <2>2. /\ Good(app') /\ Loses(k, app') /\ app'.memory = k.memory
        /\ app'.request.memory \subseteq k.memory \cup k.request.memory
        /\ app'.request.list \subseteq Held(k) \cup k.request.list
    BY <1>1, <2>1, AfterReport
  <2>3. Apart(k, stored, r)
    BY <1>2, <1>3, <2>1 DEF Apart
  <2>4. Apart(app', stored, r)
    BY <1>2, <1>3, <2>2, <2>3, ApartFacts
  <2>5. /\ Held(app') \subseteq Held(app)
        /\ app'.cut \cap stored = (app.cut \cap stored) \cup (Held(app) \ Held(app'))
    BY <1>2, <1>3, <2>1, <2>2 DEF Loses
  <2>6. D!Lose
    BY <1>1, <1>7, <2>5 DEF Held, D!Lose
  <2> QED BY <1>1, <1>2, <1>4, <1>7, <2>2, <2>4, <2>6 DEF MpInv, r
<1> QED BY <1>6, <1>7

LEMMA NextStep == MpInv /\ [Next]_vars => MpInv' /\ [D!Next]_(D!vars)
<1> SUFFICES ASSUME MpInv, [Next]_vars PROVE MpInv' /\ [D!Next]_(D!vars)
  OBVIOUS
<1>1. ASSUME NEW io \in Io, NEW store \in BOOLEAN, NEW immediate \in BOOLEAN,
             Report(store, immediate, io)
      PROVE  MpInv' /\ D!Next
  BY <1>1, ReportStep DEF D!Next
<1>2. ASSUME NEW io \in Io, SendTimer(io) PROVE MpInv' /\ D!Next
  BY <1>2, SendTimerStep DEF D!Next
<1>3. ASSUME NEW io \in Io, FlushTimer(io) PROVE MpInv' /\ D!Next
  BY <1>3, FlushTimerStep DEF D!Next
<1>4. ASSUME NEW io \in Io, Success(io) PROVE MpInv' /\ D!Next
  BY <1>4, SuccessStep DEF D!Next
<1>5. CASE Fail
  BY <1>5, FailStep DEF D!Next
<1>6. CASE Abort
  BY <1>6, AbortStep DEF D!Next
<1>7. CASE Restart
  BY <1>7, RestartStep DEF D!Next
<1>8. CASE UNCHANGED vars
  BY <1>8 DEF vars, MpInv, Good, LockOf, SaneOf, AppState, Apart, Counters, Held, D!vars
<1> QED BY <1>1, <1>2, <1>3, <1>4, <1>5, <1>6, <1>7, <1>8 DEF Next

-----------------------------------------------------------------------------
\* At most one request of a mini-program is in flight, however many timers,
\* immediate reports, failures and aborts come together, and once the retries
\* are used up nothing is left that could send.
THEOREM SendingIsALock == Spec => []SendingIsLock
<1>1. MpInv => SendingIsLock
  BY DEF MpInv, Good, LockOf, Counters, TypeOK, SendingIsLock
<1> QED BY <1>1, InitInv, NextStep, PTL DEF Spec

\* The reporter of a mini-program implements Delivery: a record that was put
\* into its queue is held until it is confirmed or dropped, for all limits.
THEOREM MiniProgramDelivers == Spec => Delivers
<1>1. Spec => D!Init /\ [][D!Next]_(D!vars)
  BY InitInv, NextStep, PTL DEF Spec
<1> QED BY <1>1 DEF Delivers, D!Spec

-----------------------------------------------------------------------------
(***************************************************************************)
(* The collection of one page.                                             *)
(***************************************************************************)
Wrapper == Writer \cup {"host"}
PageRecord ==
  [type : {"track"}, events : Seq(Nat)] \cup [type : {"perf"}, resources : BOOLEAN]
    \cup [type : {"lifecycle"}, t : {"visibilitychange", "pagehide"}]

ErrorTypes ==
  /\ console \in Seq(Wrapper) /\ origin \in [Writer -> Seq(Wrapper)]
  /\ onError \in SUBSET Writer /\ onReject \in SUBSET Writer

RecordTypes ==
  /\ recording \in BOOLEAN /\ emitted \in Nat /\ events \in Seq(Nat)
  /\ timer \in {"none", "armed"} /\ hooked \in BOOLEAN
  /\ waiting \in Seq([frame : BOOLEAN, clock : BOOLEAN, done : BOOLEAN])
  /\ taken \in Seq(Nat)

PageTypes ==
  /\ core \in {"loading", "missing", "running", "aborted"}
  /\ script \in {"loading", "missing", "loaded"}
  /\ plugins \in SUBSET {"perf", "error", "record"}
  /\ perf \in [fcp : {"none", "fast", "slow"}, resources : BOOLEAN,
               observing : BOOLEAN, reported : BOOLEAN]
  /\ visible \in BOOLEAN /\ hiddenDone \in BOOLEAN
  /\ report \in Seq(PageRecord)

\* One error plugin listens at a time, and it found console.error as the
\* browser has it.
Listening ==
  /\ origin = [p \in Writer |-> <<>>]
  /\ LET now == IF core = "loading" THEN "early" ELSE "sdk"
     IN  ToSet(console) \cap Writer \subseteq {now} /\ onReject \subseteq {now}
  /\ core = "running" => ("error" \in plugins <=> "error" \in Enabled)
  /\ core = "running" /\ "error" \in Enabled =>
       "sdk" \in ToSet(console) /\ "sdk" \in onReject /\ "sdk" \in onError
  /\ caught.kind \in {"console", "rejection"} => caught.by \in {{}, {"early"}, {"sdk"}}

\* Nothing is collected before there is an SDK.
Unstarted ==
  core \in {"loading", "missing"} =>
    /\ report = <<>> /\ plugins = {} /\ ~recording /\ ~hiddenDone
    /\ perf = [fcp |-> "none", resources |-> FALSE, observing |-> FALSE, reported |-> FALSE]

HasPerf(list) == \E i \in DOMAIN list : list[i].type = "perf"
\* One performance record, and it comes before what flushes a hidden page.
PerfFirst(list) ==
  /\ \A i, j \in DOMAIN list : list[i].type = "perf" /\ list[j].type = "perf" => i = j
  /\ \A i \in DOMAIN list :
       list[i].type = "lifecycle" /\ list[i].t = "visibilitychange" =>
         \E j \in DOMAIN list : list[j].type = "perf" /\ j < i
\* The performance plugin has reported when it says so, and then only.
Sealed ==
  /\ core = "running" => "perf" \in plugins
  /\ core = "aborted" => "perf" \notin plugins
  /\ core = "running" /\ perf.reported => HasPerf(report)
  /\ ~perf.reported => ~HasPerf(report)
  /\ PerfFirst(report)
  /\ perf.fcp = "fast" => ~perf.resources /\ ~perf.observing

\* What is buffered has a plugin that will collect it, and a timer.
Recording ==
  /\ core = "running" => Recorded \o events = [i \in 1 .. emitted |-> i]
  /\ recording \/ events # <<>> => "record" \in plugins
  /\ events # <<>> => timer = "armed"
  /\ ~recording /\ core = "running" => emitted = 0
  /\ core \in {"loading", "missing"} => emitted = 0
  /\ script = "loading" => ~recording /\ emitted = 0 /\ events = <<>>

\* Who has taken a snapshot is done.
SnapshotsOnce ==
  /\ IsInjective(taken)
  /\ \A k \in DOMAIN taken : taken[k] \in DOMAIN waiting /\ waiting[taken[k]].done

PluginsInv ==
  /\ ErrorTypes /\ RecordTypes /\ PageTypes
  /\ Listening /\ Unstarted /\ Sealed /\ Recording /\ SnapshotsOnce

-----------------------------------------------------------------------------
(***************************************************************************)
(* Sequences.                                                              *)
(***************************************************************************)
LEMMA FirstOf ==
  ASSUME NEW T \in SUBSET Nat, T # {}
  PROVE  \E x \in T : \A y \in T : x <= y
<1>1. PICK x \in T : \A y \in T : ~ (<<y, x>> \in OpToRel(<, Nat))
  BY NatLessThanWellFounded, WFMin
<1>2. \A y \in T : ~(y < x)
  BY <1>1 DEF OpToRel
<1> QED BY <1>2

\* The function that FlattenSeq is defined by.
Flattens(f, m, S) ==
  f = [i \in 1 .. m |-> IF i = 1 THEN S[i] ELSE f[i - 1] \o S[i]]

LEMMA FlattenDef ==
  ASSUME NEW S
  PROVE  FlattenSeq(S) = IF Len(S) = 0 THEN S
                         ELSE (CHOOSE f : Flattens(f, Len(S), S))[Len(S)]
BY DEF FlattenSeq, Flattens

LEMMA FlattensExist ==
  ASSUME NEW S, NEW len \in Nat
  PROVE  \E f : Flattens(f, len, S)
<1> DEFINE Bad == {m \in Nat : ~ \E f : Flattens(f, m, S)}
<1> SUFFICES ASSUME Bad # {} PROVE FALSE
  OBVIOUS
<1>1. PICK m \in Bad : \A n \in Bad : m <= n
  <2>1. Bad \in SUBSET Nat
    OBVIOUS
  <2> HIDE DEF Bad
  <2> QED BY <2>1, FirstOf
<1>2. m # 0
  <2> SUFFICES ASSUME m = 0 PROVE FALSE
    OBVIOUS
  <2> DEFINE f == [i \in 1 .. 0 |-> <<>>]
  <2>1. f = [i \in 1 .. 0 |-> IF i = 1 THEN S[i] ELSE f[i - 1] \o S[i]]
    OBVIOUS
  <2>2. Flattens(f, 0, S)
    <3> HIDE DEF f
    <3> QED BY <2>1 DEF Flattens
  <2> HIDE DEF f
  <2> QED BY <2>2
<1>3. m \in Nat /\ m - 1 \in Nat /\ ~(m <= m - 1)
  BY <1>2
<1>4. m - 1 \notin Bad
  <2> HIDE DEF Bad
  <2> QED BY <1>1, <1>3
<1>5. PICK f : Flattens(f, m - 1, S)
  BY <1>3, <1>4
<1> DEFINE h == [i \in 1 .. m |-> IF i = m THEN IF i = 1 THEN S[i] ELSE f[i - 1] \o S[i]
                                  ELSE f[i]]
<1>6. \A n \in 1 .. (m - 1) : h[n] = f[n]
  BY <1>3
<1>7. \A i \in 1 .. (m - 1) :
        f[i] = IF i = 1 THEN S[i] ELSE f[i - 1] \o S[i]
  BY <1>5 DEF Flattens
<1>8. \A i \in 1 .. m : h[i] = IF i = 1 THEN S[i] ELSE h[i - 1] \o S[i]
  <2> TAKE i \in 1 .. m
  <2>1. CASE i = m
    <3>1. i # 1 => h[i - 1] = f[i - 1]
      BY <2>1, <1>3, <1>6
    <3>2. h[i] = IF i = 1 THEN S[i] ELSE f[i - 1] \o S[i]
      BY <2>1
    <3> HIDE DEF h
    <3> QED BY <3>1, <3>2
  <2>2. CASE i # m
    <3>1. i \in 1 .. (m - 1)
      BY <2>2, <1>3
    <3>2. i # 1 => h[i - 1] = f[i - 1]
      BY <3>1, <1>3, <1>6
    <3>3. h[i] = f[i]
      BY <3>1, <1>6
    <3> HIDE DEF h
    <3> QED BY <1>7, <3>1, <3>2, <3>3
  <2> QED BY <2>1, <2>2
<1>9. Flattens(h, m, S)
  <2>1. h = [i \in 1 .. m |-> h[i]]
    OBVIOUS
  <2> HIDE DEF h
  <2> QED BY <2>1, <1>8 DEF Flattens
<1> HIDE DEF h
<1> QED BY <1>9

LEMMA FlattenEquation ==
  ASSUME NEW S, NEW len \in Nat \ {0}, len = Len(S)
  PROVE  \E f : Flattens(f, len, S) /\ FlattenSeq(S) = f[len]
BY FlattensExist, FlattenDef

LEMMA FlattensAgree ==
  ASSUME NEW S, NEW T, NEW len \in Nat \ {0}, NEW more \in Nat, len <= more,
         NEW f, Flattens(f, len, S), NEW g, Flattens(g, more, T),
         \A i \in 1 .. len : S[i] = T[i]
  PROVE  f[len] = g[len]
<1> DEFINE Bad == {i \in 1 .. len : f[i] # g[i]}
<1>1. \A i \in 1 .. len : f[i] = IF i = 1 THEN S[i] ELSE f[i - 1] \o S[i]
  BY DEF Flattens
<1>2. \A i \in 1 .. len : g[i] = IF i = 1 THEN T[i] ELSE g[i - 1] \o T[i]
  <2>1. \A i \in 1 .. more : g[i] = IF i = 1 THEN T[i] ELSE g[i - 1] \o T[i]
    BY DEF Flattens
  <2> QED BY <2>1
<1>3. SUFFICES ASSUME Bad # {} PROVE FALSE
  OBVIOUS
<1>4. PICK m \in Bad : \A n \in Bad : m <= n
  <2>1. Bad \in SUBSET Nat
    OBVIOUS
  <2> HIDE DEF Bad
  <2> QED BY <1>3, <2>1, FirstOf
<1>5. m \in 1 .. len /\ f[m] # g[m]
  OBVIOUS
<1>6. m # 1
  BY <1>1, <1>2, <1>5
<1>7. m - 1 \in 1 .. len /\ ~(m <= m - 1)
  BY <1>5, <1>6
<1>8. f[m - 1] = g[m - 1]
  <2>1. m - 1 \notin Bad
    <3> HIDE DEF Bad
    <3> QED BY <1>4, <1>7
  <2> QED BY <1>7, <2>1
<1> HIDE DEF Bad
<1> QED BY <1>1, <1>2, <1>5, <1>6, <1>8

\* FlattenSeq of a sequence one longer.
LEMMA FlattenNothing == FlattenSeq(<<>>) = <<>>
  BY FlattenDef

LEMMA FlattenMore ==
  ASSUME NEW A, NEW S \in Seq(Seq(A)), NEW s \in Seq(A)
  PROVE  FlattenSeq(Append(S, s)) = FlattenSeq(S) \o s
<1> DEFINE T == Append(S, s)
           n == Len(S)
<1>1. n \in Nat /\ T \in Seq(Seq(A)) /\ Len(T) = n + 1 /\ T[n + 1] = s
      /\ \A i \in 1 .. n : S[i] = T[i]
  OBVIOUS
<1>2. n + 1 \in Nat \ {0} /\ n <= n + 1 /\ n + 1 \in 1 .. (n + 1) /\ n + 1 - 1 = n
  BY <1>1
<1> HIDE DEF T, n
<1>3. PICK g : Flattens(g, n + 1, T) /\ FlattenSeq(T) = g[n + 1]
  BY <1>1, <1>2, FlattenEquation
<1>4. g[n + 1] = IF n + 1 = 1 THEN T[n + 1] ELSE g[n] \o T[n + 1]
  <2>1. \A i \in 1 .. (n + 1) : g[i] = IF i = 1 THEN T[i] ELSE g[i - 1] \o T[i]
    BY <1>3 DEF Flattens
  <2>2. g[n + 1] = IF n + 1 = 1 THEN T[n + 1] ELSE g[n + 1 - 1] \o T[n + 1]
    BY <1>1, <1>2, <2>1
  <2> QED BY <1>2, <2>2
<1>5. CASE n = 0
  <2>1. S = <<>> /\ g[n + 1] = s
    BY <1>1, <1>4, <1>5, EmptySeq DEF n
  <2>2. FlattenSeq(S) \o s = s
    BY <2>1, FlattenNothing
  <2> QED BY <1>3, <2>1, <2>2 DEF T
<1>6. CASE n # 0
  <2>1. n \in Nat \ {0} /\ n + 1 # 1
    BY <1>1, <1>6
  <2>2. PICK f : Flattens(f, n, S) /\ FlattenSeq(S) = f[n]
    BY <2>1, FlattenEquation DEF n
  <2>3. f[n] = g[n]
    BY <2>1, <2>2, <1>1, <1>2, <1>3, FlattensAgree
  <2> QED BY <1>1, <1>3, <1>4, <2>1, <2>2, <2>3 DEF T
<1> QED BY <1>5, <1>6

LEMMA FlattenType ==
  ASSUME NEW A, NEW S \in Seq(Seq(A))
  PROVE  FlattenSeq(S) \in Seq(A)
<1> DEFINE n == Len(S)
<1>1. n \in Nat /\ \A i \in 1 .. n : S[i] \in Seq(A)
  OBVIOUS
<1>2. CASE n = 0
  BY <1>2, FlattenNothing, EmptySeq
<1>3. CASE n # 0
  <2>1. PICK f : Flattens(f, n, S) /\ FlattenSeq(S) = f[n]
    <3>1. n \in Nat \ {0}
      BY <1>1, <1>3
    <3> QED BY <3>1, FlattenEquation
  <2>2. \A i \in 1 .. n : f[i] = IF i = 1 THEN S[i] ELSE f[i - 1] \o S[i]
    BY <2>1 DEF Flattens
  <2> HIDE DEF n
  <2> DEFINE Bad == {i \in 1 .. n : f[i] \notin Seq(A)}
  <2>3. Bad = {}
    <3> SUFFICES ASSUME Bad # {} PROVE FALSE
      OBVIOUS
    <3>1. PICK m \in Bad : \A k \in Bad : m <= k
      <4>1. Bad \in SUBSET Nat
        BY <1>1
      <4> HIDE DEF Bad
      <4> QED BY <4>1, FirstOf
    <3>2. m \in 1 .. n /\ f[m] \notin Seq(A)
      OBVIOUS
    <3>3. m # 1
      BY <1>1, <2>2, <3>2
    <3>4. m - 1 \in 1 .. n /\ ~(m <= m - 1)
      BY <1>1, <3>2, <3>3
    <3>5. f[m - 1] \in Seq(A)
      <4>1. m - 1 \notin Bad
        <5> HIDE DEF Bad
        <5> QED BY <3>1, <3>4
      <4> QED BY <3>4, <4>1
    <3> HIDE DEF Bad
    <3>6. f[m] = f[m - 1] \o S[m] /\ S[m] \in Seq(A)
      BY <1>1, <2>2, <3>2, <3>3
    <3>7. f[m - 1] \o S[m] \in Seq(A)
      BY <3>5, <3>6
    <3> QED BY <3>2, <3>6, <3>7
  <2> QED BY <1>1, <1>3, <2>1, <2>3
<1> QED BY <1>2, <1>3

-----------------------------------------------------------------------------
(***************************************************************************)
(* What has been told, record by record.                                   *)
(***************************************************************************)
Batches(list) == [i \in DOMAIN list |-> BatchOf(list[i])]
Told(list)    == FlattenSeq(Batches(list))
Whole(list, rest, n) == Told(list) \o rest = [i \in 1 .. n |-> i]

LEMMA RecordedIsTold == Recorded = Told(report)
  BY DEF Recorded, Told, Batches

LEMMA BatchType == ASSUME NEW r \in PageRecord PROVE BatchOf(r) \in Seq(Nat)
<1>1. <<>> \in Seq(Nat)
  OBVIOUS
<1>2. r.type = "track" => r.events \in Seq(Nat)
  BY DEF PageRecord
<1> QED BY <1>1, <1>2 DEF BatchOf

LEMMA BatchesMore ==
  ASSUME NEW list \in Seq(PageRecord), NEW r \in PageRecord
  PROVE  /\ Batches(list) \in Seq(Seq(Nat))
         /\ Batches(Append(list, r)) = Append(Batches(list), BatchOf(r))
<1>1. \A i \in DOMAIN list : BatchOf(list[i]) \in Seq(Nat)
  BY BatchType
<1>2. Batches(list) \in Seq(Seq(Nat)) /\ Len(Batches(list)) = Len(list)
  BY <1>1 DEF Batches
<1>3. DOMAIN Batches(Append(list, r)) = 1 .. Len(list) + 1
  BY DEF Batches
<1>4. \A i \in 1 .. Len(list) : Batches(Append(list, r))[i] = Batches(list)[i]
  BY DEF Batches
<1>5. Batches(Append(list, r))[Len(list) + 1] = BatchOf(r)
  BY DEF Batches
<1>6. Append(Batches(list), BatchOf(r)) \in Seq(Seq(Nat))
  BY <1>2, BatchType
<1>7. Batches(Append(list, r)) \in Seq(Seq(Nat)) /\ Len(Batches(Append(list, r))) = Len(list) + 1
  <2>1. \A i \in DOMAIN Append(list, r) : BatchOf(Append(list, r)[i]) \in Seq(Nat)
    BY BatchType
  <2> QED BY <2>1 DEF Batches
<1>8. \A i \in 1 .. Len(list) + 1 :
        Batches(Append(list, r))[i] = Append(Batches(list), BatchOf(r))[i]
  BY <1>2, <1>4, <1>5
<1> DEFINE a == Batches(Append(list, r))
           b == Append(Batches(list), BatchOf(r))
<1>9. /\ a \in Seq(Seq(Nat)) /\ b \in Seq(Seq(Nat)) /\ Len(a) = Len(b)
      /\ \A i \in 1 .. Len(a) : a[i] = b[i]
  <2>1. Len(b) = Len(list) + 1
    BY <1>2
  <2> QED BY <1>6, <1>7, <1>8, <2>1
<1>10. a = b
  <2> HIDE DEF a, b
  <2> QED BY <1>9, SeqEqual
<1> QED BY <1>2, <1>10
LEMMA ToldType == ASSUME NEW list \in Seq(PageRecord) PROVE Told(list) \in Seq(Nat)
<1>1. \A i \in DOMAIN list : BatchOf(list[i]) \in Seq(Nat)
  BY BatchType
<1>2. Batches(list) \in Seq(Seq(Nat))
  BY <1>1 DEF Batches
<1> QED BY <1>2, FlattenType DEF Told

LEMMA ToldMore ==
  ASSUME NEW list \in Seq(PageRecord), NEW r \in PageRecord
  PROVE  Told(list \o <<r>>) = Told(list) \o BatchOf(r)
<1>1. list \o <<r>> = Append(list, r)
  OBVIOUS
<1>2. FlattenSeq(Append(Batches(list), BatchOf(r))) = FlattenSeq(Batches(list)) \o BatchOf(r)
  BY BatchesMore, BatchType, FlattenMore
<1> QED BY <1>1, <1>2, BatchesMore DEF Told

\* At most one record, and none of a batch.
Silent == {<<>>} \cup {<<r>> : r \in {q \in PageRecord : q.type # "track"}}

LEMMA SilentType == Silent \subseteq Seq(PageRecord)
<1> SUFFICES ASSUME NEW s \in Silent PROVE s \in Seq(PageRecord)
  OBVIOUS
<1>1. CASE s = <<>>
  BY <1>1
<1>2. CASE s # <<>>
  <2>1. PICK r \in PageRecord : s = <<r>>
    BY <1>2 DEF Silent
  <2> QED BY <2>1
<1> QED BY <1>1, <1>2

LEMMA ToldSilent ==
  ASSUME NEW list \in Seq(PageRecord), NEW s \in Silent
  PROVE  list \o s \in Seq(PageRecord) /\ Told(list \o s) = Told(list)
<1>1. CASE s = <<>>
  BY <1>1
<1>2. CASE s # <<>>
  <2>1. PICK r \in PageRecord : r.type # "track" /\ s = <<r>>
    BY <1>2 DEF Silent
  <2>2. BatchOf(r) = <<>>
    BY <2>1 DEF BatchOf
  <2>3. Told(list) \o <<>> = Told(list)
    BY ToldType
  <2>4. list \o <<r>> \in Seq(PageRecord)
    OBVIOUS
  <2> QED BY <2>1, <2>2, <2>3, <2>4, ToldMore
<1> QED BY <1>1, <1>2

LEMMA ToldTrack ==
  ASSUME NEW list \in Seq(PageRecord), NEW batch \in Seq(Nat)
  PROVE  /\ TrackRecord(batch) \in Seq(PageRecord)
         /\ list \o TrackRecord(batch) \in Seq(PageRecord)
         /\ Told(list \o TrackRecord(batch)) = Told(list) \o batch
<1>1. CASE batch = <<>>
  <2>1. /\ TrackRecord(batch) = <<>> /\ <<>> \in Seq(PageRecord)
        /\ Told(list) \o <<>> = Told(list) /\ list \o <<>> = list
    BY <1>1, ToldType DEF TrackRecord
  <2> QED BY <1>1, <2>1
<1>2. CASE batch # <<>>
  <2> DEFINE r == [type |-> "track", events |-> batch]
  <2>1. r \in PageRecord /\ BatchOf(r) = batch /\ TrackRecord(batch) = <<r>>
    BY <1>2 DEF PageRecord, BatchOf, TrackRecord
  <2> HIDE DEF r
  <2>2. <<r>> \in Seq(PageRecord) /\ list \o <<r>> \in Seq(PageRecord)
    BY <2>1
  <2> QED BY <2>1, <2>2, ToldMore
<1> QED BY <1>1, <1>2

LEMMA WholeCollected ==
  ASSUME NEW list \in Seq(PageRecord), NEW rest \in Seq(Nat), NEW n \in Nat, Whole(list, rest, n)
  PROVE  Whole(list \o TrackRecord(rest), <<>>, n)
<1>1. (Told(list) \o rest) \o <<>> = Told(list) \o rest
  BY ToldType
<1> QED BY <1>1, ToldTrack DEF Whole

LEMMA WholeEmitted ==
  ASSUME NEW list \in Seq(PageRecord), NEW rest \in Seq(Nat), NEW n \in Nat, Whole(list, rest, n)
  PROVE  Whole(list, Append(rest, n + 1), n + 1)
<1> DEFINE T == Told(list)
           U(k) == [i \in 1 .. k |-> i]
<1>1. T \in Seq(Nat)
  BY ToldType
<1>2. T \o rest = U(n)
  BY DEF Whole
<1> HIDE DEF T
<1>3. T \o Append(rest, n + 1) = Append(T \o rest, n + 1)
  BY <1>1
<1>4. Append(U(n), n + 1) = U(n + 1)
  <2>1. U(n) \in Seq(Nat) /\ U(n + 1) \in Seq(Nat) /\ Len(U(n)) = n /\ Len(U(n + 1)) = n + 1
    OBVIOUS
  <2>2. Append(U(n), n + 1) \in Seq(Nat) /\ Len(Append(U(n), n + 1)) = n + 1
    BY <2>1
  <2>3. \A i \in 1 .. n + 1 : Append(U(n), n + 1)[i] = U(n + 1)[i]
    BY <2>1
  <2> DEFINE a == Append(U(n), n + 1)
             b == U(n + 1)
  <2>4. /\ a \in Seq(Nat) /\ b \in Seq(Nat) /\ Len(a) = Len(b)
        /\ \A i \in 1 .. Len(a) : a[i] = b[i]
    BY <2>1, <2>2, <2>3
  <2>5. a = b
    <3> HIDE DEF a, b
    <3> QED BY <2>4, SeqEqual
  <2> QED BY <2>5
<1> QED BY <1>2, <1>3, <1>4 DEF Whole, T

LEMMA WholeSilent ==
  ASSUME NEW list \in Seq(PageRecord), NEW s \in Silent, NEW rest, NEW n, Whole(list, rest, n)
  PROVE  Whole(list \o s, rest, n)
BY ToldSilent DEF Whole

-----------------------------------------------------------------------------
(***************************************************************************)
(* Errors.                                                                 *)
(***************************************************************************)
LEMMA OneListenerMore ==
  ASSUME NEW S, NEW s \in Seq(S), NEW x
  PROVE  ToSet(Append(s, x)) = ToSet(s) \cup {x}
<1>1. DOMAIN Append(s, x) = 1 .. Len(s) + 1 /\ DOMAIN s = 1 .. Len(s) /\ Len(s) \in Nat
  OBVIOUS
<1>2. Append(s, x)[Len(s) + 1] = x /\ \A i \in 1 .. Len(s) : Append(s, x)[i] = s[i]
  OBVIOUS
<1>3. \A i \in 1 .. Len(s) + 1 : i \in 1 .. Len(s) \/ i = Len(s) + 1
  BY <1>1
<1>4. Len(s) + 1 \in 1 .. Len(s) + 1 /\ 1 .. Len(s) \subseteq 1 .. Len(s) + 1
  BY <1>1
<1>5. \A y \in ToSet(Append(s, x)) : y \in ToSet(s) \cup {x}
  BY <1>1, <1>2, <1>3 DEF ToSet
<1>6. \A y \in ToSet(s) \cup {x} : y \in ToSet(Append(s, x))
  BY <1>1, <1>2, <1>4 DEF ToSet
<1> QED BY <1>5, <1>6

ErrorsInv == ErrorTypes /\ Listening

LEMMA ErrorsInit == PluginsInit => ErrorsInv
<1> SUFFICES ASSUME PluginsInit PROVE ErrorsInv
  OBVIOUS
<1>1. ErrorTypes
  <2>1. <<"early">> \in Seq(Wrapper) /\ <<>> \in Seq(Wrapper)
    BY DEF Wrapper, Writer
  <2>2. [p \in Writer |-> <<>>] \in [Writer -> Seq(Wrapper)]
    BY <2>1
  <2> QED BY <2>1, <2>2 DEF PluginsInit, ErrorTypes, Writer
<1>2. Listening
  <2>1. ToSet(<<"early">>) = {"early"}
    <3>1. DOMAIN <<"early">> = {1} /\ <<"early">>[1] = "early"
      OBVIOUS
    <3> QED BY <3>1 DEF ToSet
  <2> QED BY <2>1 DEF PluginsInit, Listening
<1> QED BY <1>1, <1>2 DEF ErrorsInv

LEMMA ErrorsStep == ErrorsInv /\ Unstarted /\ [PluginsNext]_pluginsVars => ErrorsInv'
<1> SUFFICES ASSUME ErrorsInv, Unstarted, [PluginsNext]_pluginsVars PROVE ErrorsInv'
  OBVIOUS
<1> USE DEF ErrorsInv
<1>0. /\ <<>> \in Seq(Wrapper) /\ ToSet(<<>>) = {} /\ Writer = {"early", "sdk"}
      /\ origin["early"] = <<>> /\ origin["sdk"] = <<>>
  <2>1. DOMAIN <<>> = {}
    OBVIOUS
  <2>2. ToSet(<<>>) = {}
    BY <2>1 DEF ToSet
  <2> QED BY <2>2 DEF Listening, Writer
<1>1. ASSUME NEW p \in Writer, Unlisten(p)
      PROVE  /\ ErrorTypes' /\ console' = <<>> /\ origin' = origin
             /\ onReject' = onReject \ {p}
  BY <1>0, <1>1 DEF Unlisten, ErrorTypes
<1>2. CASE CoreLoads
  <2>1. CASE "error" \in Enabled
    <3>1. /\ console' = Append(<<>>, "sdk") /\ origin' = [origin EXCEPT !.sdk = <<>>]
          /\ onError' = onError \cup {"sdk"} /\ onReject' = (onReject \ {"early"}) \cup {"sdk"}
      BY <1>0, <1>2, <2>1 DEF CoreLoads, Handover
    <3>2. origin' = origin /\ origin \in [Writer -> Seq(Wrapper)]
      BY <3>1, <1>0 DEF Listening, ErrorTypes
    <3>3. console' \in Seq(Wrapper) /\ ToSet(console') = {"sdk"}
      <4>1. "sdk" \in Wrapper
        BY DEF Wrapper, Writer
      <4>2. Append(<<>>, "sdk") \in Seq(Wrapper)
        BY <1>0, <4>1
      <4>3. ToSet(Append(<<>>, "sdk")) = ToSet(<<>>) \cup {"sdk"}
        BY <1>0, OneListenerMore
      <4> QED BY <1>0, <3>1, <4>2, <4>3
    <3>4. onReject' = {"sdk"} /\ "sdk" \in onError'
      BY <1>2, <3>1 DEF CoreLoads, Listening
    <3>5. core' = "running" /\ plugins' = {"perf", "error"} /\ caught' = caught
      BY <1>2, <2>1 DEF CoreLoads
    <3>6. ErrorTypes'
      BY <1>0, <3>1, <3>2, <3>3, <3>4 DEF ErrorTypes
    <3>7. Listening'
      BY <2>1, <3>2, <3>3, <3>4, <3>5 DEF Listening
    <3> QED BY <3>6, <3>7
  <2>2. CASE "error" \notin Enabled
    <3>1. ErrorTypes' /\ console' = <<>> /\ origin' = origin /\ onReject' = onReject \ {"early"}
      BY <1>0, <1>1, <1>2, <2>2 DEF CoreLoads, Handover
    <3>2. core' = "running" /\ "error" \notin plugins' /\ caught' = caught
      BY <1>2, <2>2 DEF CoreLoads
    <3> QED BY <1>0, <1>2, <2>2, <3>1, <3>2 DEF Listening, CoreLoads
  <2> QED BY <2>1, <2>2
<1>3. CASE CoreFails
  <2>1. ErrorTypes' /\ console' = <<>> /\ origin' = origin /\ onReject' = onReject \ {"early"}
    BY <1>0, <1>1, <1>3 DEF CoreFails
  <2> QED BY <1>0, <1>3, <2>1 DEF Listening, CoreFails
<1>4. CASE RecorderLoads
  <2>1. UNCHANGED <<core, errorVars, caught>> /\ ("error" \in plugins' <=> "error" \in plugins)
    BY <1>4 DEF RecorderLoads
  <2> QED BY <2>1 DEF Listening, ErrorTypes, errorVars
<1>5. CASE AbortPage
  <2>1. core' = "aborted" /\ caught' = caught /\ core = "running"
    BY <1>5 DEF AbortPage
  <2>2. CASE "error" \in plugins
    <3>1. ErrorTypes' /\ console' = <<>> /\ origin' = origin /\ onReject' = onReject \ {"sdk"}
      BY <1>0, <1>1, <1>5, <2>2 DEF AbortPage, Destroy
    <3> QED BY <1>0, <2>1, <3>1 DEF Listening
  <2>3. CASE "error" \notin plugins
    <3>1. UNCHANGED errorVars
      BY <1>5, <2>3 DEF AbortPage, Destroy
    <3> QED BY <2>1, <3>1 DEF Listening, ErrorTypes, errorVars
  <2> QED BY <2>2, <2>3
<1>6. ASSUME NEW kind \in Kind, Throw(kind)
      PROVE  ErrorsInv'
  <2>1. UNCHANGED <<core, plugins, errorVars>> /\ caught' = [kind |-> kind, by |-> Reporters(kind)]
    BY <1>6 DEF Throw
  <2>2. kind \in {"console", "rejection"} => Reporters(kind) \in {{}, {"early"}, {"sdk"}}
    <3>1. kind = "console" => Reporters(kind) \subseteq ToSet(console) \cap Writer
      BY DEF Reporters
    <3>2. kind = "rejection" => Reporters(kind) \subseteq onReject
      BY DEF Reporters
    <3>3. kind \in {"console", "rejection"} =>
            Reporters(kind) \subseteq {"early"} \/ Reporters(kind) \subseteq {"sdk"}
      BY <3>1, <3>2 DEF Listening
    <3> QED BY <3>3
  <2>3. caught'.kind = kind /\ caught'.by = Reporters(kind)
    BY <2>1
  <2> QED BY <2>1, <2>2, <2>3 DEF Listening, ErrorTypes, errorVars
<1>7. CASE HostWraps
  <2>1. console' = Append(console, "host") /\ UNCHANGED <<core, plugins, origin, onError, onReject, caught>>
    BY <1>7 DEF HostWraps
  <2>2. console' \in Seq(Wrapper) /\ ToSet(console') = ToSet(console) \cup {"host"}
    BY <2>1, OneListenerMore DEF ErrorTypes, Wrapper
  <2>3. ToSet(console') \cap Writer = ToSet(console) \cap Writer
    BY <1>0, <2>2
  <2>4. "sdk" \in ToSet(console) => "sdk" \in ToSet(console')
    BY <2>2
  <2> QED BY <2>1, <2>2, <2>3, <2>4 DEF Listening, ErrorTypes
<1>8. ASSUME UNCHANGED <<core, plugins, errorVars, caught>>
      PROVE  ErrorsInv'
  BY <1>8 DEF Listening, ErrorTypes, errorVars
<1>9. ASSUME \/ RecorderFails \/ Emit \/ Checkout \/ TimerFires \/ Navigate \/ Resource
             \/ Hide \/ Show \/ PageHide
             \/ \E i \in DOMAIN waiting, by \in {"frame", "clock"} : Snapshot(i, by)
             \/ \E slow \in BOOLEAN : Paint(slow)
             \/ UNCHANGED pluginsVars
      PROVE  ErrorsInv'
  <2>1. UNCHANGED <<core, plugins, errorVars, caught>>
    BY <1>9 DEF RecorderFails, Emit, Checkout, TimerFires, Navigate, Resource, Hide, Show,
         PageHide, Snapshot, Paint, pluginsVars
  <2> QED BY <1>8, <2>1
<1> QED BY <1>2, <1>3, <1>4, <1>5, <1>6, <1>7, <1>9 DEF PluginsNext

LEMMA ErrorsHold == ErrorsInv => ErrorsHaveOneReporter
<1> SUFFICES ASSUME ErrorsInv PROVE ErrorsHaveOneReporter
  OBVIOUS
<1>1. caught.kind \in {"console", "rejection"} => Cardinality(caught.by) <= 1
  <2>1. Cardinality({}) = 0 /\ Cardinality({"early"}) = 1 /\ Cardinality({"sdk"}) = 1
    BY FS_EmptySet, FS_Singleton
  <2>2. caught.kind \in {"console", "rejection"} => Cardinality(caught.by) \in {0, 1}
    BY <2>1 DEF ErrorsInv, Listening
  <2>3. \A n \in {0, 1} : n <= 1
    OBVIOUS
  <2> QED BY <2>2, <2>3
<1>2. core = "running" /\ "error" \in Enabled =>
        \A kind \in Kind : "sdk" \in Reporters(kind)
  BY DEF ErrorsInv, Listening, Reporters, Kind, Writer
<1> QED BY <1>1, <1>2 DEF ErrorsHaveOneReporter

-----------------------------------------------------------------------------
(***************************************************************************)
(* What a step adds to the report.                                         *)
(***************************************************************************)
LEMMA CollectAdds ==
  ASSUME NEW list, Collect(list)
  PROVE  /\ events' = <<>>
         /\ report' = IF core = "running" THEN report \o TrackRecord(list) ELSE report
BY DEF Collect, Reported

LEMMA CollectTyped ==
  ASSUME NEW list \in Seq(Nat), Collect(list), report \in Seq(PageRecord)
  PROVE  events' = <<>> /\ report' \in Seq(PageRecord)
BY CollectAdds, ToldTrack

LEMMA PerfRecordIsSilent == PerfRecord \in Silent
<1> DEFINE r == [type |-> "perf", resources |-> perf.fcp = "slow"]
<1>1. r \in PageRecord /\ r.type # "track"
  <2>1. (perf.fcp = "slow") \in BOOLEAN
    OBVIOUS
  <2> QED BY <2>1 DEF PageRecord
<1>2. PerfRecord = IF PerfSeals THEN <<r>> ELSE <<>>
  BY DEF PerfRecord
<1> HIDE DEF r
<1> QED BY <1>1, <1>2 DEF Silent

LEMMA LifecycleIsSilent ==
  ASSUME NEW t \in {"visibilitychange", "pagehide"}
  PROVE  Lifecycle(t) \in Silent
<1> DEFINE r == [type |-> "lifecycle", t |-> t]
<1>1. r \in PageRecord /\ r.type # "track"
  BY DEF PageRecord
<1>2. Lifecycle(t) = IF hiddenDone THEN <<>> ELSE <<r>>
  BY DEF Lifecycle
<1> HIDE DEF r
<1> QED BY <1>1, <1>2 DEF Silent

\* The three parts of what hiding the page reports, put one after the other.
HideBatch == IF hiddenDone THEN <<>> ELSE Leftover

LEMMA HideBatchType == events \in Seq(Nat) => HideBatch \in Seq(Nat) /\ Leftover \in Seq(Nat)
  BY DEF HideBatch, Leftover

LEMMA HideAdds ==
  ASSUME report \in Seq(PageRecord), events \in Seq(Nat)
  PROVE  /\ HideRecords \in Seq(PageRecord)
         /\ report \o HideRecords =
              ((report \o PerfRecord) \o TrackRecord(HideBatch)) \o Lifecycle("visibilitychange")
<1> DEFINE P == PerfRecord
           K == TrackRecord(HideBatch)
           L == Lifecycle("visibilitychange")
<1>1. P \in Seq(PageRecord) /\ L \in Seq(PageRecord) /\ K \in Seq(PageRecord)
  BY PerfRecordIsSilent, LifecycleIsSilent, SilentType, HideBatchType, ToldTrack
<1>2. HideRecords = (P \o K) \o L
  BY DEF HideRecords, HideBatch, TrackRecord
<1> HIDE DEF P, K, L
<1>3. P \o K \in Seq(PageRecord) /\ (P \o K) \o L \in Seq(PageRecord)
  BY <1>1
<1>4. report \o ((P \o K) \o L) = ((report \o P) \o K) \o L
  <2>1. report \in Seq(PageRecord)
    OBVIOUS
  <2> QED BY <1>1, <2>1
<1> QED BY <1>2, <1>3, <1>4 DEF P, K, L

LEMMA PageHideAdds ==
  ASSUME report \in Seq(PageRecord), events \in Seq(Nat)
  PROVE  /\ TrackRecord(Leftover) \o Lifecycle("pagehide") \in Seq(PageRecord)
         /\ report \o (TrackRecord(Leftover) \o Lifecycle("pagehide")) =
              (report \o TrackRecord(Leftover)) \o Lifecycle("pagehide")
<1> DEFINE K == TrackRecord(Leftover)
           L == Lifecycle("pagehide")
<1>1. L \in Seq(PageRecord) /\ K \in Seq(PageRecord)
  BY LifecycleIsSilent, SilentType, HideBatchType, ToldTrack
<1> HIDE DEF K, L
<1>2. K \o L \in Seq(PageRecord)
  BY <1>1
<1>3. report \o (K \o L) = (report \o K) \o L
  <2>1. report \in Seq(PageRecord)
    OBVIOUS
  <2> QED BY <1>1, <2>1
<1> QED BY <1>2, <1>3 DEF K, L

-----------------------------------------------------------------------------
(***************************************************************************)
(* Types.                                                                  *)
(***************************************************************************)
Typed == RecordTypes /\ PageTypes

Waiter == [frame : BOOLEAN, clock : BOOLEAN, done : BOOLEAN]

LEMMA DeferredTyped ==
  ASSUME NEW wanting, Deferred(wanting), waiting \in Seq(Waiter)
  PROVE  waiting' \in Seq(Waiter)
<1>1. [frame |-> TRUE, clock |-> TRUE, done |-> FALSE] \in Waiter
  BY DEF Waiter
<1> QED BY <1>1 DEF Deferred

LEMMA SeenTyped ==
  ASSUME RecordTypes, NEW left \in Seq(Nat), Seen(left)
  PROVE  events' \in Seq(Nat) /\ timer' \in {"none", "armed"} /\ emitted' \in Nat
<1>1. emitted + 1 \in Nat /\ Append(left, emitted + 1) \in Seq(Nat)
  BY DEF RecordTypes
<1> QED BY <1>1 DEF Seen, Buffered, RecordTypes

LEMMA EmitFullTyped ==
  ASSUME Typed, EmitFull
  PROVE  /\ emitted' \in Nat /\ hooked' \in BOOLEAN /\ timer' \in {"none", "armed"}
         /\ events' \in Seq(Nat) /\ report' \in Seq(PageRecord)
<1>1. emitted + 1 \in Nat /\ Append(events, emitted + 1) \in Seq(Nat) /\ <<>> \in Seq(Nat)
  BY DEF Typed, RecordTypes
<1>2. events' = <<>> /\ report' \in Seq(PageRecord)
  BY <1>1, CollectTyped DEF EmitFull, Typed, PageTypes
<1> QED BY <1>1, <1>2 DEF EmitFull

\* One waiting snapshot after the frame or the timer has come for it.
Came(w, by) == [w EXCEPT ![by] = FALSE, !.done = TRUE]

LEMMA CameTyped ==
  ASSUME NEW w \in Waiter, NEW by \in {"frame", "clock"}
  PROVE  Came(w, by) \in Waiter /\ Came(w, by).done
<1>1. CASE by = "frame"
  BY <1>1 DEF Came, Waiter
<1>2. CASE by = "clock"
  BY <1>2 DEF Came, Waiter
<1> QED BY <1>1, <1>2

LEMMA SnapshotShape ==
  ASSUME RecordTypes, NEW i \in DOMAIN waiting, NEW by \in {"frame", "clock"}, Snapshot(i, by)
  PROVE  /\ waiting' \in Seq(Waiter) /\ Len(waiting') = Len(waiting)
         /\ \A k \in DOMAIN waiting : k # i => waiting'[k] = waiting[k]
         /\ waiting'[i].done
         /\ \/ ~waiting[i].done /\ recording /\ EmitFull /\ taken' = Append(taken, i)
            \/ UNCHANGED <<emitted, hooked, timer, events, report, taken>>
<1>1. waiting \in Seq(Waiter) /\ waiting[i] \in Waiter
  <2>1. waiting \in Seq(Waiter)
    BY DEF RecordTypes, Waiter
  <2> QED BY <2>1
<1>2. waiting' = [waiting EXCEPT ![i] = Came(waiting[i], by)]
  BY DEF Snapshot, Came
<1>3. waiting' \in Seq(Waiter) /\ Len(waiting') = Len(waiting)
      /\ (\A k \in DOMAIN waiting : k # i => waiting'[k] = waiting[k])
      /\ waiting'[i] = Came(waiting[i], by)
  <2> DEFINE c == Came(waiting[i], by)
  <2>1. c \in Waiter
    BY <1>1, CameTyped
  <2> HIDE DEF c
  <2>2. waiting' = [waiting EXCEPT ![i] = c]
    BY <1>2 DEF c
  <2>3. waiting' \in Seq(Waiter) /\ Len(waiting') = Len(waiting)
        /\ (\A k \in DOMAIN waiting : k # i => waiting'[k] = waiting[k])
        /\ waiting'[i] = c
    BY <1>1, <2>1, <2>2
  <2> QED BY <2>3 DEF c
<1>4. \/ ~waiting[i].done /\ recording /\ EmitFull /\ taken' = Append(taken, i)
      \/ UNCHANGED <<emitted, hooked, timer, events, report, taken>>
  BY DEF Snapshot
<1> QED BY <1>1, <1>3, <1>4, CameTyped

LEMMA TypesInit == PluginsInit => Typed
<1> SUFFICES ASSUME PluginsInit PROVE Typed
  OBVIOUS
<1>1. RecordTypes
  <2>1. /\ recording = FALSE /\ emitted = 0 /\ events = <<>> /\ timer = "none" /\ hooked = FALSE
        /\ waiting = <<>> /\ taken = <<>>
    BY DEF PluginsInit
  <2>2. \A S : <<>> \in Seq(S)
    OBVIOUS
  <2> QED BY <2>1, <2>2 DEF RecordTypes
<1>2. PageTypes
  <2>1. core = "loading" /\ script \in {"loading", "missing"} /\ plugins = {}
    BY DEF PluginsInit
  <2>2. perf = [fcp |-> "none", resources |-> FALSE, observing |-> FALSE, reported |-> FALSE]
    BY DEF PluginsInit
  <2>3. visible = TRUE /\ hiddenDone = FALSE /\ report = <<>>
    BY DEF PluginsInit
  <2>4. report \in Seq(PageRecord)
    BY <2>3
  <2> QED BY <2>1, <2>2, <2>3, <2>4 DEF PageTypes
<1> QED BY <1>1, <1>2 DEF Typed

LEMMA TypesStep == Typed /\ [PluginsNext]_pluginsVars => Typed'
<1> SUFFICES ASSUME Typed, [PluginsNext]_pluginsVars PROVE Typed'
  OBVIOUS
<1> USE DEF Typed
<1>0. <<>> \in Seq(Nat) /\ <<1>> \in Seq(Nat) /\ waiting \in Seq(Waiter)
  BY DEF RecordTypes, Waiter
<1>a. ASSUME waiting' \in Seq(Waiter), emitted' \in Nat, events' \in Seq(Nat),
             timer' \in {"none", "armed"}, hooked' \in BOOLEAN, taken' \in Seq(Nat),
             recording' \in BOOLEAN
      PROVE  RecordTypes'
  BY <1>a DEF RecordTypes, Waiter
<1>b. ASSUME NEW e, NEW o \in BOOLEAN, NEW r \in BOOLEAN,
             perf' = [perf EXCEPT !.fcp = e, !.observing = o, !.resources = r],
             e \in {"none", "fast", "slow"}
      PROVE  perf' \in [fcp : {"none", "fast", "slow"}, resources : BOOLEAN,
                        observing : BOOLEAN, reported : BOOLEAN]
  BY <1>b DEF PageTypes
<1>1. CASE CoreLoads
  <2>1. RecordTypes'
    BY <1>1 DEF CoreLoads, recordVars, RecordTypes
  <2>2. PageTypes'
    BY <1>1 DEF CoreLoads, pageVars, PageTypes
  <2> QED BY <2>1, <2>2
<1>2. CASE CoreFails \/ RecorderFails
  BY <1>2 DEF CoreFails, RecorderFails, recordVars, pageVars, RecordTypes, PageTypes
<1>3. CASE RecorderLoads
  <2>1. /\ emitted' \in Nat /\ events' \in Seq(Nat) /\ hooked' \in BOOLEAN /\ recording' \in BOOLEAN
        /\ report' \in Seq(PageRecord) /\ plugins' \in SUBSET {"perf", "error", "record"}
    <3>1. CASE core \in {"running", "aborted"}
      <4>1. events' = <<>> /\ report' \in Seq(PageRecord)
        BY <1>0, <1>3, <3>1, CollectTyped DEF RecorderLoads, PageTypes
      <4>2. emitted' = 1 /\ hooked' = TRUE /\ recording' = TRUE /\ plugins' = plugins \cup {"record"}
        BY <1>3, <3>1 DEF RecorderLoads
      <4> QED BY <1>0, <4>1, <4>2 DEF PageTypes
    <3>2. CASE core \notin {"running", "aborted"}
      BY <1>3, <3>2 DEF RecorderLoads, RecordTypes, PageTypes
    <3> QED BY <3>1, <3>2
  <2>2. UNCHANGED <<core, timer, waiting, taken, pageVars, perf>> /\ script' = "loaded"
    BY <1>3 DEF RecorderLoads
  <2>3. RecordTypes'
    BY <1>0, <1>a, <2>1, <2>2 DEF RecordTypes
  <2>4. PageTypes'
    BY <2>1, <2>2 DEF PageTypes, pageVars
  <2> QED BY <2>3, <2>4
<1>4. CASE AbortPage
  <2>1. RecordTypes'
    BY <1>0, <1>4, <1>a DEF AbortPage, Destroy, RecordTypes
  <2>2. PageTypes'
    BY <1>4 DEF AbortPage, Destroy, pageVars, PageTypes
  <2> QED BY <2>1, <2>2
<1>5. ASSUME \/ \E kind \in Kind : Throw(kind)
             \/ HostWraps \/ UNCHANGED pluginsVars
      PROVE  Typed'
  BY <1>5 DEF Throw, HostWraps, pluginsVars, recordVars, pageVars, RecordTypes, PageTypes
<1>6. CASE Emit
  <2>1. /\ events' = Append(events, emitted + 1) /\ emitted' = emitted + 1
        /\ timer' \in {"none", "armed"}
        /\ UNCHANGED <<core, script, plugins, perf, recording, hooked, waiting, taken, pageVars, report>>
    BY <1>6 DEF Emit, Buffered, RecordTypes
  <2>2. emitted' \in Nat /\ events' \in Seq(Nat)
    BY <2>1 DEF RecordTypes
  <2>3. RecordTypes'
    BY <1>0, <1>a, <2>1, <2>2 DEF RecordTypes
  <2> QED BY <2>1, <2>3 DEF PageTypes, pageVars
<1>7. CASE Checkout
  <2>1. EmitFull /\ UNCHANGED <<core, script, plugins, perf, recording, waiting, taken, pageVars>>
    BY <1>7 DEF Checkout
  <2>2. RecordTypes'
    BY <1>0, <1>a, <2>1, EmitFullTyped DEF RecordTypes
  <2> QED BY <2>1, <2>2, EmitFullTyped DEF PageTypes, pageVars
<1>8. CASE TimerFires
  <2>1. events' = <<>> /\ report' \in Seq(PageRecord)
    BY <1>8, CollectTyped DEF TimerFires, RecordTypes, PageTypes
  <2>2. UNCHANGED <<core, script, plugins, perf, recording, emitted, hooked, waiting, taken, pageVars>>
        /\ timer' = "none"
    BY <1>8 DEF TimerFires
  <2>3. RecordTypes'
    BY <1>0, <1>a, <2>1, <2>2 DEF RecordTypes
  <2> QED BY <2>1, <2>2, <2>3 DEF PageTypes, pageVars
<1>9. CASE Navigate
  <2>1. waiting' \in Seq(Waiter)
    BY <1>0, <1>9, DeferredTyped DEF Navigate
  <2>2. UNCHANGED <<core, script, plugins, perf, recording, emitted, events, timer, hooked,
                    taken, pageVars, report>>
    BY <1>9 DEF Navigate
  <2>3. RecordTypes'
    BY <1>0, <1>a, <2>1, <2>2 DEF RecordTypes
  <2> QED BY <2>2, <2>3 DEF PageTypes, pageVars
<1>10. ASSUME NEW i \in DOMAIN waiting, NEW by \in {"frame", "clock"}, Snapshot(i, by)
       PROVE  Typed'
  <2>1. UNCHANGED <<core, script, plugins, perf, recording, pageVars>>
    BY <1>10 DEF Snapshot
  <2>2. /\ waiting' \in Seq(Waiter)
        /\ \/ EmitFull /\ taken' = Append(taken, i)
           \/ UNCHANGED <<emitted, hooked, timer, events, report, taken>>
    BY <1>10, SnapshotShape
  <2>3. i \in Nat
    BY <1>0
  <2>4. CASE EmitFull /\ taken' = Append(taken, i)
    <3>1. taken' \in Seq(Nat)
      BY <2>3, <2>4 DEF RecordTypes
    <3>2. RecordTypes'
      BY <1>0, <1>a, <2>1, <2>2, <2>4, <3>1, EmitFullTyped DEF RecordTypes
    <3> QED BY <2>1, <2>4, <3>2, EmitFullTyped DEF PageTypes, pageVars
  <2>5. CASE UNCHANGED <<emitted, hooked, timer, events, report, taken>>
    <3>1. RecordTypes'
      BY <1>0, <1>a, <2>1, <2>2, <2>5 DEF RecordTypes
    <3> QED BY <2>1, <2>5, <3>1 DEF PageTypes, pageVars
  <2> QED BY <2>2, <2>4, <2>5
<1>11. ASSUME NEW slow \in BOOLEAN, Paint(slow)
       PROVE  Typed'
  <2>1. /\ perf' = [perf EXCEPT !.fcp = IF slow THEN "slow" ELSE "fast",
                                !.observing = perf.observing /\ slow,
                                !.resources = perf.resources /\ slow]
        /\ UNCHANGED <<core, script, plugins, recordVars, pageVars, report>>
    BY <1>11 DEF Paint
  <2>2. (perf.observing /\ slow) \in BOOLEAN /\ (perf.resources /\ slow) \in BOOLEAN
    OBVIOUS
  <2>3. perf' \in [fcp : {"none", "fast", "slow"}, resources : BOOLEAN,
                   observing : BOOLEAN, reported : BOOLEAN]
    BY <1>b, <2>1, <2>2
  <2>4. RecordTypes'
    BY <2>1 DEF recordVars, RecordTypes
  <2> QED BY <2>1, <2>3, <2>4 DEF PageTypes, pageVars
<1>12. CASE Resource
  BY <1>12 DEF Resource, recordVars, pageVars, RecordTypes, PageTypes
<1>13. CASE Hide
  <2>1. PageTypes'
    <3>1. report' \in Seq(PageRecord)
      <4>1. report \in Seq(PageRecord) /\ events \in Seq(Nat)
        BY DEF RecordTypes, PageTypes
      <4>2. report \o HideRecords \in Seq(PageRecord)
        BY <4>1, HideAdds
      <4> QED BY <1>13, <4>1, <4>2 DEF Hide, Reported
    <3>2. perf' \in [fcp : {"none", "fast", "slow"}, resources : BOOLEAN,
                     observing : BOOLEAN, reported : BOOLEAN]
      <4>1. perf' = perf \/ perf' = [perf EXCEPT !.reported = TRUE, !.observing = FALSE]
        BY <1>13 DEF Hide, PerfReported
      <4> QED BY <4>1 DEF PageTypes
    <3>3. /\ visible' = FALSE /\ hiddenDone' \in BOOLEAN
          /\ UNCHANGED <<core, script, plugins>>
      BY <1>13 DEF Hide, PageTypes
    <3> QED BY <3>1, <3>2, <3>3 DEF PageTypes
  <2>2. RecordTypes'
    <3> DEFINE left == IF "record" \in plugins /\ ~hiddenDone THEN <<>> ELSE events
    <3>1. left \in Seq(Nat)
      BY <1>0 DEF RecordTypes
    <3>2. Seen(left) /\ UNCHANGED <<recording, hooked, waiting, taken>>
      BY <1>13 DEF Hide
    <3> HIDE DEF left
    <3>3. events' \in Seq(Nat) /\ timer' \in {"none", "armed"} /\ emitted' \in Nat
      BY <3>1, <3>2, SeenTyped
    <3> QED BY <1>0, <1>a, <3>2, <3>3 DEF RecordTypes
  <2> QED BY <2>1, <2>2
<1>14. CASE Show
  <2>1. PageTypes'
    BY <1>14 DEF Show, PageTypes
  <2>2. RecordTypes'
    <3>1. Seen(events) /\ UNCHANGED <<recording, hooked, taken>> /\ waiting' \in Seq(Waiter)
      BY <1>0, <1>14, DeferredTyped DEF Show
    <3>2. events' \in Seq(Nat) /\ timer' \in {"none", "armed"} /\ emitted' \in Nat
      BY <3>1, SeenTyped DEF RecordTypes
    <3> QED BY <1>a, <3>1, <3>2 DEF RecordTypes
  <2> QED BY <2>1, <2>2
<1>15. CASE PageHide
  <2>1. PageTypes'
    <3>1. report' \in Seq(PageRecord)
      <4>1. report \in Seq(PageRecord) /\ events \in Seq(Nat)
        BY DEF RecordTypes, PageTypes
      <4>2. report \o (TrackRecord(Leftover) \o Lifecycle("pagehide")) \in Seq(PageRecord)
        BY <4>1, PageHideAdds
      <4> QED BY <1>15, <4>1, <4>2 DEF PageHide, Reported
    <3>2. hiddenDone' = TRUE /\ UNCHANGED <<core, script, plugins, perf, visible>>
      BY <1>15 DEF PageHide
    <3> QED BY <3>1, <3>2 DEF PageTypes
  <2>2. RecordTypes'
    <3> DEFINE left == IF "record" \in plugins THEN <<>> ELSE events
    <3>1. left \in Seq(Nat)
      BY <1>0 DEF RecordTypes
    <3>2. Seen(left) /\ UNCHANGED <<recording, hooked, waiting, taken>>
      BY <1>15 DEF PageHide
    <3> HIDE DEF left
    <3>3. events' \in Seq(Nat) /\ timer' \in {"none", "armed"} /\ emitted' \in Nat
      BY <3>1, <3>2, SeenTyped
    <3> QED BY <1>0, <1>a, <3>2, <3>3 DEF RecordTypes
  <2> QED BY <2>1, <2>2
<1> QED BY <1>1, <1>2, <1>3, <1>4, <1>5, <1>6, <1>7, <1>8, <1>9, <1>10, <1>11, <1>12, <1>13,
        <1>14, <1>15 DEF PluginsNext

-----------------------------------------------------------------------------
(***************************************************************************)
(* Before there is an SDK.                                                 *)
(***************************************************************************)
LEMMA UnstartedInit == PluginsInit => Unstarted
  BY DEF PluginsInit, Unstarted

LEMMA UnstartedStep == Unstarted /\ Typed /\ [PluginsNext]_pluginsVars => Unstarted'
<1> SUFFICES ASSUME Unstarted, Typed, [PluginsNext]_pluginsVars,
                    core' \in {"loading", "missing"}
             PROVE  /\ report' = <<>> /\ plugins' = {} /\ ~recording' /\ ~hiddenDone'
                    /\ perf' = perf /\ core \in {"loading", "missing"}
  BY DEF Unstarted
<1>1. core \in {"loading", "missing"} /\ (core' = core \/ CoreFails)
  <2>1. core' = core \/ CoreFails \/ CoreLoads \/ AbortPage
    BY DEF PluginsNext, RecorderLoads, RecorderFails, Throw, HostWraps, Emit, Checkout, TimerFires,
       Navigate, Snapshot, Paint, Resource, Hide, Show, PageHide, pluginsVars
  <2>2. ~CoreLoads /\ ~AbortPage
    BY DEF CoreLoads, AbortPage
  <2> QED BY <2>1, <2>2 DEF CoreFails
<1>2. /\ report = <<>> /\ plugins = {} /\ recording = FALSE /\ hiddenDone = FALSE
      /\ perf.observing = FALSE
  BY <1>1 DEF Unstarted, Typed, RecordTypes, PageTypes
<1>3. ASSUME NEW list, Collect(list)
      PROVE  report' = report
  BY <1>1, <1>3 DEF Collect, Reported
<1>4. UNCHANGED <<report, plugins, recording, perf>>
  <2>1. CASE TimerFires
    BY <1>3, <2>1 DEF TimerFires
  <2>2. CASE Hide
    BY <1>1, <2>2 DEF Hide
  <2>3. \A i \in DOMAIN waiting, by \in {"frame", "clock"} :
          Snapshot(i, by) => UNCHANGED <<report, plugins, recording, perf>>
    BY <1>2 DEF Snapshot
  <2>4. CASE CoreFails
    BY <2>4 DEF CoreFails, recordVars
  <2>5. CASE RecorderLoads
    BY <1>1, <2>5 DEF RecorderLoads
  <2>6. ~CoreLoads /\ ~AbortPage /\ ~Emit /\ ~Checkout /\ ~Resource /\ ~PageHide
        /\ \A slow \in BOOLEAN : ~Paint(slow)
    <3>1. ~CoreLoads /\ ~AbortPage /\ ~Emit /\ ~Checkout /\ ~PageHide
      BY <1>1, <1>2 DEF CoreLoads, AbortPage, Emit, Checkout, EmitFull, PageHide
    <3>2. ~Resource /\ \A slow \in BOOLEAN : ~Paint(slow)
      BY <1>2 DEF Resource, Paint
    <3> QED BY <3>1, <3>2
  <2>7. RecorderFails \/ (\E kind \in Kind : Throw(kind)) \/ HostWraps \/ Navigate \/ Show
          \/ UNCHANGED pluginsVars => UNCHANGED <<report, plugins, recording, perf>>
    BY DEF RecorderFails, Throw, HostWraps, Navigate, Show, recordVars, pluginsVars
  <2> QED BY <2>1, <2>2, <2>3, <2>4, <2>5, <2>6, <2>7 DEF PluginsNext
<1>5. hiddenDone' = FALSE
  <2>1. CASE Hide
    BY <1>1, <1>2, <2>1 DEF Hide
  <2>2. CASE Show
    BY <2>2 DEF Show
  <2>3. ~PageHide
    BY <1>1 DEF PageHide
  <2>4. CASE ~Hide /\ ~Show
    BY <1>2, <2>3, <2>4 DEF PluginsNext, CoreLoads, CoreFails, AbortPage, RecorderLoads, RecorderFails,
       Throw, HostWraps, Emit, Checkout, TimerFires, Navigate, Snapshot, Paint, Resource, pageVars,
       pluginsVars
  <2> QED BY <2>1, <2>2, <2>4
<1> QED BY <1>1, <1>2, <1>4, <1>5

-----------------------------------------------------------------------------
(***************************************************************************)
(* The performance record.                                                 *)
(***************************************************************************)
LEMMA PerfMore ==
  ASSUME NEW list \in Seq(PageRecord), NEW r \in PageRecord, PerfFirst(list),
         r.type = "perf" => ~HasPerf(list),
         r.type = "lifecycle" /\ r.t = "visibilitychange" => HasPerf(list)
  PROVE  /\ list \o <<r>> \in Seq(PageRecord) /\ PerfFirst(list \o <<r>>)
         /\ HasPerf(list \o <<r>>) <=> HasPerf(list) \/ r.type = "perf"
<1> DEFINE n == Len(list)
           more == list \o <<r>>
<1>1. /\ n \in Nat /\ more \in Seq(PageRecord) /\ DOMAIN more = 1 .. n + 1 /\ DOMAIN list = 1 .. n
      /\ more[n + 1] = r /\ \A i \in 1 .. n : more[i] = list[i]
  OBVIOUS
<1>2. /\ \A i \in 1 .. n + 1 : i \in 1 .. n \/ i = n + 1
      /\ \A i \in 1 .. n : i \in 1 .. n + 1 /\ i < n + 1
      /\ n + 1 \in 1 .. n + 1 /\ n + 1 \notin 1 .. n
  BY <1>1
<1> HIDE DEF n, more
<1>3. HasPerf(more) <=> HasPerf(list) \/ r.type = "perf"
  BY <1>1, <1>2 DEF HasPerf
<1>4. \A i, j \in DOMAIN more : more[i].type = "perf" /\ more[j].type = "perf" => i = j
  BY <1>1, <1>2 DEF HasPerf, PerfFirst
<1>5. \A i \in DOMAIN more :
        more[i].type = "lifecycle" /\ more[i].t = "visibilitychange" =>
          \E j \in DOMAIN more : more[j].type = "perf" /\ j < i
  <2> SUFFICES ASSUME NEW i \in DOMAIN more, more[i].type = "lifecycle", more[i].t = "visibilitychange"
               PROVE  \E j \in DOMAIN more : more[j].type = "perf" /\ j < i
    OBVIOUS
  <2>1. \E j \in DOMAIN list : list[j].type = "perf" /\ j < i
    BY <1>1, <1>2 DEF HasPerf, PerfFirst
  <2> QED BY <1>1, <1>2, <2>1
<1> QED BY <1>1, <1>3, <1>4, <1>5 DEF PerfFirst, more

LEMMA PerfTrack ==
  ASSUME NEW list \in Seq(PageRecord), NEW batch \in Seq(Nat), PerfFirst(list)
  PROVE  /\ list \o TrackRecord(batch) \in Seq(PageRecord) /\ PerfFirst(list \o TrackRecord(batch))
         /\ HasPerf(list \o TrackRecord(batch)) <=> HasPerf(list)
<1>1. CASE batch = <<>>
  <2>1. list \o TrackRecord(batch) = list
    BY <1>1 DEF TrackRecord
  <2> QED BY <2>1
<1>2. CASE batch # <<>>
  <2> DEFINE r == [type |-> "track", events |-> batch]
  <2>1. r \in PageRecord /\ r.type = "track" /\ TrackRecord(batch) = <<r>>
    BY <1>2 DEF PageRecord, TrackRecord
  <2> HIDE DEF r
  <2> QED BY <2>1, PerfMore
<1> QED BY <1>1, <1>2

LEMMA PerfLifecycle ==
  ASSUME NEW list \in Seq(PageRecord), NEW t \in {"visibilitychange", "pagehide"},
         PerfFirst(list), t = "visibilitychange" => HasPerf(list)
  PROVE  /\ PerfFirst(list \o Lifecycle(t))
         /\ HasPerf(list \o Lifecycle(t)) <=> HasPerf(list)
<1>1. CASE hiddenDone
  <2>1. list \o Lifecycle(t) = list
    BY <1>1 DEF Lifecycle
  <2> QED BY <2>1
<1>2. CASE ~hiddenDone
  <2> DEFINE r == [type |-> "lifecycle", t |-> t]
  <2>1. r \in PageRecord /\ r.type = "lifecycle" /\ r.t = t /\ Lifecycle(t) = <<r>>
    BY <1>2 DEF PageRecord, Lifecycle
  <2> HIDE DEF r
  <2> QED BY <2>1, PerfMore
<1> QED BY <1>1, <1>2

LEMMA SealedInit == PluginsInit => Sealed
<1> SUFFICES ASSUME PluginsInit PROVE Sealed
  OBVIOUS
<1>1. DOMAIN report = {}
  BY DEF PluginsInit
<1> QED BY <1>1 DEF PluginsInit, Sealed, HasPerf, PerfFirst

LEMMA SealedStep == Sealed /\ Unstarted /\ Typed /\ [PluginsNext]_pluginsVars => Sealed'
<1> SUFFICES ASSUME Sealed, Unstarted, Typed, [PluginsNext]_pluginsVars PROVE Sealed'
  OBVIOUS
<1>0. /\ report \in Seq(PageRecord) /\ events \in Seq(Nat) /\ emitted + 1 \in Nat
      /\ Append(events, emitted + 1) \in Seq(Nat) /\ <<1>> \in Seq(Nat)
  BY DEF Typed, RecordTypes, PageTypes
<1>a. ASSUME UNCHANGED <<core, perf>>, "perf" \in plugins' <=> "perf" \in plugins,
             PerfFirst(report'), HasPerf(report') <=> HasPerf(report)
      PROVE  Sealed'
  BY <1>a DEF Sealed
<1>b. ASSUME NEW list \in Seq(Nat), Collect(list)
      PROVE  PerfFirst(report') /\ (HasPerf(report') <=> HasPerf(report))
  <2>1. report' = IF core = "running" THEN report \o TrackRecord(list) ELSE report
    BY <1>b, CollectAdds
  <2>2. PerfFirst(report)
    BY DEF Sealed
  <2>3. /\ PerfFirst(report \o TrackRecord(list))
        /\ HasPerf(report \o TrackRecord(list)) <=> HasPerf(report)
    BY <1>0, <2>2, PerfTrack
  <2> QED BY <2>1, <2>2, <2>3
<1>1. CASE CoreLoads
  <2>1. /\ core = "loading" /\ core' = "running" /\ "perf" \in plugins' /\ report' = report
        /\ perf' = [perf EXCEPT !.observing = TRUE]
    BY <1>1 DEF CoreLoads
  <2>2. perf'.reported = FALSE /\ perf'.fcp = "none"
    BY <2>1 DEF Unstarted
  <2>3. ~HasPerf(report)
    BY <2>1 DEF Unstarted, HasPerf
  <2> QED BY <2>1, <2>2, <2>3 DEF Sealed
<1>2. CASE CoreFails
  BY <1>2 DEF CoreFails, Sealed
<1>3. CASE RecorderLoads
  <2>1. UNCHANGED <<core, perf>> /\ ("perf" \in plugins' <=> "perf" \in plugins)
    BY <1>3 DEF RecorderLoads
  <2>2. PerfFirst(report') /\ (HasPerf(report') <=> HasPerf(report))
    <3>1. Collect(<<1>>) \/ report' = report
      BY <1>3 DEF RecorderLoads
    <3> QED BY <1>0, <1>b, <3>1 DEF Sealed
  <2> QED BY <1>a, <2>1, <2>2
<1>4. CASE AbortPage
  <2>1. core' = "aborted" /\ plugins' = {} /\ report' = report
    BY <1>4 DEF AbortPage
  <2>2. perf' = [perf EXCEPT !.reported = TRUE, !.observing = FALSE]
    BY <1>4 DEF AbortPage, Destroy
  <2>3. /\ perf'.reported = TRUE /\ perf'.observing = FALSE
        /\ perf'.fcp = perf.fcp /\ perf'.resources = perf.resources
    BY <2>2 DEF Typed, PageTypes
  <2> QED BY <2>1, <2>3 DEF Sealed
<1>5. CASE Checkout
  <2>1. UNCHANGED <<core, perf, plugins>> /\ Collect(Append(events, emitted + 1))
    BY <1>5 DEF Checkout, EmitFull
  <2> QED BY <1>0, <1>a, <1>b, <2>1
<1>6. CASE TimerFires
  <2>1. UNCHANGED <<core, perf, plugins>> /\ Collect(events)
    BY <1>6 DEF TimerFires
  <2> QED BY <1>0, <1>a, <1>b, <2>1
<1>7. ASSUME NEW i \in DOMAIN waiting, NEW by \in {"frame", "clock"}, Snapshot(i, by)
      PROVE  Sealed'
  <2>1. UNCHANGED <<core, perf, plugins>>
        /\ (Collect(Append(events, emitted + 1)) \/ report' = report)
    BY <1>7 DEF Snapshot, EmitFull
  <2>2. PerfFirst(report') /\ (HasPerf(report') <=> HasPerf(report))
    BY <1>0, <1>b, <2>1 DEF Sealed
  <2> QED BY <1>a, <2>1, <2>2
<1>8. ASSUME NEW slow \in BOOLEAN, Paint(slow)
      PROVE  Sealed'
  <2>1. /\ UNCHANGED <<core, plugins, report>>
        /\ perf' = [perf EXCEPT !.fcp = IF slow THEN "slow" ELSE "fast",
                                !.observing = perf.observing /\ slow,
                                !.resources = perf.resources /\ slow]
    BY <1>8 DEF Paint
  <2>2. /\ perf'.reported = perf.reported
        /\ perf'.fcp = IF slow THEN "slow" ELSE "fast"
        /\ perf'.observing = (perf.observing /\ slow)
        /\ perf'.resources = (perf.resources /\ slow)
    BY <2>1 DEF Typed, PageTypes
  <2>3. perf'.fcp = "fast" => ~perf'.resources /\ ~perf'.observing
    <3>1. CASE slow
      BY <2>2, <3>1
    <3>2. CASE ~slow
      BY <2>2, <3>2
    <3> QED BY <3>1, <3>2
  <2> QED BY <2>1, <2>2, <2>3 DEF Sealed
<1>9. CASE Resource
  <2>1. /\ UNCHANGED <<core, plugins, report>> /\ perf.observing
        /\ perf' = [perf EXCEPT !.resources = TRUE]
    BY <1>9 DEF Resource
  <2>2. perf'.reported = perf.reported /\ perf'.fcp = perf.fcp /\ perf.fcp # "fast"
    BY <2>1 DEF Typed, PageTypes, Sealed
  <2> QED BY <2>1, <2>2 DEF Sealed
<1>10. CASE Hide
  <2>1. UNCHANGED <<core, plugins>>
    BY <1>10 DEF Hide
  <2>2. CASE core = "running"
    <3>1. perf' = PerfReported /\ report' = report \o HideRecords
      BY <1>10, <2>2 DEF Hide, Reported
    <3>2. "perf" \in plugins
      BY <2>2 DEF Sealed
    <3>3. perf'.reported = TRUE /\ (perf'.fcp = "fast" => ~perf'.resources /\ ~perf'.observing)
      BY <3>1, <3>2 DEF PerfReported, PerfSeals, Sealed, Typed, PageTypes
    <3> DEFINE first == report \o PerfRecord
               second == first \o TrackRecord(HideBatch)
    <3>4. first \in Seq(PageRecord) /\ PerfFirst(first) /\ HasPerf(first)
      <4>1. CASE perf.reported
        <5>1. first = report
          BY <1>0, <4>1 DEF PerfRecord, PerfSeals
        <5> QED BY <1>0, <2>2, <4>1, <5>1 DEF Sealed
      <4>2. CASE ~perf.reported
        <5> DEFINE r == [type |-> "perf", resources |-> perf.fcp = "slow"]
        <5>1. r \in PageRecord /\ r.type = "perf"
          <6>1. (perf.fcp = "slow") \in BOOLEAN
            OBVIOUS
          <6> QED BY <6>1 DEF PageRecord
        <5>2. PerfRecord = <<r>>
          BY <3>2, <4>2 DEF PerfRecord, PerfSeals
        <5> HIDE DEF r
        <5>3. PerfFirst(report) /\ ~HasPerf(report)
          BY <4>2 DEF Sealed
        <5> QED BY <1>0, <5>1, <5>2, <5>3, PerfMore
      <4> QED BY <4>1, <4>2
    <3>5. second \in Seq(PageRecord) /\ PerfFirst(second) /\ HasPerf(second)
      <4> HIDE DEF first
      <4> QED BY <1>0, <3>4, HideBatchType, PerfTrack
    <3>6. /\ PerfFirst(second \o Lifecycle("visibilitychange"))
          /\ HasPerf(second \o Lifecycle("visibilitychange"))
      <4> HIDE DEF second
      <4> QED BY <3>5, PerfLifecycle
    <3>7. report' = second \o Lifecycle("visibilitychange")
      BY <1>0, <3>1, HideAdds
    <3> HIDE DEF second
    <3> QED BY <2>1, <2>2, <3>2, <3>3, <3>6, <3>7 DEF Sealed
  <2>3. CASE core # "running"
    <3>1. report' = report
      BY <1>10, <2>3 DEF Hide, Reported
    <3>2. perf' = perf
      <4>1. "perf" \notin plugins
        BY <2>3 DEF Sealed, Unstarted, Typed, PageTypes
      <4> QED BY <1>10, <4>1 DEF Hide, PerfReported, PerfSeals
    <3> QED BY <2>1, <3>1, <3>2 DEF Sealed
  <2> QED BY <2>2, <2>3
<1>11. CASE PageHide
  <2>1. UNCHANGED <<core, perf, plugins>>
    BY <1>11 DEF PageHide
  <2>2. PerfFirst(report') /\ (HasPerf(report') <=> HasPerf(report))
    <3>1. CASE core = "running"
      <4> DEFINE first == report \o TrackRecord(Leftover)
      <4>1. report' = first \o Lifecycle("pagehide")
        BY <1>0, <1>11, <3>1, PageHideAdds DEF PageHide, Reported
      <4>2. first \in Seq(PageRecord) /\ PerfFirst(first) /\ (HasPerf(first) <=> HasPerf(report))
        BY <1>0, HideBatchType, PerfTrack DEF Sealed
      <4> HIDE DEF first
      <4> QED BY <4>1, <4>2, PerfLifecycle
    <3>2. CASE core # "running"
      BY <1>11, <3>2 DEF PageHide, Reported, Sealed
    <3> QED BY <3>1, <3>2
  <2> QED BY <1>a, <2>1, <2>2
<1>12. ASSUME \/ RecorderFails \/ (\E kind \in Kind : Throw(kind)) \/ HostWraps \/ Emit \/ Navigate
              \/ Show \/ UNCHANGED pluginsVars
       PROVE  Sealed'
  <2>1. UNCHANGED <<core, perf, plugins, report>>
    BY <1>12 DEF RecorderFails, Throw, HostWraps, Emit, Navigate, Show, pluginsVars
  <2> QED BY <1>a, <2>1 DEF Sealed
<1> QED BY <1>1, <1>2, <1>3, <1>4, <1>5, <1>6, <1>7, <1>8, <1>9, <1>10, <1>11, <1>12 DEF PluginsNext

-----------------------------------------------------------------------------
(***************************************************************************)
(* The recording.                                                          *)
(***************************************************************************)
LEMMA RecordingInit == PluginsInit => Recording
<1> SUFFICES ASSUME PluginsInit PROVE Recording
  OBVIOUS
<1>1. /\ core = "loading" /\ recording = FALSE /\ events = <<>> /\ emitted = 0
  BY DEF PluginsInit
<1> QED BY <1>1 DEF Recording

\* What is collected leaves the report whole and nothing buffered.
LEMMA CollectWhole ==
  ASSUME NEW list \in Seq(Nat), NEW n \in Nat, Collect(list), report \in Seq(PageRecord),
         core = "running", Whole(report, list, n)
  PROVE  Whole(report', <<>>, n)
BY CollectAdds, WholeCollected

LEMMA EmitFullWhole ==
  ASSUME Typed, Recording, EmitFull
  PROVE  /\ events' = <<>> /\ emitted' = emitted + 1 /\ timer' = "none" /\ recording
         /\ core = "running" => Whole(report', <<>>, emitted + 1)
<1>1. /\ Collect(Append(events, emitted + 1)) /\ emitted' = emitted + 1 /\ timer' = "none" /\ recording
  BY DEF EmitFull
<1>2. /\ events \in Seq(Nat) /\ emitted \in Nat /\ report \in Seq(PageRecord)
  BY DEF Typed, RecordTypes, PageTypes
<1>3. Append(events, emitted + 1) \in Seq(Nat) /\ emitted + 1 \in Nat
  BY <1>2
<1>4. ASSUME core = "running" PROVE Whole(report', <<>>, emitted + 1)
  <2>1. Whole(report, events, emitted)
    BY <1>4, RecordedIsTold DEF Recording, Whole
  <2>2. Whole(report, Append(events, emitted + 1), emitted + 1)
    BY <1>2, <2>1, WholeEmitted
  <2> QED BY <1>1, <1>2, <1>3, <1>4, <2>2, CollectWhole
<1> QED BY <1>1, <1>4, CollectAdds

LEMMA SeenWhole ==
  ASSUME Typed, NEW left \in Seq(Nat), NEW list \in Seq(PageRecord), Seen(left),
         Whole(list, left, emitted)
  PROVE  Whole(list, events', emitted')
<1>1. emitted \in Nat
  BY DEF Typed, RecordTypes
<1>2. CASE recording /\ emitted < MaxEvents
  <2>1. events' = Append(left, emitted + 1) /\ emitted' = emitted + 1
    BY <1>2 DEF Seen, Buffered
  <2> QED BY <1>1, <2>1, WholeEmitted
<1>3. CASE ~(recording /\ emitted < MaxEvents)
  BY <1>3 DEF Seen
<1> QED BY <1>2, <1>3

LEMMA SeenTimed ==
  ASSUME Typed, NEW left, Seen(left), left # <<>> => timer = "armed"
  PROVE  /\ events' # <<>> => timer' = "armed"
         /\ ~recording => events' = left /\ emitted' = emitted
         /\ recording \/ events' = left
BY DEF Seen, Buffered, Typed, RecordTypes

LEMMA RecordingStep ==
  Recording /\ Sealed /\ Unstarted /\ Typed /\ [PluginsNext]_pluginsVars => Recording'
<1> SUFFICES ASSUME Recording, Sealed, Unstarted, Typed, [PluginsNext]_pluginsVars PROVE Recording'
  OBVIOUS
<1>0. /\ report \in Seq(PageRecord) /\ events \in Seq(Nat) /\ emitted \in Nat
      /\ <<1>> \in Seq(Nat) /\ <<>> \in Seq(Nat) /\ recording \in BOOLEAN
  BY DEF Typed, RecordTypes, PageTypes
<1>w. core = "running" => Whole(report, events, emitted)
  BY RecordedIsTold DEF Recording, Whole
<1>a. ASSUME core' = "running" => Whole(report', events', emitted'),
             recording' \/ events' # <<>> => "record" \in plugins',
             events' # <<>> => timer' = "armed",
             ~recording' /\ core' = "running" => emitted' = 0,
             core' \in {"loading", "missing"} => emitted' = 0,
             script' = "loading" => ~recording' /\ emitted' = 0 /\ events' = <<>>
      PROVE  Recording'
  <2>1. Recorded' = Told(report')
    BY DEF Recorded, Told, Batches
  <2> QED BY <1>a, <2>1 DEF Recording, Whole
<1>1. CASE CoreLoads
  <2>1. /\ core = "loading" /\ core' = "running" /\ "record" \notin plugins
        /\ UNCHANGED <<script, recording, emitted, events, timer, report>>
    BY <1>1 DEF CoreLoads, recordVars, Unstarted
  <2>2. events = <<>> /\ ~recording /\ emitted = 0 /\ report = <<>>
    BY <2>1 DEF Recording, Unstarted
  <2>3. Whole(report', events', emitted')
    <3>1. Batches(<<>>) = <<>>
      BY DEF Batches
    <3>2. Told(<<>>) = <<>> /\ <<>> \o <<>> = <<>> /\ [i \in 1 .. 0 |-> i] = <<>>
      BY <3>1, FlattenNothing DEF Told
    <3> QED BY <2>1, <2>2, <3>2 DEF Whole
  <2> QED BY <1>a, <2>1, <2>2, <2>3
<1>2. ASSUME \/ CoreFails \/ RecorderFails \/ HostWraps \/ Navigate \/ Resource
             \/ (\E kind \in Kind : Throw(kind))
             \/ (\E slow \in BOOLEAN : Paint(slow)) \/ UNCHANGED pluginsVars
      PROVE  Recording'
  <2>1. /\ UNCHANGED <<plugins, recording, emitted, events, timer, report>>
        /\ script' = script \/ script' = "missing"
        /\ core' = core \/ (core = "loading" /\ core' = "missing")
    BY <1>2 DEF CoreFails, RecorderFails, HostWraps, Navigate, Resource, Throw, Paint, recordVars, pluginsVars
  <2> QED BY <1>a, <1>w, <2>1 DEF Recording
<1>3. CASE RecorderLoads
  <2>1. /\ UNCHANGED <<core, timer>> /\ script' = "loaded" /\ script = "loading"
    BY <1>3 DEF RecorderLoads
  <2>2. ~recording /\ emitted = 0 /\ events = <<>>
    BY <2>1 DEF Recording
  <2>3. CASE core \in {"running", "aborted"}
    <3>1. recording' = TRUE /\ "record" \in plugins' /\ emitted' = 1 /\ Collect(<<1>>)
      BY <1>3, <2>3 DEF RecorderLoads
    <3>2. core = "running" => Whole(report', <<>>, 1)
      <4> SUFFICES ASSUME core = "running" PROVE Whole(report', <<>>, 1)
        OBVIOUS
      <4>1. Whole(report, Append(<<>>, 0 + 1), 0 + 1)
        BY <1>0, <1>w, <2>2, WholeEmitted
      <4>2. Append(<<>>, 0 + 1) = <<1>> /\ 0 + 1 = 1 /\ 1 \in Nat
        OBVIOUS
      <4>3. Whole(report, <<1>>, 1)
        BY <4>1, <4>2
      <4> QED BY <1>0, <3>1, <4>2, <4>3, CollectWhole
    <3>3. events' = <<>>
      BY <3>1, CollectAdds
    <3> QED BY <1>a, <2>1, <2>3, <3>1, <3>2, <3>3
  <2>4. CASE core \notin {"running", "aborted"}
    <3>1. UNCHANGED <<plugins, recording, emitted, events, report>>
      BY <1>3, <2>4 DEF RecorderLoads
    <3> QED BY <1>a, <2>1, <2>2, <2>4, <3>1
  <2> QED BY <2>3, <2>4
<1>4. CASE AbortPage
  <2>1. core' = "aborted" /\ recording' = FALSE /\ events' = <<>> /\ UNCHANGED <<script, emitted>>
    BY <1>4 DEF AbortPage, Destroy
  <2> QED BY <1>a, <2>1 DEF Recording
<1>5. CASE Emit
  <2>1. /\ recording /\ events' = Append(events, emitted + 1) /\ emitted' = emitted + 1
        /\ timer' = (IF timer = "none" THEN "armed" ELSE timer)
        /\ UNCHANGED <<core, script, plugins, recording, report>>
    BY <1>5 DEF Emit, Buffered
  <2>2. timer' = "armed"
    BY <2>1 DEF Typed, RecordTypes
  <2>3. core = "running" => Whole(report', events', emitted')
    BY <1>0, <1>w, <2>1, WholeEmitted
  <2>4. "record" \in plugins /\ script # "loading" /\ core \notin {"loading", "missing"}
    BY <2>1 DEF Recording, Unstarted
  <2> QED BY <1>a, <2>1, <2>2, <2>3, <2>4
<1>6. ASSUME EmitFull, UNCHANGED <<core, script, plugins, recording>>
      PROVE  Recording'
  <2>1. "record" \in plugins /\ script # "loading" /\ core \notin {"loading", "missing"}
    BY <1>6, EmitFullWhole DEF Recording, Unstarted
  <2>2. /\ events' = <<>> /\ emitted' = emitted + 1 /\ timer' = "none" /\ recording
        /\ core = "running" => Whole(report', <<>>, emitted + 1)
    BY <1>6, EmitFullWhole
  <2> QED BY <1>a, <1>6, <2>1, <2>2
<1>7. CASE Checkout
  BY <1>6, <1>7 DEF Checkout
<1>8. ASSUME NEW i \in DOMAIN waiting, NEW by \in {"frame", "clock"}, Snapshot(i, by)
      PROVE  Recording'
  <2>1. UNCHANGED <<core, script, plugins, recording>>
    BY <1>8 DEF Snapshot
  <2>2. EmitFull \/ UNCHANGED <<emitted, timer, events, report>>
    BY <1>8 DEF Snapshot
  <2>3. CASE UNCHANGED <<emitted, timer, events, report>>
    BY <1>a, <1>w, <2>1, <2>3 DEF Recording
  <2> QED BY <1>6, <2>1, <2>2, <2>3
<1>9. CASE TimerFires
  <2>1. Collect(events) /\ UNCHANGED <<core, script, plugins, recording, emitted>>
    BY <1>9 DEF TimerFires
  <2>2. events' = <<>>
    BY <2>1, CollectAdds
  <2>3. core = "running" => Whole(report', <<>>, emitted)
    BY <1>0, <1>w, <2>1, CollectWhole
  <2> QED BY <1>a, <2>1, <2>2, <2>3 DEF Recording
<1>b. ASSUME NEW left \in {events, <<>>}, Seen(left), report' \in Seq(PageRecord),
             core = "running" => Whole(report', left, emitted),
             UNCHANGED <<core, script, plugins, recording>>
      PROVE  Recording'
  <2>1. left \in Seq(Nat) /\ (left # <<>> => timer = "armed" /\ "record" \in plugins)
    BY <1>0 DEF Recording
  <2>2. core = "running" => Whole(report', events', emitted')
    BY <1>b, <2>1, SeenWhole
  <2>3. /\ events' # <<>> => timer' = "armed"
        /\ ~recording => events' = left /\ emitted' = emitted
        /\ recording \/ events' = left
    BY <1>b, <2>1, SeenTimed
  <2>4. recording' \/ events' # <<>> => "record" \in plugins'
    BY <1>b, <2>1, <2>3 DEF Recording
  <2>5. core' \in {"loading", "missing"} => emitted' = 0
    BY <1>b, <2>3 DEF Recording, Unstarted
  <2>6. script' = "loading" => ~recording' /\ emitted' = 0 /\ events' = <<>>
    BY <1>b, <2>3 DEF Recording
  <2>7. ~recording' /\ core' = "running" => emitted' = 0
    BY <1>b, <2>3 DEF Recording
  <2> QED BY <1>a, <1>b, <2>2, <2>3, <2>4, <2>5, <2>6, <2>7
<1>10. CASE Hide
  <2> DEFINE left == IF "record" \in plugins /\ ~hiddenDone THEN <<>> ELSE events
  <2>1. Seen(left) /\ UNCHANGED <<core, script, plugins, recording>>
    BY <1>10 DEF Hide
  <2>2. report' \in Seq(PageRecord) /\ (core = "running" => Whole(report', left, emitted))
    <3>1. CASE core = "running"
      <4> DEFINE first == report \o PerfRecord
                 second == first \o TrackRecord(HideBatch)
      <4>1. report' = second \o Lifecycle("visibilitychange")
        <5>1. report' = report \o HideRecords
          BY <1>10, <3>1 DEF Hide, Reported
        <5> QED BY <1>0, <5>1, HideAdds
      <4>2. first \in Seq(PageRecord) /\ Whole(first, events, emitted)
        BY <1>0, <1>w, <3>1, PerfRecordIsSilent, ToldSilent, WholeSilent
      <4>3. second \in Seq(PageRecord) /\ Whole(second, left, emitted)
        <5> HIDE DEF first
        <5>1. CASE "record" \in plugins /\ ~hiddenDone
          <6>1. HideBatch = events /\ left = <<>>
            BY <5>1 DEF HideBatch, Leftover
          <6> HIDE DEF left
          <6> QED BY <1>0, <4>2, <6>1, WholeCollected, ToldTrack
        <5>2. CASE ~("record" \in plugins /\ ~hiddenDone)
          <6>1. HideBatch = <<>> /\ left = events
            BY <5>2 DEF HideBatch, Leftover
          <6>2. second = first
            BY <4>2, <6>1 DEF TrackRecord
          <6> HIDE DEF left, second
          <6> QED BY <4>2, <6>1, <6>2
        <5> QED BY <5>1, <5>2
      <4> HIDE DEF left, second
      <4>4. Lifecycle("visibilitychange") \in Silent
        BY LifecycleIsSilent
      <4>5. second \o Lifecycle("visibilitychange") \in Seq(PageRecord)
        BY <4>3, <4>4, ToldSilent
      <4>6. left \in Seq(Nat)
        BY <1>0 DEF left
      <4>7. Whole(second \o Lifecycle("visibilitychange"), left, emitted)
        BY <4>3, <4>4, <4>6, WholeSilent
      <4> QED BY <4>1, <4>5, <4>7
    <3>2. CASE core # "running"
      <4>1. report' = report
        BY <1>10, <3>2 DEF Hide, Reported
      <4> QED BY <1>0, <3>2, <4>1
    <3> QED BY <3>1, <3>2
  <2>3. left \in {events, <<>>}
    OBVIOUS
  <2> HIDE DEF left
  <2> QED BY <1>b, <2>1, <2>2, <2>3
<1>11. CASE Show
  <2>1. Seen(events) /\ UNCHANGED <<core, script, plugins, recording, report>>
    BY <1>11 DEF Show
  <2>2. report' \in Seq(PageRecord) /\ (core = "running" => Whole(report', events, emitted))
    BY <1>0, <1>w, <2>1
  <2>3. events \in {events, <<>>}
    OBVIOUS
  <2> QED BY <1>b, <2>1, <2>2, <2>3
<1>12. CASE PageHide
  <2> DEFINE left == IF "record" \in plugins THEN <<>> ELSE events
  <2>1. Seen(left) /\ UNCHANGED <<core, script, plugins, recording>>
    BY <1>12 DEF PageHide
  <2>2. report' \in Seq(PageRecord) /\ (core = "running" => Whole(report', left, emitted))
    <3>1. CASE core = "running"
      <4> DEFINE first == report \o TrackRecord(Leftover)
      <4>1. report' = first \o Lifecycle("pagehide")
        <5>1. report' = report \o (TrackRecord(Leftover) \o Lifecycle("pagehide"))
          BY <1>12, <3>1 DEF PageHide, Reported
        <5> QED BY <1>0, <5>1, PageHideAdds
      <4>2. first \in Seq(PageRecord) /\ Whole(first, left, emitted)
        <5>1. CASE "record" \in plugins
          <6>1. Leftover = events /\ left = <<>>
            BY <5>1 DEF Leftover
          <6> HIDE DEF left
          <6> QED BY <1>0, <1>w, <3>1, <6>1, WholeCollected, ToldTrack
        <5>2. CASE "record" \notin plugins
          <6>1. Leftover = <<>> /\ left = events
            BY <5>2 DEF Leftover
          <6>2. first = report
            BY <1>0, <6>1 DEF TrackRecord
          <6> HIDE DEF left, first
          <6> QED BY <1>0, <1>w, <3>1, <6>1, <6>2
        <5> QED BY <5>1, <5>2
      <4> HIDE DEF left, first
      <4>3. Lifecycle("pagehide") \in Silent
        BY LifecycleIsSilent
      <4>4. first \o Lifecycle("pagehide") \in Seq(PageRecord)
        BY <4>2, <4>3, ToldSilent
      <4>5. left \in Seq(Nat)
        BY <1>0 DEF left
      <4>6. Whole(first \o Lifecycle("pagehide"), left, emitted)
        BY <4>2, <4>3, <4>5, WholeSilent
      <4> QED BY <4>1, <4>4, <4>6
    <3>2. CASE core # "running"
      <4>1. report' = report
        BY <1>12, <3>2 DEF PageHide, Reported
      <4> QED BY <1>0, <3>2, <4>1
    <3> QED BY <3>1, <3>2
  <2>3. left \in {events, <<>>}
    OBVIOUS
  <2> HIDE DEF left
  <2> QED BY <1>b, <2>1, <2>2, <2>3
<1> QED BY <1>1, <1>2, <1>3, <1>4, <1>5, <1>7, <1>8, <1>9, <1>10, <1>11, <1>12 DEF PluginsNext

-----------------------------------------------------------------------------
(***************************************************************************)
(* The deferred snapshots.                                                 *)
(***************************************************************************)
LEMMA SnapshotsInit == PluginsInit => SnapshotsOnce
<1> SUFFICES ASSUME PluginsInit PROVE SnapshotsOnce
  OBVIOUS
<1>1. taken = <<>> /\ DOMAIN taken = {}
  BY DEF PluginsInit
<1> QED BY <1>1 DEF SnapshotsOnce, IsInjective

LEMMA SnapshotsStep == SnapshotsOnce /\ Typed /\ [PluginsNext]_pluginsVars => SnapshotsOnce'
<1> SUFFICES ASSUME SnapshotsOnce, Typed, [PluginsNext]_pluginsVars PROVE SnapshotsOnce'
  OBVIOUS
<1>0. waiting \in Seq(Waiter) /\ taken \in Seq(Nat)
  BY DEF Typed, RecordTypes, Waiter
<1>a. ASSUME UNCHANGED taken, Len(waiting') \in Nat, Len(waiting') >= Len(waiting),
             DOMAIN waiting' = 1 .. Len(waiting'),
             \A k \in DOMAIN waiting : waiting[k].done => waiting'[k].done
      PROVE  SnapshotsOnce'
  <2>1. DOMAIN waiting \subseteq DOMAIN waiting'
    BY <1>0, <1>a
  <2> QED BY <1>a, <2>1 DEF SnapshotsOnce, IsInjective
<1>b. ASSUME NEW wanting \in BOOLEAN, Deferred(wanting), UNCHANGED taken
      PROVE  SnapshotsOnce'
  <2> DEFINE w == [frame |-> TRUE, clock |-> TRUE, done |-> FALSE]
  <2>1. w \in Waiter
    BY DEF Waiter
  <2>2. waiting' = Append(waiting, w) \/ waiting' = waiting
    BY <1>b DEF Deferred
  <2> HIDE DEF w
  <2>3. Len(waiting') \in Nat /\ Len(waiting') >= Len(waiting) /\ DOMAIN waiting' = 1 .. Len(waiting')
        /\ \A k \in DOMAIN waiting : waiting'[k] = waiting[k]
    BY <1>0, <2>1, <2>2
  <2> QED BY <1>a, <1>b, <2>3
<1>1. ASSUME NEW i \in DOMAIN waiting, NEW by \in {"frame", "clock"}, Snapshot(i, by)
      PROVE  SnapshotsOnce'
  <2>1. /\ waiting' \in Seq(Waiter) /\ Len(waiting') = Len(waiting)
        /\ \A k \in DOMAIN waiting : k # i => waiting'[k] = waiting[k]
        /\ waiting'[i].done
    BY <1>1, SnapshotShape DEF Typed
  <2>2. \/ ~waiting[i].done /\ taken' = Append(taken, i)
        \/ UNCHANGED taken
    BY <1>1, SnapshotShape DEF Typed
  <2>3. \A k \in DOMAIN waiting : waiting[k].done => waiting'[k].done
    BY <2>1
  <2>4. DOMAIN waiting' = DOMAIN waiting
    BY <1>0, <2>1
  <2>5. CASE UNCHANGED taken
    BY <2>3, <2>4, <2>5 DEF SnapshotsOnce, IsInjective
  <2>6. CASE ~waiting[i].done /\ taken' = Append(taken, i)
    <3>1. i \in Nat /\ DOMAIN taken = 1 .. Len(taken) /\ Len(taken) \in Nat
      BY <1>0
    <3>2. /\ DOMAIN taken' = 1 .. Len(taken) + 1 /\ taken'[Len(taken) + 1] = i
          /\ \A k \in 1 .. Len(taken) : taken'[k] = taken[k]
      BY <1>0, <2>6, <3>1
    <3>3. \A k \in 1 .. Len(taken) + 1 : k \in 1 .. Len(taken) \/ k = Len(taken) + 1
      BY <3>1
    <3>4. \A k \in 1 .. Len(taken) : taken[k] # i
      BY <2>6, <3>1 DEF SnapshotsOnce
    <3>5. \A k \in DOMAIN taken' : taken'[k] \in DOMAIN waiting' /\ waiting'[taken'[k]].done
      BY <2>1, <2>3, <2>4, <3>1, <3>2, <3>3 DEF SnapshotsOnce
    <3>6. \A k, l \in DOMAIN taken' : taken'[k] = taken'[l] => k = l
      BY <3>1, <3>2, <3>3, <3>4 DEF SnapshotsOnce, IsInjective
    <3> QED BY <3>5, <3>6 DEF SnapshotsOnce, IsInjective
  <2> QED BY <2>2, <2>5, <2>6
<1>2. CASE Navigate
  BY <1>b, <1>2 DEF Navigate
<1>3. CASE Show
  <2>1. PICK wanting \in BOOLEAN : Deferred(recording /\ wanting)
    BY <1>3 DEF Show
  <2>2. (recording /\ wanting) \in BOOLEAN /\ UNCHANGED taken
    BY <1>3 DEF Show
  <2> QED BY <1>b, <2>1, <2>2
<1>4. ASSUME UNCHANGED <<waiting, taken>>
      PROVE  SnapshotsOnce'
  BY <1>4 DEF SnapshotsOnce, IsInjective
<1>5. ASSUME \/ CoreLoads \/ CoreFails \/ RecorderLoads \/ RecorderFails \/ AbortPage \/ HostWraps
             \/ Emit \/ Checkout \/ TimerFires \/ Resource \/ Hide \/ PageHide
             \/ (\E kind \in Kind : Throw(kind))
             \/ (\E slow \in BOOLEAN : Paint(slow)) \/ UNCHANGED pluginsVars
      PROVE  UNCHANGED <<waiting, taken>>
  BY <1>5 DEF CoreLoads, CoreFails, RecorderLoads, RecorderFails, AbortPage, HostWraps, Emit, Checkout,
     TimerFires, Resource, Hide, PageHide, Throw, Paint, recordVars, pluginsVars
<1> QED BY <1>1, <1>2, <1>3, <1>4, <1>5 DEF PluginsNext

-----------------------------------------------------------------------------
(***************************************************************************)
(* The invariant.                                                          *)
(***************************************************************************)
LEMMA PluginsInvParts ==
  PluginsInv <=> ErrorsInv /\ Typed /\ Unstarted /\ Sealed /\ Recording /\ SnapshotsOnce
BY DEF PluginsInv, ErrorsInv, Typed

LEMMA PluginsInvHolds == PluginsSpec => []PluginsInv
<1>1. PluginsInit => PluginsInv
  BY ErrorsInit, TypesInit, UnstartedInit, SealedInit, RecordingInit, SnapshotsInit, PluginsInvParts
<1>2. PluginsInv /\ [PluginsNext]_pluginsVars => PluginsInv'
  <2> SUFFICES ASSUME PluginsInv, [PluginsNext]_pluginsVars PROVE PluginsInv'
    OBVIOUS
  <2>1. ErrorsInv /\ Typed /\ Unstarted /\ Sealed /\ Recording /\ SnapshotsOnce
    BY PluginsInvParts
  <2>2. ErrorsInv' /\ Typed' /\ Unstarted' /\ Sealed' /\ Recording' /\ SnapshotsOnce'
    BY <2>1, ErrorsStep, TypesStep, UnstartedStep, SealedStep, RecordingStep, SnapshotsStep
  <2> QED BY <2>2 DEF PluginsInv, ErrorsInv, Typed
<1> QED BY <1>1, <1>2, PTL DEF PluginsSpec

LEMMA RecordingHolds == PluginsInv => RecordingIsWhole
BY DEF PluginsInv, Recording, SnapshotsOnce, RecordingIsWhole

LEMMA PerfHolds == PluginsInv => PerfLeavesWithTheFlush
<1> SUFFICES ASSUME PluginsInv PROVE PerfLeavesWithTheFlush
  OBVIOUS
<1> DEFINE perfs == {i \in DOMAIN report : report[i].type = "perf"}
<1>1. PerfFirst(report) /\ (perf.fcp = "fast" => ~perf.resources)
  BY DEF PluginsInv, Sealed
<1>2. Cardinality(perfs) <= 1
  <2>1. CASE perfs = {}
    <3>1. Cardinality(perfs) = 0
      BY <2>1, FS_EmptySet
    <3> QED BY <3>1
  <2>2. CASE perfs # {}
    <3>1. PICK i \in perfs : TRUE
      BY <2>2
    <3>2. perfs = {i}
      BY <1>1, <3>1 DEF PerfFirst
    <3> HIDE DEF perfs
    <3>3. Cardinality(perfs) = 1
      BY <3>2, FS_Singleton
    <3> QED BY <3>3
  <2> QED BY <2>1, <2>2
<1>3. \A i \in {k \in DOMAIN report : report[k].type = "lifecycle"} :
        report[i].t = "visibilitychange" => \E j \in perfs : j < i
  BY <1>1 DEF PerfFirst
<1> QED BY <1>1, <1>2, <1>3 DEF PerfLeavesWithTheFlush

(* An error written to the console and a rejection have one reporter at     *)
(* most, and a running SDK with errors enabled misses none, whatever the    *)
(* page and the host do in between (injector.ts:14).                        *)
THEOREM ErrorsAlwaysHaveOneReporter == PluginsSpec => []ErrorsHaveOneReporter
<1>1. PluginsInv => ErrorsHaveOneReporter
  BY ErrorsHold, PluginsInvParts
<1> QED BY <1>1, PluginsInvHolds, PTL

(* What the recorder reported and what it buffers are the events rrweb      *)
(* emitted, each once and in order; what is buffered has a timer; and a     *)
(* deferred snapshot is taken once (operationRecord.ts, emit and collect).  *)
THEOREM RecordingIsAlwaysWhole == PluginsSpec => []RecordingIsWhole
BY RecordingHolds, PluginsInvHolds, PTL

(* The performance record leaves once, ahead of what flushes a hidden page, *)
(* and a fast page keeps no resources (perf.ts:99 and 116).                 *)
THEOREM PerfAlwaysLeavesWithTheFlush == PluginsSpec => []PerfLeavesWithTheFlush
BY PerfHolds, PluginsInvHolds, PTL

-----------------------------------------------------------------------------
(***************************************************************************)
(* HostHooks.  A call has one number, from its start to its end; nothing   *)
(* is said of it before it ends; and what is said then is never changed.   *)
(***************************************************************************)
\* A call is under way on an object from its open to its end.
UnderWay(X) == X.phase \in {"opened", "sent"}

XhrType == [phase : {"new", "opened", "sent", "done"}, call : Nat, opens : Nat,
            triggerPage : Nat, from : Nat, body : Int]
RequestType == [call : Nat, from : Nat, body : Int, own : BOOLEAN]
EndType == [call : Nat, outcome : Outcomes, from : Nat, body : Int, response : Int,
            opens : Nat, own : BOOLEAN, wanted : BOOLEAN]
\* What a request is reported as, and what an error is.
ApiReport == [call : Nat, type : {"success", "fail", "abort", "error", "timeout"},
              page : Nat, body : Int, response : Int]
ErrorReport == [call : Nat, type : {"thrown"}, name : Phrase, given : Reason,
                message : Phrase, extra : {"json", "circular", "null"}]

HookReport == ApiReport \cup ErrorReport

HostTypes ==
  /\ options \in [success : BOOLEAN, fail : BOOLEAN] /\ route \in {1, 2} /\ calls \in Nat
  /\ xhr \in [Xhr -> XhrType] /\ requests \subseteq RequestType

LogTypes == reported \in Seq(HookReport) /\ finished \in Seq(EndType)

InUse(X, rs, c) ==
  \/ \E x \in Xhr : UnderWay(X[x]) /\ X[x].call = c
  \/ \E r \in rs : r.call = c

\* A call has one number, and one request; an object with a call under way
\* knows the page it was opened at.
Numbered ==
  /\ \A x \in Xhr : UnderWay(xhr[x]) =>
       /\ xhr[x].call <= calls /\ xhr[x].opens >= 1
       /\ xhr[x].triggerPage = xhr[x].from /\ xhr[x].from # Nowhere
  /\ \A x, y \in Xhr : UnderWay(xhr[x]) /\ UnderWay(xhr[y]) /\ xhr[x].call = xhr[y].call => x = y
  /\ \A r \in requests : r.call <= calls
  /\ \A r, q \in requests : r.call = q.call => r = q
  /\ \A x \in Xhr, r \in requests : UnderWay(xhr[x]) => xhr[x].call # r.call

\* Nothing is said of a call before it ends.
Ended ==
  /\ \A i \in DOMAIN finished : finished[i].call <= calls /\ ~InUse(xhr, requests, finished[i].call)
  /\ \A j \in DOMAIN reported : reported[j].call <= calls /\ ~InUse(xhr, requests, reported[j].call)

Logged == LogTypes /\ Ended /\ RequestsAreReported

HookInv == HostTypes /\ Numbered /\ Logged

\* A report tells of an end what it must.
TellsOf(r, e) ==
  /\ r.page = e.from
  /\ e.outcome # "ok" =>
       (e.body \in Nat => r.body = e.body) /\ (e.response \in Nat => r.response = e.response)
  /\ e.outcome = "ok" => Fits(r.body, MaxFieldKb) /\ Fits(r.response, ResponseLimit)

\* IsReported, of any log and options.
IsTold(log, opts, e) ==
  LET of == {j \in DOMAIN log : log[j].call = e.call}
  IN  /\ e.wanted => of # {}
      /\ e.own => of = {}
      /\ of # {} => IF e.outcome = "ok" THEN e.wanted ELSE opts.fail
      /\ e.outcome = "ok" /\ e.opens = 1 => \A j, k \in of : j = k
      /\ \A j \in of : TellsOf(log[j], e)

\* What is appended to a log when a request ends.
Closes(more, opts, e) ==
  /\ \A k \in 1 .. Len(more) : more[k].call = e.call /\ TellsOf(more[k], e)
  /\ e.wanted => Len(more) > 0
  /\ e.own => Len(more) = 0
  /\ Len(more) > 0 => IF e.outcome = "ok" THEN e.wanted ELSE opts.fail
  /\ e.outcome = "ok" /\ e.opens = 1 => Len(more) <= 1

\* An error that is reported has a name and a text, as far as the host gave
\* them.
IsNamed(r) ==
  /\ r.name = "" => r.given.is = "Error" /\ r.given.name = ""
  /\ r.message = "" => r.given.is = "string" /\ r.given.message = ""


-----------------------------------------------------------------------------
LEMMA KeptTold ==
  ASSUME NEW log \in Seq(HookReport), NEW more \in Seq(HookReport), NEW opts, NEW e,
         IsTold(log, opts, e), \A k \in 1 .. Len(more) : more[k].call # e.call
  PROVE  IsTold(log \o more, opts, e)
<1> DEFINE all == log \o more
           of == {j \in DOMAIN log : log[j].call = e.call}
           now == {j \in DOMAIN all : all[j].call = e.call}
<1>1. /\ all \in Seq(HookReport) /\ Len(all) = Len(log) + Len(more)
      /\ DOMAIN all = 1 .. Len(all) /\ DOMAIN log = 1 .. Len(log)
      /\ Len(log) \in Nat /\ Len(more) \in Nat
      /\ \A j \in 1 .. Len(log) : all[j] = log[j]
      /\ \A j \in 1 .. Len(all) : j > Len(log) => all[j] = more[j - Len(log)]
  OBVIOUS
<1> HIDE DEF all
<1>2. \A j \in now : j \in of /\ all[j] = log[j]
  <2> SUFFICES ASSUME NEW j \in now PROVE j \in of /\ all[j] = log[j]
    OBVIOUS
  <2>1. CASE j <= Len(log)
    BY <1>1, <2>1
  <2>2. CASE j > Len(log)
    <3>1. j - Len(log) \in 1 .. Len(more)
      BY <1>1, <2>2
    <3> QED BY <1>1, <2>2, <3>1
  <2> QED BY <1>1, <2>1, <2>2
<1>3. \A j \in of : j \in now
  BY <1>1
<1>4. IsTold(all, opts, e) <=>
        /\ e.wanted => now # {}
        /\ e.own => now = {}
        /\ now # {} => IF e.outcome = "ok" THEN e.wanted ELSE opts.fail
        /\ e.outcome = "ok" /\ e.opens = 1 => \A j, k \in now : j = k
        /\ \A j \in now : TellsOf(all[j], e)
  BY DEF IsTold
<1>5. /\ e.wanted => of # {}
      /\ e.own => of = {}
      /\ of # {} => IF e.outcome = "ok" THEN e.wanted ELSE opts.fail
      /\ e.outcome = "ok" /\ e.opens = 1 => \A j, k \in of : j = k
      /\ \A j \in of : TellsOf(log[j], e)
  BY DEF IsTold
<1> HIDE DEF of, now
<1>6. IsTold(all, opts, e)
  BY <1>2, <1>3, <1>4, <1>5
<1> QED BY <1>6 DEF all

LEMMA NewTold ==
  ASSUME NEW log \in Seq(HookReport), NEW more \in Seq(HookReport), NEW opts, NEW e,
         \A j \in 1 .. Len(log) : log[j].call # e.call, Closes(more, opts, e)
  PROVE  IsTold(log \o more, opts, e)
<1> DEFINE all == log \o more
           now == {j \in DOMAIN all : all[j].call = e.call}
<1>1. /\ all \in Seq(HookReport) /\ Len(all) = Len(log) + Len(more)
      /\ DOMAIN all = 1 .. Len(all)
      /\ Len(log) \in Nat /\ Len(more) \in Nat
      /\ \A j \in 1 .. Len(log) : all[j] = log[j]
      /\ \A j \in 1 .. Len(all) : j > Len(log) => all[j] = more[j - Len(log)]
  OBVIOUS
<1> HIDE DEF all
<1>2. \A j \in now : j > Len(log) /\ j <= Len(log) + Len(more) /\ j \in Nat
                     /\ all[j] = more[j - Len(log)] /\ j - Len(log) \in 1 .. Len(more)
  BY <1>1
<1>3. Len(more) > 0 => Len(log) + 1 \in now
  <2> SUFFICES ASSUME Len(more) > 0 PROVE Len(log) + 1 \in now
    OBVIOUS
  <2>1. Len(log) + 1 \in 1 .. Len(all) /\ 1 \in 1 .. Len(more)
    BY <1>1
  <2>2. all[Len(log) + 1] = more[1]
    BY <1>1, <2>1
  <2>3. more[1].call = e.call
    BY <2>1 DEF Closes
  <2> QED BY <1>1, <2>1, <2>2, <2>3
<1>4. IsTold(all, opts, e) <=>
        /\ e.wanted => now # {}
        /\ e.own => now = {}
        /\ now # {} => IF e.outcome = "ok" THEN e.wanted ELSE opts.fail
        /\ e.outcome = "ok" /\ e.opens = 1 => \A j, k \in now : j = k
        /\ \A j \in now : TellsOf(all[j], e)
  BY DEF IsTold
<1> HIDE DEF now
<1>5. now # {} => Len(more) > 0
  BY <1>1, <1>2
<1>6. e.outcome = "ok" /\ e.opens = 1 => \A j, k \in now : j = k
  <2> SUFFICES ASSUME e.outcome = "ok", e.opens = 1, NEW j \in now, NEW k \in now PROVE j = k
    OBVIOUS
  <2>1. Len(more) <= 1
    BY DEF Closes
  <2> QED BY <1>1, <1>2, <2>1
<1>7. \A j \in now : TellsOf(all[j], e)
  BY <1>2 DEF Closes
<1>8. /\ e.wanted => Len(more) > 0
      /\ e.own => Len(more) = 0
      /\ Len(more) > 0 => IF e.outcome = "ok" THEN e.wanted ELSE opts.fail
  BY DEF Closes
<1>9. IsTold(all, opts, e)
  BY <1>1, <1>3, <1>4, <1>5, <1>6, <1>7, <1>8
<1> QED BY <1>9 DEF all

LEMMA ReportedIsTold ==
  /\ RequestsAreReported <=>
       /\ \A i \in DOMAIN finished : IsTold(reported, options, finished[i])
       /\ \A i \in DOMAIN reported : reported[i].type = "thrown" => IsNamed(reported[i])
  /\ RequestsAreReported' <=>
       /\ \A i \in DOMAIN finished' : IsTold(reported', options', finished'[i])
       /\ \A i \in DOMAIN reported' : reported'[i].type = "thrown" => IsNamed(reported'[i])
BY DEF RequestsAreReported, IsReported, IsTold, TellsOf, IsNamed

\* What a report says of a request.
Says(r, call, type, at, body, response) ==
  /\ r \in ApiReport /\ r.call = call /\ r.page = at /\ r.type = type
  /\ type # "success" =>
       (body \in Nat => r.body = body) /\ (response \in Nat => r.response = response)
  /\ type = "success" => Fits(r.body, MaxFieldKb) /\ Fits(r.response, ResponseLimit)

LEMMA CollectTells ==
  ASSUME NEW call \in Nat, NEW type \in {"success", "fail", "abort", "error", "timeout"},
         NEW at \in Nat, NEW body \in Int, NEW response \in Int
  PROVE  Says(CollectInfo(call, type, at, body, response), call, type, at, body, response)
BY HooksAssumption
DEF Says, CollectInfo, NormalizeBody, NormalizeResponse, Fits, ApiReport, HooksAssumption, Infinity,
    Exceeds, NoText, NoContent, TypeTag

LEMMA ContentTyped == Contents \cup {0} \subseteq Int
BY HooksAssumption DEF Contents, NoText, NoContent, HooksAssumption


-----------------------------------------------------------------------------
(***************************************************************************)
(* A request ends.                                                         *)
(***************************************************************************)
LEMMA EndKeeps ==
  ASSUME HookInv, NEW e \in EndType, NEW more \in Seq(HookReport),
         InUse(xhr, requests, e.call), e.call <= calls,
         Closes(more, options, e), \A k \in 1 .. Len(more) : more[k].type # "thrown",
         reported' = reported \o more, finished' = Append(finished, e),
         UNCHANGED <<options, calls>>, ~InUse(xhr', requests', e.call),
         \A c : InUse(xhr', requests', c) => InUse(xhr, requests, c)
  PROVE  Logged'
<1>1. reported \in Seq(HookReport) /\ finished \in Seq(EndType)
  BY DEF HookInv, HostTypes, Logged, LogTypes
<1>2. /\ DOMAIN reported = 1 .. Len(reported) /\ DOMAIN finished = 1 .. Len(finished)
      /\ Len(reported) \in Nat /\ Len(finished) \in Nat /\ Len(more) \in Nat
      /\ reported' \in Seq(HookReport) /\ finished' \in Seq(EndType)
      /\ DOMAIN reported' = 1 .. Len(reported) + Len(more)
      /\ DOMAIN finished' = 1 .. Len(finished) + 1
      /\ \A j \in 1 .. Len(reported) : reported'[j] = reported[j]
      /\ \A j \in 1 .. Len(reported) + Len(more) : j > Len(reported) =>
            reported'[j] = more[j - Len(reported)]
      /\ \A i \in 1 .. Len(finished) : finished'[i] = finished[i]
      /\ finished'[Len(finished) + 1] = e
  BY <1>1
<1>3. /\ \A i \in 1 .. Len(finished) : finished[i].call <= calls /\ ~InUse(xhr, requests, finished[i].call)
      /\ \A j \in 1 .. Len(reported) : reported[j].call <= calls /\ ~InUse(xhr, requests, reported[j].call)
  BY <1>2 DEF HookInv, Logged, Ended
<1>4. \A i \in DOMAIN finished' : i \in 1 .. Len(finished) \/ i = Len(finished) + 1
  BY <1>2
<1>5. \A j \in DOMAIN reported' :
        \/ j \in 1 .. Len(reported)
        \/ j > Len(reported) /\ j \in 1 .. Len(reported) + Len(more) /\ j - Len(reported) \in 1 .. Len(more)
  BY <1>2
<1>6. \A k \in 1 .. Len(more) : more[k].call = e.call
  BY DEF Closes
<1>7. \A i \in DOMAIN finished' : finished'[i].call <= calls' /\ ~InUse(xhr', requests', finished'[i].call)
  <2> SUFFICES ASSUME NEW i \in DOMAIN finished'
               PROVE  finished'[i].call <= calls' /\ ~InUse(xhr', requests', finished'[i].call)
    OBVIOUS
  <2>1. CASE i \in 1 .. Len(finished)
    BY <1>2, <1>3, <2>1
  <2>2. CASE i = Len(finished) + 1
    BY <1>2, <2>2
  <2> QED BY <1>4, <2>1, <2>2
<1>8. \A j \in DOMAIN reported' : reported'[j].call <= calls' /\ ~InUse(xhr', requests', reported'[j].call)
  <2> SUFFICES ASSUME NEW j \in DOMAIN reported'
               PROVE  reported'[j].call <= calls' /\ ~InUse(xhr', requests', reported'[j].call)
    OBVIOUS
  <2>1. CASE j \in 1 .. Len(reported)
    BY <1>2, <1>3, <2>1
  <2>2. CASE j > Len(reported) /\ j \in 1 .. Len(reported) + Len(more)
             /\ j - Len(reported) \in 1 .. Len(more)
    BY <1>2, <1>6, <2>2
  <2> QED BY <1>5, <2>1, <2>2
<1>9. \A i \in DOMAIN finished' : IsTold(reported', options', finished'[i])
  <2> SUFFICES ASSUME NEW i \in DOMAIN finished' PROVE IsTold(reported', options', finished'[i])
    OBVIOUS
  <2>1. CASE i \in 1 .. Len(finished)
    <3>1. IsTold(reported, options, finished[i])
      BY <1>2, <2>1, ReportedIsTold DEF HookInv, Logged
    <3>2. \A k \in 1 .. Len(more) : more[k].call # finished[i].call
      BY <1>3, <1>6, <2>1
    <3>3. IsTold(reported \o more, options, finished[i])
      BY <1>1, <3>1, <3>2, KeptTold
    <3> QED BY <1>2, <2>1, <3>3
  <2>2. CASE i = Len(finished) + 1
    <3>1. \A j \in 1 .. Len(reported) : reported[j].call # e.call
      BY <1>3
    <3>2. IsTold(reported \o more, options, e)
      BY <1>1, <3>1, NewTold
    <3> QED BY <1>2, <2>2, <3>2
  <2> QED BY <1>4, <2>1, <2>2
<1>10. \A j \in DOMAIN reported' : reported'[j].type = "thrown" => IsNamed(reported'[j])
  <2> SUFFICES ASSUME NEW j \in DOMAIN reported', reported'[j].type = "thrown"
               PROVE  IsNamed(reported'[j])
    OBVIOUS
  <2>1. CASE j \in 1 .. Len(reported)
    BY <1>2, <2>1, ReportedIsTold DEF HookInv, Logged
  <2>2. CASE j > Len(reported) /\ j \in 1 .. Len(reported) + Len(more)
             /\ j - Len(reported) \in 1 .. Len(more)
    BY <1>2, <2>2
  <2> QED BY <1>5, <2>1, <2>2
<1> QED BY <1>2, <1>7, <1>8, <1>9, <1>10, ReportedIsTold DEF Logged, LogTypes, Ended

(***************************************************************************)
(* Something else is done: what ended is told as before.                   *)
(***************************************************************************)
LEMMA OtherKeeps ==
  ASSUME HookInv, UNCHANGED <<options, reported, finished>>, calls' \in Nat, calls' >= calls,
         \A c : InUse(xhr', requests', c) => InUse(xhr, requests, c) \/ c > calls
  PROVE  Logged'
<1>1. reported \in Seq(HookReport) /\ finished \in Seq(EndType) /\ calls \in Nat
  BY DEF HookInv, HostTypes, Logged, LogTypes
<1>2. /\ \A i \in DOMAIN finished : finished[i].call \in Nat
      /\ \A j \in DOMAIN reported : reported[j].call \in Nat
  <2>1. /\ \A i \in DOMAIN finished : finished[i] \in EndType
        /\ \A j \in DOMAIN reported : reported[j] \in HookReport
    BY <1>1
  <2>2. \A r \in ApiReport \cup ErrorReport : r.call \in Nat
    <3> TAKE r \in ApiReport \cup ErrorReport
    <3>1. CASE r \in ApiReport
      BY <3>1 DEF ApiReport
    <3>2. CASE r \in ErrorReport
      BY <3>2 DEF ErrorReport
    <3> QED BY <3>1, <3>2
  <2>3. \A e \in EndType : e.call \in Nat
    BY DEF EndType
  <2> QED BY <2>1, <2>2, <2>3 DEF HookReport
<1>3. /\ \A i \in DOMAIN finished : finished[i].call <= calls /\ ~InUse(xhr, requests, finished[i].call)
      /\ \A j \in DOMAIN reported : reported[j].call <= calls /\ ~InUse(xhr, requests, reported[j].call)
  BY DEF HookInv, Logged, Ended
<1>4. RequestsAreReported'
  BY ReportedIsTold DEF HookInv, Logged
<1>5. \A i \in DOMAIN finished' : finished'[i].call <= calls' /\ ~InUse(xhr', requests', finished'[i].call)
  BY <1>1, <1>2, <1>3
<1>6. \A j \in DOMAIN reported' : reported'[j].call <= calls' /\ ~InUse(xhr', requests', reported'[j].call)
  BY <1>1, <1>2, <1>3
<1> QED BY <1>1, <1>4, <1>5, <1>6 DEF Logged, LogTypes, Ended

LEMMA OpenKeeps == ASSUME HookInv, NEW x \in Xhr, Open(x) PROVE HookInv'
<1> DEFINE n == xhr[x].opens + 1
           new == [xhr[x] EXCEPT !.phase = "opened", !.call = calls', !.opens = n,
                                 !.triggerPage = route, !.from = route]
<1>1. /\ options \in [success : BOOLEAN, fail : BOOLEAN] /\ route \in {1, 2} /\ calls \in Nat
      /\ xhr \in [Xhr -> XhrType] /\ requests \subseteq RequestType /\ Numbered
  BY DEF HookInv, HostTypes
<1>2. /\ xhr' = [xhr EXCEPT ![x] = new] /\ calls' = calls + 1
      /\ UNCHANGED <<options, route, requests, reported, finished>>
  BY <1>1 DEF Open, OpenFrom, Call, XhrType
<1>3. new \in XhrType /\ new.phase = "opened" /\ new.call = calls + 1 /\ new.opens >= 1
      /\ new.triggerPage = route /\ new.from = route
  <2>1. xhr[x] \in XhrType
    BY <1>1
  <2>2. n \in Nat /\ n >= 1 /\ calls' \in Nat /\ route \in Nat
    BY <1>1, <1>2, <2>1 DEF XhrType
  <2> HIDE DEF n
  <2>3. /\ new.phase = "opened" /\ new.call = calls' /\ new.opens = n
        /\ new.triggerPage = route /\ new.from = route /\ new \in XhrType
    BY <2>1, <2>2 DEF XhrType
  <2> HIDE DEF new
  <2> QED BY <1>2, <2>2, <2>3
<1> HIDE DEF new
<1>4. xhr' \in [Xhr -> XhrType] /\ xhr'[x] = new /\ \A y \in Xhr \ {x} : xhr'[y] = xhr[y]
  BY <1>1, <1>2, <1>3
<1>5. UnderWay(xhr'[x]) /\ \A y \in Xhr \ {x} : UnderWay(xhr'[y]) <=> UnderWay(xhr[y])
  BY <1>3, <1>4 DEF UnderWay
<1>6. /\ \A y \in Xhr : xhr[y].call \in Nat
      /\ \A r \in requests : r.call \in Nat /\ r.call <= calls
  BY <1>1 DEF XhrType, RequestType, Numbered
<1>7. Numbered'
  <2>1. \A y \in Xhr : UnderWay(xhr'[y]) =>
          /\ xhr'[y].call <= calls' /\ xhr'[y].opens >= 1
          /\ xhr'[y].triggerPage = xhr'[y].from /\ xhr'[y].from # Nowhere
    BY <1>1, <1>2, <1>3, <1>4, <1>5, <1>6 DEF Numbered, Nowhere
  <2>2. \A y, z \in Xhr : UnderWay(xhr'[y]) /\ UnderWay(xhr'[z]) /\ xhr'[y].call = xhr'[z].call => y = z
    BY <1>1, <1>2, <1>3, <1>4, <1>5, <1>6 DEF Numbered
  <2>3. \A y \in Xhr, r \in requests : UnderWay(xhr'[y]) => xhr'[y].call # r.call
    BY <1>1, <1>2, <1>3, <1>4, <1>5, <1>6 DEF Numbered
  <2>4. \A r \in requests : r.call <= calls'
    BY <1>1, <1>2, <1>6
  <2> QED BY <1>1, <1>2, <2>1, <2>2, <2>3, <2>4 DEF Numbered
<1>8. \A c : InUse(xhr', requests', c) => InUse(xhr, requests, c) \/ c > calls
  BY <1>1, <1>2, <1>3, <1>4, <1>5 DEF InUse
<1>9. Logged'
  <2>1. UNCHANGED <<options, reported, finished>> /\ calls' \in Nat /\ calls' >= calls
    BY <1>1, <1>2
  <2> QED BY <1>8, <2>1, OtherKeeps
<1> QED BY <1>1, <1>2, <1>4, <1>7, <1>9 DEF HookInv, HostTypes

LEMMA SendKeeps == ASSUME HookInv, NEW x \in Xhr, NEW body \in Contents, Send(x, body)
                   PROVE HookInv'
<1> DEFINE new == [xhr[x] EXCEPT !.phase = "sent", !.body = body]
<1>1. /\ options \in [success : BOOLEAN, fail : BOOLEAN] /\ route \in {1, 2} /\ calls \in Nat
      /\ xhr \in [Xhr -> XhrType] /\ requests \subseteq RequestType /\ Numbered /\ body \in Int
  BY ContentTyped DEF HookInv, HostTypes
<1>2. /\ xhr' = [xhr EXCEPT ![x] = new] /\ xhr[x].phase = "opened"
      /\ UNCHANGED <<options, route, requests, calls, reported, finished>>
  BY <1>1 DEF Send, XhrType
<1>3. new \in XhrType /\ new.phase = "sent" /\ new.call = xhr[x].call /\ new.opens = xhr[x].opens
      /\ new.triggerPage = xhr[x].triggerPage /\ new.from = xhr[x].from
  BY <1>1, <1>2 DEF XhrType
<1> HIDE DEF new
<1>4. xhr' \in [Xhr -> XhrType] /\ xhr'[x] = new /\ \A y \in Xhr \ {x} : xhr'[y] = xhr[y]
  BY <1>1, <1>2, <1>3
<1>5. /\ \A y \in Xhr : UnderWay(xhr'[y]) <=> UnderWay(xhr[y])
      /\ \A y \in Xhr : /\ xhr'[y].call = xhr[y].call /\ xhr'[y].opens = xhr[y].opens
                        /\ xhr'[y].triggerPage = xhr[y].triggerPage /\ xhr'[y].from = xhr[y].from
  BY <1>2, <1>3, <1>4 DEF UnderWay
<1>6. Numbered'
  BY <1>1, <1>2, <1>5 DEF Numbered
<1>7. \A c : InUse(xhr', requests', c) => InUse(xhr, requests, c) \/ c > calls
  BY <1>2, <1>5 DEF InUse
<1>8. Logged'
  <2>1. UNCHANGED <<options, reported, finished>> /\ calls' \in Nat /\ calls' >= calls
    BY <1>1, <1>2
  <2> QED BY <1>7, <2>1, OtherKeeps
<1> QED BY <1>1, <1>2, <1>4, <1>6, <1>8 DEF HookInv, HostTypes

LEMMA RequestKeeps == ASSUME HookInv, NEW body \in Contents, NEW own \in BOOLEAN, Request(body, own)
                      PROVE HookInv'
<1> DEFINE new == [call |-> calls', from |-> route, body |-> body, own |-> own]
<1>1. /\ options \in [success : BOOLEAN, fail : BOOLEAN] /\ route \in {1, 2} /\ calls \in Nat
      /\ xhr \in [Xhr -> XhrType] /\ requests \subseteq RequestType /\ Numbered /\ body \in Int
  BY ContentTyped DEF HookInv, HostTypes
<1>2. /\ requests' = requests \cup {new} /\ calls' = calls + 1
      /\ UNCHANGED <<options, route, xhr, reported, finished>>
  BY DEF Request, Call
<1>3. new \in RequestType /\ new.call = calls + 1
  BY <1>1, <1>2 DEF RequestType
<1> HIDE DEF new
<1>4. requests' \subseteq RequestType
  BY <1>1, <1>2, <1>3
<1>5. \A x \in Xhr : UnderWay(xhr'[x]) <=> UnderWay(xhr[x])
  BY <1>2 DEF UnderWay
<1>6. /\ \A y \in Xhr : xhr[y].call \in Nat
      /\ \A r \in requests : r.call \in Nat
  BY <1>1 DEF XhrType, RequestType
<1>7. Numbered'
  <2>1. \A y \in Xhr : UnderWay(xhr'[y]) =>
          /\ xhr'[y].call <= calls' /\ xhr'[y].opens >= 1
          /\ xhr'[y].triggerPage = xhr'[y].from /\ xhr'[y].from # Nowhere
    BY <1>1, <1>2, <1>5, <1>6 DEF Numbered
  <2>2. \A y, z \in Xhr : UnderWay(xhr'[y]) /\ UnderWay(xhr'[z]) /\ xhr'[y].call = xhr'[z].call => y = z
    BY <1>1, <1>2, <1>5 DEF Numbered
  <2>3. \A y \in Xhr, r \in requests' : UnderWay(xhr'[y]) => xhr'[y].call # r.call
    BY <1>1, <1>2, <1>3, <1>5, <1>6 DEF Numbered
  <2>4. \A r \in requests' : r.call <= calls'
    BY <1>1, <1>2, <1>3, <1>6 DEF Numbered
  <2>5. \A r, q \in requests' : r.call = q.call => r = q
    BY <1>1, <1>2, <1>3, <1>6 DEF Numbered
  <2> QED BY <2>1, <2>2, <2>3, <2>4, <2>5 DEF Numbered
<1>8. \A c : InUse(xhr', requests', c) => InUse(xhr, requests, c) \/ c > calls
  BY <1>1, <1>2, <1>3, <1>5 DEF InUse
<1>9. Logged'
  <2>1. UNCHANGED <<options, reported, finished>> /\ calls' \in Nat /\ calls' >= calls
    BY <1>1, <1>2
  <2> QED BY <1>8, <2>1, OtherKeeps
<1> QED BY <1>1, <1>2, <1>4, <1>7, <1>9 DEF HookInv, HostTypes

LEMMA SameKeeps ==
  ASSUME HookInv, route' \in {1, 2}, UNCHANGED <<options, xhr, requests, calls, reported, finished>>
  PROVE  HookInv'
<1>1. RequestsAreReported'
  BY ReportedIsTold DEF HookInv, Logged
<1>2. HostTypes' /\ LogTypes'
  BY DEF HookInv, HostTypes, Logged, LogTypes
<1>3. \A c : InUse(xhr', requests', c) <=> InUse(xhr, requests, c)
  BY DEF InUse, UnderWay
<1>4. Numbered' /\ Ended'
  BY <1>3 DEF HookInv, Numbered, Logged, Ended
<1> QED BY <1>1, <1>2, <1>4 DEF HookInv, Logged

-----------------------------------------------------------------------------
(***************************************************************************)
(* The ends.                                                               *)
(***************************************************************************)
LEMMA HeardIs ==
  ASSUME NEW X, X.opens \in Nat, NEW event, NEW outcome, NEW throws
  PROVE  LET type  == IF event # "loadend" THEN event
                      ELSE IF outcome = "ok" THEN "success" ELSE "fail"
             heard == Heard(X, event, outcome, throws)
         IN  /\ heard \in Seq({type})
             /\ Len(heard) = IF event \notin throws
                                /\ (IF type = "success" THEN options.success ELSE options.fail)
                             THEN X.opens ELSE 0
<1> DEFINE type == IF event # "loadend" THEN event
                   ELSE IF outcome = "ok" THEN "success" ELSE "fail"
           wanted == event \notin throws
                       /\ (IF type = "success" THEN options.success ELSE options.fail)
<1>1. Heard(X, event, outcome, throws) = IF wanted THEN [l \in 1 .. X.opens |-> type] ELSE <<>>
  BY DEF Heard
<1>2. [l \in 1 .. X.opens |-> type] \in Seq({type}) /\ Len([l \in 1 .. X.opens |-> type]) = X.opens
  OBVIOUS
<1>3. <<>> \in Seq({type}) /\ Len(<<>>) = 0
  OBVIOUS
<1> HIDE DEF type
<1>4. /\ Heard(X, event, outcome, throws) \in Seq({type})
      /\ Len(Heard(X, event, outcome, throws)) = IF wanted THEN X.opens ELSE 0
  <2>1. CASE wanted
    BY <1>1, <1>2, <2>1
  <2>2. CASE ~wanted
    BY <1>1, <1>3, <2>2
  <2> QED BY <2>1, <2>2
<1> QED BY <1>4 DEF type

\* What the listeners of an object report when its request ends.
HeardAll(X, outcome, throws) ==
  (IF outcome \in EventsOf(outcome) THEN Heard(X, outcome, outcome, throws) ELSE <<>>)
    \o Heard(X, "loadend", outcome, throws)

Wanted(outcome, throws) ==
  throws = {} /\ IF outcome = "ok" THEN options.success ELSE options.fail

ReportTypes == {"success", "fail", "abort", "error", "timeout"}

\* What is heard of an end, on an object opened so often.
HeardRight(all, wanted, outcome, opens) ==
  /\ all \in Seq(ReportTypes) /\ Len(all) \in Nat
  /\ \A i \in 1 .. Len(all) : all[i] = "success" <=> outcome = "ok"
  /\ wanted => Len(all) > 0
  /\ Len(all) > 0 => IF outcome = "ok" THEN wanted ELSE options.fail
  /\ outcome = "ok" /\ opens = 1 => Len(all) <= 1

LEMMA AllHeard ==
  ASSUME NEW X, X.opens \in Nat, X.opens >= 1, NEW outcome \in Outcomes,
         NEW throws \in SUBSET EventsOf(outcome), options \in [success : BOOLEAN, fail : BOOLEAN]
  PROVE  HeardRight(HeardAll(X, outcome, throws), Wanted(outcome, throws), outcome, X.opens)
<1> DEFINE all == HeardAll(X, outcome, throws)
           wanted == Wanted(outcome, throws)
<1>w. wanted \in BOOLEAN
        /\ (wanted <=> (throws = {} /\ IF outcome = "ok" THEN options.success ELSE options.fail))
  BY DEF Wanted
<1> DEFINE T == ReportTypes
           F == {"fail", "abort", "error", "timeout"}
           first == IF outcome \in EventsOf(outcome) THEN Heard(X, outcome, outcome, throws) ELSE <<>>
           final == Heard(X, "loadend", outcome, throws)
<1>0. all = first \o final
  BY DEF HeardAll
<1> SUFFICES HeardRight(all, wanted, outcome, X.opens)
  OBVIOUS
<1> HIDE DEF all, wanted
<1>1. CASE outcome = "ok"
  <2>1. EventsOf(outcome) = {"loadend"} /\ first = <<>>
    BY <1>1 DEF EventsOf
  <2>2. final \in Seq({"success"})
       /\ Len(final) = IF "loadend" \notin throws /\ options.success THEN X.opens ELSE 0
    BY <1>1, HeardIs
  <2>3. "loadend" \notin throws <=> throws = {}
    BY <2>1
  <2> HIDE DEF first, final
  <2>4. all = final
    BY <1>0, <2>1, <2>2
  <2>5. all \in Seq(T) /\ Len(all) \in Nat /\ \A i \in 1 .. Len(all) : all[i] = "success"
    <3>1. all \in Seq({"success"})
      BY <2>2, <2>4
    <3>2. \A i \in 1 .. Len(all) : all[i] \in {"success"}
      BY <3>1
    <3> QED BY <3>1, <3>2 DEF ReportTypes
  <2>6. Len(all) > 0 <=> wanted
    BY <1>w, <1>1, <2>2, <2>3, <2>4
  <2>7. X.opens = 1 => Len(all) <= 1
    <3> DEFINE opens == X.opens
    <3>1. (Len(all) = opens \/ Len(all) = 0) /\ opens \in Nat
      BY <2>2, <2>4
    <3> HIDE DEF opens
    <3>2. opens = 1 => Len(all) <= 1
      BY <2>5, <3>1
    <3> QED BY <3>2 DEF opens
  <2> QED BY <1>1, <2>5, <2>6, <2>7 DEF HeardRight
<1>2. CASE outcome # "ok"
  <2>1. final \in Seq({"fail"})
       /\ Len(final) = IF "loadend" \notin throws /\ options.fail THEN X.opens ELSE 0
    BY <1>2, HeardIs
  <2>2. first \in Seq(F) /\ Len(first) \in Nat /\ (Len(first) > 0 => options.fail)
    <3>1. CASE outcome = "status"
      <4>1. first = <<>>
        BY <3>1 DEF EventsOf
      <4>2. <<>> \in Seq(F) /\ Len(<<>>) = 0
        OBVIOUS
      <4> HIDE DEF first
      <4> QED BY <4>1, <4>2
    <3>2. CASE outcome # "status"
      <4>1. outcome \in {"abort", "error", "timeout"}
        BY <1>2, <3>2 DEF Outcomes
      <4>2. first = Heard(X, outcome, outcome, throws)
        BY <4>1 DEF EventsOf
      <4>3. first \in Seq({outcome})
           /\ Len(first) = IF outcome \notin throws /\ options.fail THEN X.opens ELSE 0
        <5> HIDE DEF first
        <5>1. outcome # "loadend" /\ outcome # "success"
          BY <4>1
        <5> QED BY <4>2, <5>1, HeardIs
      <4> HIDE DEF first
      <4> QED BY <4>1, <4>3
    <3> QED BY <3>1, <3>2 DEF ReportTypes
  <2> HIDE DEF first, final
  <2>4. /\ all \in Seq(F) /\ Len(all) = Len(first) + Len(final)
        /\ Len(final) \in Nat
    <3>1. final \in Seq(F) /\ Len(final) \in Nat
      BY <2>1
    <3>2. first \in Seq(F) /\ Len(first) \in Nat
      BY <2>2
    <3> HIDE DEF F
    <3>3. first \o final \in Seq(F) /\ Len(first \o final) = Len(first) + Len(final)
      BY <3>1, <3>2
    <3> QED BY <1>0, <3>1, <3>3
  <2>5. all \in Seq(T) /\ Len(all) \in Nat /\ \A i \in 1 .. Len(all) : all[i] # "success"
    <3>1. Len(all) \in Nat /\ \A i \in 1 .. Len(all) : all[i] \in F
      BY <2>4
    <3>2. \A i \in 1 .. Len(all) : all[i] # "success"
      BY <3>1
    <3>3. all \in Seq(T)
      BY <2>4 DEF ReportTypes
    <3> QED BY <3>1, <3>2, <3>3
  <2>6. wanted => Len(all) > 0
    BY <1>w, <1>2, <2>1, <2>2, <2>4
  <2>7. Len(all) > 0 => options.fail
    BY <2>1, <2>2, <2>4
  <2> QED BY <1>2, <2>5, <2>6, <2>7 DEF HeardRight
<1> QED BY <1>1, <1>2

LEMMA XhrEndsKeeps ==
  ASSUME HookInv, NEW x \in Xhr, NEW outcome \in Outcomes, NEW response \in Answers(outcome),
         NEW throws \in SUBSET EventsOf(outcome), XhrEnds(x, outcome, response, throws)
  PROVE  HookInv'
<1> DEFINE X    == xhr[x]
           at   == IF X.triggerPage = Nowhere THEN route ELSE X.triggerPage
           all  == HeardAll(X, outcome, throws)
           more == [i \in DOMAIN all |-> CollectInfo(X.call, all[i], at, X.body, response)]
           wanted == Wanted(outcome, throws)
           e    == [call |-> X.call, outcome |-> outcome, from |-> X.from, body |-> X.body,
                    response |-> response, opens |-> X.opens, own |-> FALSE, wanted |-> wanted]
           new  == [X EXCEPT !.phase = "done"]
           T    == ReportTypes
<1>1. /\ options \in [success : BOOLEAN, fail : BOOLEAN] /\ route \in {1, 2} /\ calls \in Nat
      /\ xhr \in [Xhr -> XhrType] /\ requests \subseteq RequestType /\ Numbered /\ response \in Int
  BY ContentTyped DEF HookInv, HostTypes, Answers, Contents
<1>2. /\ X.phase = "sent" /\ xhr' = [xhr EXCEPT ![x] = new]
      /\ reported' = reported \o more /\ finished' = Append(finished, e)
      /\ UNCHANGED <<options, route, requests, calls>>
  BY <1>1 DEF XhrEnds, End, XhrType, HeardAll, Wanted
<1>3. X \in XhrType /\ UnderWay(X)
  BY <1>1, <1>2 DEF UnderWay
<1>4. /\ X.call \in Nat /\ X.call <= calls /\ X.opens \in Nat /\ X.opens >= 1 /\ X.body \in Int
      /\ X.from \in Nat /\ at = X.from /\ at \in Nat
  BY <1>1, <1>3 DEF XhrType, Numbered
<1>5. wanted \in BOOLEAN
  BY <1>1 DEF Wanted
<1>6. e \in EndType /\ e.call = X.call /\ e.outcome = outcome /\ e.from = X.from /\ e.body = X.body
      /\ e.response = response /\ e.opens = X.opens /\ e.own = FALSE /\ e.wanted = wanted
  <2> HIDE DEF X, wanted
  <2> QED BY <1>1, <1>4, <1>5 DEF EndType
<1>7. /\ all \in Seq(T) /\ Len(all) \in Nat
      /\ \A i \in 1 .. Len(all) : all[i] = "success" <=> outcome = "ok"
      /\ wanted => Len(all) > 0
      /\ Len(all) > 0 => IF outcome = "ok" THEN wanted ELSE options.fail
      /\ outcome = "ok" /\ X.opens = 1 => Len(all) <= 1
  <2>1. X.opens \in Nat /\ X.opens >= 1
    BY <1>4
  <2> HIDE DEF X
  <2>2. HeardRight(all, wanted, outcome, X.opens)
    BY <1>1, <2>1, AllHeard
  <2> QED BY <2>2 DEF HeardRight
<1> HIDE DEF all, at, e, wanted, T
<1>8. /\ more \in Seq(ApiReport) /\ Len(more) = Len(all)
      /\ \A k \in 1 .. Len(more) : more[k].call = e.call /\ TellsOf(more[k], e) /\ more[k].type # "thrown"
  <2>1. DOMAIN all = 1 .. Len(all) /\ \A i \in 1 .. Len(all) : all[i] \in T
    BY <1>7
  <2> DEFINE Line(i) == CollectInfo(X.call, all[i], at, X.body, response)
  <2>2. \A i \in 1 .. Len(all) :
          /\ Line(i) \in ApiReport /\ Line(i).call = X.call /\ Line(i).page = at
          /\ Line(i).type = all[i]
          /\ all[i] # "success" =>
               (X.body \in Nat => Line(i).body = X.body)
                 /\ (response \in Nat => Line(i).response = response)
          /\ all[i] = "success" => Fits(Line(i).body, MaxFieldKb) /\ Fits(Line(i).response, ResponseLimit)
    <3> TAKE i \in 1 .. Len(all)
    <3> DEFINE t == all[i]
    <3>1. t \in {"success", "fail", "abort", "error", "timeout"}
      BY <2>1 DEF T, ReportTypes
    <3>2. X.call \in Nat /\ X.body \in Int
      BY <1>4
    <3>3. Line(i) = CollectInfo(X.call, t, at, X.body, response)
      OBVIOUS
    <3> HIDE DEF X, t, Line
    <3>4. /\ Line(i) \in ApiReport /\ Line(i).call = X.call /\ Line(i).page = at
          /\ Line(i).type = t
          /\ t # "success" =>
               (X.body \in Nat => Line(i).body = X.body)
                 /\ (response \in Nat => Line(i).response = response)
          /\ t = "success" => Fits(Line(i).body, MaxFieldKb) /\ Fits(Line(i).response, ResponseLimit)
      <4> DEFINE c == X.call
                 b == X.body
      <4>1. c \in Nat /\ b \in Int /\ at \in Nat /\ response \in Int
        BY <1>1, <1>4, <3>2
      <4>2. Line(i) = CollectInfo(c, t, at, b, response)
        BY <3>3
      <4> HIDE DEF c, b
      <4>3. Says(CollectInfo(c, t, at, b, response), c, t, at, b, response)
        BY <3>1, <4>1, CollectTells
      <4>4. Says(Line(i), c, t, at, b, response)
        BY <4>2, <4>3
      <4> QED BY <4>4 DEF Says, b, c
    <3> QED BY <3>4 DEF t
  <2>3. more = [i \in 1 .. Len(all) |-> Line(i)]
    BY <2>1
  <2> HIDE DEF Line, more, X
  <2>4. more \in Seq(ApiReport) /\ Len(more) = Len(all) /\ \A k \in 1 .. Len(all) : more[k] = Line(k)
    BY <1>7, <2>2, <2>3
  <2>5. \A k \in 1 .. Len(all) : more[k].call = e.call /\ TellsOf(more[k], e) /\ more[k].type # "thrown"
    <3> TAKE k \in 1 .. Len(all)
    <3>1. at = X.from
      BY <1>4
    <3>2. more[k].call = e.call /\ more[k].page = e.from
      BY <1>6, <2>2, <2>4, <3>1
    <3>3. e.outcome # "ok" =>
            (e.body \in Nat => more[k].body = e.body)
              /\ (e.response \in Nat => more[k].response = e.response)
      BY <1>6, <1>7, <2>2, <2>4
    <3>4. e.outcome = "ok" => Fits(more[k].body, MaxFieldKb) /\ Fits(more[k].response, ResponseLimit)
      BY <1>6, <1>7, <2>2, <2>4
    <3>5. more[k].type # "thrown"
      <4>1. more[k].type \in T
        BY <2>1, <2>2, <2>4
      <4> QED BY <4>1 DEF T, ReportTypes
    <3> QED BY <3>2, <3>3, <3>4, <3>5 DEF TellsOf
  <2> QED BY <2>4, <2>5
<1> HIDE DEF more
<1>9. Closes(more, options, e)
  BY <1>6, <1>7, <1>8 DEF Closes
<1>10. more \in Seq(HookReport)
  BY <1>8 DEF HookReport
<1>11. new \in XhrType /\ ~UnderWay(new)
  BY <1>3 DEF XhrType, UnderWay
<1> HIDE DEF new
<1>12. xhr' \in [Xhr -> XhrType] /\ xhr'[x] = new /\ \A y \in Xhr \ {x} : xhr'[y] = xhr[y]
  BY <1>1, <1>2, <1>11
<1>13. \A y \in Xhr : UnderWay(xhr'[y]) => y # x /\ UnderWay(xhr[y]) /\ xhr'[y] = xhr[y]
  BY <1>11, <1>12
<1>14. InUse(xhr, requests, e.call)
  BY <1>3, <1>6 DEF InUse
<1>15. ~InUse(xhr', requests', e.call)
  BY <1>1, <1>2, <1>3, <1>6, <1>13 DEF InUse, Numbered
<1>16. \A c : InUse(xhr', requests', c) => InUse(xhr, requests, c)
  BY <1>2, <1>13 DEF InUse
<1>17. Numbered'
  BY <1>1, <1>2, <1>13 DEF Numbered
<1>18. Logged'
  <2>1. UNCHANGED <<options, calls>> /\ e \in EndType /\ e.call <= calls
        /\ reported' = reported \o more /\ finished' = Append(finished, e)
    BY <1>2, <1>4, <1>6
  <2>2. \A k \in 1 .. Len(more) : more[k].type # "thrown"
    BY <1>8
  <2> QED BY <1>9, <1>10, <1>14, <1>15, <1>16, <2>1, <2>2, EndKeeps
<1> QED BY <1>1, <1>2, <1>12, <1>17, <1>18 DEF HookInv, HostTypes

-----------------------------------------------------------------------------
(***************************************************************************)
(* The mini-program.                                                       *)
(***************************************************************************)
LEMMA AnsweredKeeps ==
  ASSUME HookInv, NEW r, NEW type \in {"success", "fail"}, NEW outcome \in Outcomes,
         type = "success" <=> outcome = "ok", NEW response \in Int, NEW wanted \in BOOLEAN,
         NEW throws \in BOOLEAN, outcome # "ok" /\ wanted => options.fail,
         Answered(r, type, response, wanted, throws),
         End(r.call, outcome, r.from, r.body, response, 1, r.own, wanted /\ ~r.own /\ ~throws)
  PROVE  HookInv'
<1> DEFINE info == CollectInfo(r.call, type, r.from, r.body, response)
           told == wanted /\ ~r.own /\ ~throws
           more == IF told THEN <<info>> ELSE <<>>
           e    == [call |-> r.call, outcome |-> outcome, from |-> r.from, body |-> r.body,
                    response |-> response, opens |-> 1, own |-> r.own, wanted |-> told]
<1>1. /\ options \in [success : BOOLEAN, fail : BOOLEAN] /\ route \in {1, 2} /\ calls \in Nat
      /\ xhr \in [Xhr -> XhrType] /\ requests \subseteq RequestType /\ Numbered
      /\ reported \in Seq(HookReport)
  BY DEF HookInv, HostTypes, Logged, LogTypes
<1>2. /\ r \in requests /\ requests' = requests \ {r} /\ finished' = Append(finished, e)
      /\ reported' = IF told THEN Append(reported, info) ELSE reported
      /\ UNCHANGED <<options, route, xhr, calls>>
  BY DEF Answered, End
<1>3. r \in RequestType /\ r.call \in Nat /\ r.from \in Nat /\ r.body \in Int /\ r.own \in BOOLEAN
  BY <1>1, <1>2 DEF RequestType
<1>4. told \in BOOLEAN /\ (r.own => ~told)
  BY <1>3
<1>5. e \in EndType /\ e.call = r.call /\ e.outcome = outcome /\ e.from = r.from /\ e.body = r.body
      /\ e.response = response /\ e.opens = 1 /\ e.own = r.own /\ e.wanted = told
  <2> HIDE DEF told
  <2> QED BY <1>3, <1>4 DEF EndType
<1>6. Says(info, r.call, type, r.from, r.body, response)
  <2> DEFINE c == r.call
             f == r.from
             b == r.body
  <2>1. c \in Nat /\ f \in Nat /\ b \in Int /\ type \in {"success", "fail", "abort", "error", "timeout"}
    BY <1>3
  <2>2. info = CollectInfo(c, type, f, b, response)
    OBVIOUS
  <2> HIDE DEF c, f, b, info
  <2>3. Says(info, c, type, f, b, response)
    BY <2>1, <2>2, CollectTells
  <2> QED BY <2>3 DEF c, f, b
<1> HIDE DEF info, e
<1>7. /\ info \in ApiReport /\ info.call = e.call /\ TellsOf(info, e) /\ info.type # "thrown"
  BY <1>5, <1>6 DEF Says, TellsOf
<1>8. info \in HookReport
  BY <1>7 DEF HookReport
<1> HIDE DEF told
<1>9. /\ more \in Seq(HookReport) /\ Len(more) \in Nat /\ Len(more) <= 1 /\ (Len(more) > 0 <=> told)
      /\ \A k \in 1 .. Len(more) : more[k] = info
      /\ reported' = reported \o more
  <2>1. CASE told
    <3>1. more = <<info>>
      BY <2>1
    <3>2. Append(reported, info) = reported \o <<info>>
      BY <1>1, <1>8
    <3>3. <<info>> \in Seq(HookReport) /\ Len(<<info>>) = 1 /\ \A k \in 1 .. 1 : <<info>>[k] = info
      BY <1>8
    <3> HIDE DEF more
    <3> QED BY <1>2, <2>1, <3>1, <3>2, <3>3
  <2>2. CASE ~told
    <3>1. more = <<>>
      BY <2>2
    <3>2. reported \o <<>> = reported
      BY <1>1
    <3>3. <<>> \in Seq(HookReport) /\ Len(<<>>) = 0
      OBVIOUS
    <3> HIDE DEF more
    <3> QED BY <1>2, <2>2, <3>1, <3>2, <3>3
  <2> QED BY <2>1, <2>2
<1> HIDE DEF more
<1>10. Closes(more, options, e)
  <2>1. \A k \in 1 .. Len(more) : more[k].call = e.call /\ TellsOf(more[k], e)
    BY <1>7, <1>9
  <2>2. outcome # "ok" /\ told => options.fail
    BY DEF told
  <2> QED BY <1>4, <1>5, <1>9, <2>1, <2>2 DEF Closes
<1>11. \A c : InUse(xhr', requests', c) => InUse(xhr, requests, c)
  BY <1>2 DEF InUse
<1>12. InUse(xhr, requests, e.call) /\ ~InUse(xhr', requests', e.call)
  BY <1>1, <1>2, <1>5 DEF InUse, Numbered
<1>13. Numbered'
  BY <1>1, <1>2 DEF Numbered
<1>14. Logged'
  <2>1. UNCHANGED <<options, calls>> /\ e \in EndType /\ e.call <= calls
        /\ finished' = Append(finished, e)
    BY <1>1, <1>2, <1>5 DEF Numbered
  <2>2. \A k \in 1 .. Len(more) : more[k].type # "thrown"
    BY <1>7, <1>9
  <2> QED BY <1>9, <1>10, <1>11, <1>12, <2>1, <2>2, EndKeeps
<1> QED BY <1>1, <1>2, <1>13, <1>14 DEF HookInv, HostTypes

LEMMA SuccessKeeps ==
  ASSUME HookInv, NEW r \in requests, NEW ok \in BOOLEAN, NEW condition \in BOOLEAN,
         NEW throws \in BOOLEAN, NEW response \in Sizes,
         SuccessCallback(r, ok, response, condition, throws)
  PROVE  HookInv'
<1> DEFINE type    == IF ok THEN "success" ELSE "fail"
           wanted  == IF ok THEN options.success \/ condition ELSE options.fail
           outcome == IF ok THEN "ok" ELSE "status"
<1>1. /\ Answered(r, type, response, wanted, throws)
      /\ End(r.call, outcome, r.from, r.body, response, 1, r.own, wanted /\ ~r.own /\ ~throws)
  BY DEF SuccessCallback
<1>2. /\ type \in {"success", "fail"} /\ outcome \in Outcomes
      /\ (type = "success" <=> outcome = "ok") /\ (outcome # "ok" /\ wanted => options.fail)
  BY DEF Outcomes
<1>3. wanted \in BOOLEAN /\ response \in Int
  BY HooksAssumption DEF HookInv, HostTypes, HooksAssumption
<1> HIDE DEF type, wanted, outcome
<1> QED BY <1>1, <1>2, <1>3, AnsweredKeeps

LEMMA FailKeeps ==
  ASSUME HookInv, NEW r \in requests, NEW throws \in BOOLEAN, FailCallback(r, throws)
  PROVE  HookInv'
<1> DEFINE wanted == options.fail
<1>1. /\ Answered(r, "fail", NoContent, wanted, throws)
      /\ End(r.call, "error", r.from, r.body, NoContent, 1, r.own, wanted /\ ~r.own /\ ~throws)
  BY DEF FailCallback
<1>2. wanted \in BOOLEAN /\ (wanted => options.fail) /\ "error" \in Outcomes /\ "error" # "ok"
      /\ NoContent \in Int
  BY DEF HookInv, HostTypes, Outcomes, NoContent
<1> HIDE DEF wanted
<1> QED BY <1>1, <1>2, AnsweredKeeps

-----------------------------------------------------------------------------
(***************************************************************************)
(* What is logged or thrown.                                               *)
(***************************************************************************)
LEMMA OwnAreThere ==
  /\ "" \in Phrase /\ "CustomError" \in Phrase /\ "ErrorEvent" \in Phrase
  /\ "UnhandleRejection" \in Phrase /\ "Unknown script error" \in Phrase
  /\ "Unknown Error" \in Phrase /\ "null or undefined error" \in Phrase
  /\ "(object error)" \in Phrase /\ "console.error with no arguments" \in Phrase
BY HooksAssumption DEF HooksAssumption, OwnPhrases

LEMMA NormalizedIsText ==
  ASSUME NEW given \in Reason
  PROVE  /\ NormalizeError(given).message \in Phrase
         /\ NormalizeError(given).extra \in {"json", "circular", "null"}
         /\ NormalizeError(given).message = "" => given.is = "string" /\ given.message = ""
<1>1. given.is \in {"Error", "string", "null", "object"} /\ given.message \in Phrase
  BY DEF Reason
<1> QED BY <1>1, OwnAreThere DEF NormalizeError

LEMMA NormalizedLog == ASSUME NEW args \in Seq(Reason) PROVE NormalizeConsoleError(args) \in Reason
<1> DEFINE IsError(i) == args[i].is = "Error"
           errors == {i \in DOMAIN args : IsError(i)}
           First(i) == IsError(i) /\ \A j \in DOMAIN args : IsError(j) => i <= j
<1>1. /\ DOMAIN args = 1 .. Len(args) /\ Len(args) \in Nat
      /\ \A i \in DOMAIN args : args[i] \in Reason
  OBVIOUS
<1>2. CASE args = <<>>
  BY <1>2, OwnAreThere DEF NormalizeConsoleError, Text, Reason
<1>3. CASE args # <<>> /\ \E i \in DOMAIN args : IsError(i)
  <2>1. \E i \in errors : \A j \in errors : i <= j
    <3>1. errors \in SUBSET Nat /\ errors # {}
      BY <1>1, <1>3
    <3> HIDE DEF errors
    <3> QED BY <3>1, FirstOf
  <2>2. \E i \in DOMAIN args : First(i)
    BY <2>1
  <2>3. NormalizeConsoleError(args) = args[CHOOSE i \in DOMAIN args : First(i)]
    BY <1>3 DEF NormalizeConsoleError
  <2> HIDE DEF First
  <2>4. (CHOOSE i \in DOMAIN args : First(i)) \in DOMAIN args
    BY <2>2
  <2> QED BY <1>1, <2>3, <2>4
<1>4. CASE args # <<>> /\ ~ \E i \in DOMAIN args : IsError(i)
  <2>1. 1 \in DOMAIN args
    BY <1>1, <1>4
  <2>2. CASE args[1].is = "string"
    <3>1. NormalizeConsoleError(args) = args[1]
      BY <1>4, <2>2 DEF NormalizeConsoleError
    <3> QED BY <1>1, <2>1, <3>1
  <2>3. CASE args[1].is # "string"
    <3> DEFINE around == \E i \in DOMAIN args : args[i].circular
    <3>1. NormalizeConsoleError(args) = [is |-> "object", name |-> "", message |-> "",
                                         circular |-> around]
      BY <1>4, <2>3 DEF NormalizeConsoleError
    <3>2. \A b \in BOOLEAN :
            [is |-> "object", name |-> "", message |-> "", circular |-> b] \in Reason
      BY OwnAreThere DEF Reason
    <3>3. around \in BOOLEAN
      OBVIOUS
    <3> HIDE DEF around
    <3> QED BY <3>1, <3>2, <3>3
  <2> QED BY <2>2, <2>3
<1> QED BY <1>2, <1>3, <1>4

\* The empty name is the host's.
NameIsGiven(name, given) == name = "" => given.is = "Error" /\ given.name = ""

LEMMA ThrownKeeps ==
  ASSUME HookInv, NEW name \in Phrase, NEW given \in Reason,
         NameIsGiven(name, given), calls' = calls + 1,
         UNCHANGED <<options, route, xhr, requests, finished>>,
         reported' = Append(reported, Thrown(calls', name, given))
  PROVE  HookInv'
<1> DEFINE rec == Thrown(calls', name, given)
           more == <<rec>>
<1>1. /\ options \in [success : BOOLEAN, fail : BOOLEAN] /\ route \in {1, 2} /\ calls \in Nat
      /\ xhr \in [Xhr -> XhrType] /\ requests \subseteq RequestType /\ Numbered
      /\ reported \in Seq(HookReport) /\ finished \in Seq(EndType)
  BY DEF HookInv, HostTypes, Logged, LogTypes
<1>2. rec = [call |-> calls + 1, type |-> "thrown", name |-> name, given |-> given,
             message |-> NormalizeError(given).message, extra |-> NormalizeError(given).extra]
  BY <1>1 DEF Thrown
<1>3. /\ rec \in ErrorReport /\ rec.call = calls + 1 /\ rec.name = name /\ rec.given = given
      /\ rec.message = NormalizeError(given).message
  <2> DEFINE text == NormalizeError(given).message
             extra == NormalizeError(given).extra
             next == calls + 1
  <2>1. text \in Phrase /\ extra \in {"json", "circular", "null"} /\ next \in Nat
    <3>1. next \in Nat
      BY <1>1
    <3>2. text \in Phrase
      BY NormalizedIsText
    <3>3. extra \in {"json", "circular", "null"}
      BY NormalizedIsText
    <3> HIDE DEF text, extra, next
    <3> QED BY <3>1, <3>2, <3>3
  <2>2. rec = [call |-> next, type |-> "thrown", name |-> name, given |-> given,
               message |-> text, extra |-> extra]
    BY <1>2
  <2> HIDE DEF text, extra, next, rec
  <2>3. rec \in ErrorReport /\ rec.call = next /\ rec.name = name /\ rec.given = given /\ rec.message = text
    BY <2>1, <2>2 DEF ErrorReport
  <2> QED BY <2>3 DEF next, text
<1> HIDE DEF rec
<1>4. IsNamed(rec)
  BY <1>3, NormalizedIsText DEF IsNamed, NameIsGiven
<1>5. rec \in HookReport
  BY <1>3 DEF HookReport
<1>6. /\ more \in Seq(HookReport) /\ Len(more) = 1 /\ more[1] = rec /\ reported' = reported \o more
  <2>1. <<rec>> \in Seq(HookReport) /\ Len(<<rec>>) = 1 /\ <<rec>>[1] = rec
    BY <1>5
  <2>2. Append(reported, rec) = reported \o <<rec>>
    BY <1>1, <1>5
  <2> QED BY <2>1, <2>2 DEF rec
<1> HIDE DEF more
<1>7. /\ DOMAIN reported' = 1 .. Len(reported) + 1 /\ DOMAIN reported = 1 .. Len(reported)
      /\ Len(reported) \in Nat /\ reported' \in Seq(HookReport)
      /\ \A j \in 1 .. Len(reported) : reported'[j] = reported[j]
      /\ reported'[Len(reported) + 1] = rec
  BY <1>1, <1>5, <1>6
<1>8. /\ \A i \in DOMAIN finished : finished[i].call \in Nat /\ finished[i].call <= calls
                                    /\ ~InUse(xhr, requests, finished[i].call)
      /\ \A j \in DOMAIN reported : reported[j].call <= calls /\ ~InUse(xhr, requests, reported[j].call)
  <2>1. \A i \in DOMAIN finished : finished[i] \in EndType
    BY <1>1
  <2>2. \A f \in EndType : f.call \in Nat
    BY DEF EndType
  <2> QED BY <2>1, <2>2 DEF HookInv, Logged, Ended
<1>9. \A j \in DOMAIN reported : reported[j].call \in Nat
  <2>1. \A j \in DOMAIN reported : reported[j] \in HookReport
    BY <1>1
  <2>2. \A f \in ApiReport \cup ErrorReport : f.call \in Nat
    <3> TAKE f \in ApiReport \cup ErrorReport
    <3>1. CASE f \in ApiReport
      BY <3>1 DEF ApiReport
    <3>2. CASE f \in ErrorReport
      BY <3>2 DEF ErrorReport
    <3> QED BY <3>1, <3>2
  <2> QED BY <2>1, <2>2 DEF HookReport
<1>10. \A c : InUse(xhr', requests', c) <=> InUse(xhr, requests, c)
  OBVIOUS
<1>11. ~InUse(xhr, requests, calls + 1)
  <2>1. \A x \in Xhr : xhr[x].call \in Nat
    BY <1>1 DEF XhrType
  <2>2. \A r \in requests : r.call \in Nat
    BY <1>1 DEF RequestType
  <2> QED BY <1>1, <2>1, <2>2 DEF InUse, Numbered
<1>12. Ended'
  <2>1. \A i \in DOMAIN finished' : finished'[i].call <= calls' /\ ~InUse(xhr', requests', finished'[i].call)
    BY <1>1, <1>8, <1>10
  <2>2. \A j \in DOMAIN reported' : reported'[j].call <= calls' /\ ~InUse(xhr', requests', reported'[j].call)
    <3> TAKE j \in DOMAIN reported'
    <3>1. CASE j \in 1 .. Len(reported)
      BY <1>1, <1>7, <1>8, <1>9, <1>10, <3>1
    <3>2. CASE j = Len(reported) + 1
      BY <1>1, <1>3, <1>7, <1>10, <1>11, <3>2
    <3> QED BY <1>7, <3>1, <3>2
  <2> QED BY <2>1, <2>2 DEF Ended
<1>13. \A i \in DOMAIN finished' : IsTold(reported', options', finished'[i])
  <2> TAKE i \in DOMAIN finished'
  <2>1. IsTold(reported, options, finished[i])
    BY ReportedIsTold DEF HookInv, Logged
  <2>2. \A k \in 1 .. Len(more) : more[k].call # finished[i].call
    BY <1>1, <1>3, <1>6, <1>8
  <2>3. IsTold(reported \o more, options, finished[i])
    BY <1>1, <1>6, <2>1, <2>2, KeptTold
  <2> QED BY <1>6, <2>3
<1>14. \A j \in DOMAIN reported' : reported'[j].type = "thrown" => IsNamed(reported'[j])
  <2> TAKE j \in DOMAIN reported'
  <2>1. CASE j \in 1 .. Len(reported)
    BY <1>7, <2>1, ReportedIsTold DEF HookInv, Logged
  <2>2. CASE j = Len(reported) + 1
    BY <1>4, <1>7, <2>2
  <2> QED BY <1>7, <2>1, <2>2
<1>15. Numbered'
  <2>1. \A x \in Xhr : xhr[x].call \in Nat
    BY <1>1 DEF XhrType
  <2>2. \A r \in requests : r.call \in Nat
    BY <1>1 DEF RequestType
  <2> QED BY <1>1, <2>1, <2>2 DEF Numbered
<1>16. RequestsAreReported'
  BY <1>13, <1>14, ReportedIsTold
<1> QED BY <1>1, <1>7, <1>12, <1>15, <1>16 DEF HookInv, HostTypes, Logged, LogTypes

\* Reporting threw: the number is used up.
LEMMA SilentKeeps ==
  ASSUME HookInv, calls' = calls + 1,
         UNCHANGED <<options, route, xhr, requests, reported, finished>>
  PROVE  HookInv'
<1>1. /\ options \in [success : BOOLEAN, fail : BOOLEAN] /\ route \in {1, 2} /\ calls \in Nat
      /\ xhr \in [Xhr -> XhrType] /\ requests \subseteq RequestType /\ Numbered
  BY DEF HookInv, HostTypes
<1>2. Logged'
  <2>1. UNCHANGED <<options, reported, finished>> /\ calls' \in Nat /\ calls' >= calls
    BY <1>1
  <2>2. \A c : InUse(xhr', requests', c) => InUse(xhr, requests, c) \/ c > calls
    OBVIOUS
  <2> QED BY <2>1, <2>2, OtherKeeps
<1>3. Numbered'
  <2>1. \A x \in Xhr : xhr[x].call \in Nat
    BY <1>1 DEF XhrType
  <2>2. \A r \in requests : r.call \in Nat
    BY <1>1 DEF RequestType
  <2> QED BY <1>1, <2>1, <2>2 DEF Numbered
<1> QED BY <1>1, <1>2, <1>3 DEF HookInv, HostTypes

LEMMA ConsoleErrorKeeps ==
  ASSUME HookInv, NEW args \in Arguments, NEW throws \in BOOLEAN, ConsoleError(args, throws)
  PROVE  HookInv'
<1> DEFINE given == NormalizeConsoleError(args)
           name == SpreadName(given)
<1>1. given \in Reason
  BY HooksAssumption, NormalizedLog DEF HooksAssumption
<1>2. /\ calls' = calls + 1 /\ UNCHANGED <<options, route, xhr, requests, finished>>
      /\ reported' = IF throws THEN reported ELSE Append(reported, Thrown(calls', name, given))
  BY DEF ConsoleError, Call
<1> HIDE DEF given
<1>3. name \in Phrase /\ NameIsGiven(name, given)
  BY <1>1, OwnAreThere DEF SpreadName, Reason, NameIsGiven
<1> HIDE DEF name
<1>4. CASE throws
  BY <1>2, <1>4, SilentKeeps
<1>5. CASE ~throws
  BY <1>1, <1>2, <1>3, <1>5, ThrownKeeps
<1> QED BY <1>4, <1>5

LEMMA UncaughtKeeps == ASSUME HookInv, NEW reason \in Reasons, Uncaught(reason) PROVE HookInv'
<1> DEFINE given == IF reason.is = "null" \/ (reason.is = "string" /\ reason.message = "")
                    THEN Text("Unknown script error") ELSE reason
           name == NameOr("ErrorEvent", given)
<1>1. given \in Reason
  BY HooksAssumption, OwnAreThere DEF HooksAssumption, Text, Reason
<1>2. /\ calls' = calls + 1 /\ UNCHANGED <<options, route, xhr, requests, finished>>
      /\ reported' = Append(reported, Thrown(calls', name, given))
  BY DEF Uncaught, Call
<1> HIDE DEF given
<1>3. name \in Phrase /\ NameIsGiven(name, given)
  BY <1>1, OwnAreThere DEF NameOr, Reason, NameIsGiven
<1> HIDE DEF name
<1> QED BY <1>1, <1>2, <1>3, ThrownKeeps

LEMMA UnhandledKeeps ==
  ASSUME HookInv, NEW reason \in Reasons, NEW n \in {"ErrorEvent", "UnhandleRejection"},
         Unhandled(reason, n)
  PROVE  HookInv'
<1> DEFINE name == NameOr(n, reason)
<1>1. reason \in Reason
  BY HooksAssumption DEF HooksAssumption
<1>2. /\ calls' = calls + 1 /\ UNCHANGED <<options, route, xhr, requests, finished>>
      /\ reported' = Append(reported, Thrown(calls', name, reason))
  BY DEF Unhandled, Call
<1>3. name \in Phrase /\ NameIsGiven(name, reason)
  BY <1>1, OwnAreThere DEF NameOr, Reason, NameIsGiven
<1> HIDE DEF name
<1> QED BY <1>1, <1>2, <1>3, ThrownKeeps

LEMMA LeaveKeeps == ASSUME HookInv, Leave PROVE HookInv'
<1>1. route' \in {1, 2} /\ UNCHANGED <<options, xhr, requests, calls, reported, finished>>
  BY DEF Leave, HookInv, HostTypes
<1> QED BY <1>1, SameKeeps

-----------------------------------------------------------------------------
LEMMA HookStart == HookInit => HookInv
<1> SUFFICES ASSUME HookInit PROVE HookInv
  OBVIOUS
<1>1. \A x \in Xhr : xhr[x] = Fresh
  BY DEF HookInit
<1>2. Fresh \in XhrType /\ Fresh.phase = "new"
  BY DEF Fresh, XhrType, Nowhere
<1>3. xhr \in [Xhr -> XhrType] /\ \A x \in Xhr : ~UnderWay(xhr[x])
  BY <1>1, <1>2 DEF HookInit, UnderWay
<1>4. requests = {} /\ reported = <<>> /\ finished = <<>> /\ calls = 0
  BY DEF HookInit
<1>5. HostTypes
  BY <1>3 DEF HookInit, HostTypes
<1>6. Numbered
  BY <1>3, <1>4 DEF Numbered
<1>7. LogTypes /\ Ended
  <2>1. <<>> \in Seq(HookReport) /\ <<>> \in Seq(EndType) /\ DOMAIN <<>> = {}
    OBVIOUS
  <2> QED BY <1>4, <2>1 DEF LogTypes, Ended
<1>8. RequestsAreReported
  BY <1>4 DEF RequestsAreReported
<1> QED BY <1>5, <1>6, <1>7, <1>8 DEF HookInv, Logged

LEMMA HookStep == HookInv /\ [HookNext]_hookVars => HookInv'
<1> SUFFICES ASSUME HookInv, [HookNext]_hookVars PROVE HookInv'
  OBVIOUS
<1>1. CASE \E x \in Xhr : Open(x) \/ \E body \in Contents : Send(x, body)
  BY <1>1, OpenKeeps, SendKeeps
<1>2. CASE \E x \in Xhr, outcome \in Outcomes,
              throws \in SUBSET {"loadend", "abort", "error", "timeout"} :
             /\ throws \subseteq EventsOf(outcome)
             /\ \E response \in Answers(outcome) : XhrEnds(x, outcome, response, throws)
  BY <1>2, XhrEndsKeeps
<1>3. CASE (\E body \in Contents : Request(body, FALSE)) \/ \E size \in Sizes : Request(size, TRUE)
  BY <1>3, RequestKeeps DEF Contents
<1>4. CASE \E r \in requests, ok, condition, throws \in BOOLEAN, size \in Sizes :
             SuccessCallback(r, ok, size, condition, throws)
  BY <1>4, SuccessKeeps
<1>5. CASE \E r \in requests, throws \in BOOLEAN : FailCallback(r, throws)
  BY <1>5, FailKeeps
<1>6. CASE \E args \in Arguments, throws \in BOOLEAN : ConsoleError(args, throws)
  BY <1>6, ConsoleErrorKeeps
<1>7. CASE \E reason \in Reasons :
             Uncaught(reason) \/ \E name \in {"ErrorEvent", "UnhandleRejection"} : Unhandled(reason, name)
  BY <1>7, UncaughtKeeps, UnhandledKeeps
<1>8. CASE Leave
  BY <1>8, LeaveKeeps
<1>9. CASE UNCHANGED hookVars
  <2>1. route' \in {1, 2} /\ UNCHANGED <<options, xhr, requests, calls, reported, finished>>
    BY <1>9 DEF hookVars, HookInv, HostTypes
  <2> QED BY <2>1, SameKeeps
<1> QED BY <1>1, <1>2, <1>3, <1>4, <1>5, <1>6, <1>7, <1>8, <1>9 DEF HookNext

\* network.ts, error.ts: what the SDK wraps around its host reports every
\* request that the options ask for, and none of its own, from the page it was
\* made at, the texts of a failed one whole; and every error with a name and a
\* text, as far as the host gave them.
THEOREM RequestsAlwaysReported == HookInit /\ [][HookNext]_hookVars => []RequestsAreReported
<1>1. HookInv => RequestsAreReported
  BY DEF HookInv, Logged
<1> QED BY <1>1, HookStart, HookStep, PTL

-----------------------------------------------------------------------------
(***************************************************************************)
(* Identity.  A load has filed everything under what it has cached, and     *)
(* what it has cached does not change.                                      *)
(***************************************************************************)
TabState == [load : Nat, cachedUuid : Nat, cachedSessionId : Nat, fresh : Nat, busy : BOOLEAN]
LoadEntry == [tab : Tab, kind : {"opened", "copied", "again"}, uuid : Nat, session : Nat]
Filing == [load : Nat, uuid : Nat, session : Nat]

IdentityTypes ==
  /\ platform \in {"web", "mp"} /\ collect \in BOOLEAN /\ works \in BOOLEAN /\ broken \in BOOLEAN
  /\ ~works => broken
  /\ minted \in Nat /\ uuidKey \in Nat /\ sessionKey \in [Tab -> Nat] /\ tab \in [Tab -> TabState]
  /\ makers \subseteq Nat /\ IsFiniteSet(makers)
  /\ filed \in Seq(Filing) /\ loads \in Seq(LoadEntry)

TabOK(t) ==
  /\ tab[t].load <= Len(loads)
  /\ tab[t].load # 0 => loads[tab[t].load].tab = t
  /\ tab[t].load = 0 => tab[t] = NeverLoaded /\ sessionKey[t] = NoId
  /\ tab[t].fresh # NoId => tab[t].busy /\ tab[t].cachedUuid = NoId
  /\ tab[t].busy => tab[t].fresh # NoId \/ tab[t].cachedUuid # NoId
  /\ tab[t].load \in makers => tab[t].fresh # NoId \/ tab[t].cachedUuid # NoId

UnderCached(r, t) ==
  r.load = tab[t].load => r.uuid = tab[t].cachedUuid /\ r.session = tab[t].cachedSessionId
FiledOK(r) ==
  /\ r.load \in 1 .. Len(loads) /\ r.uuid # NoId /\ r.session # NoId /\ r.session <= minted
  /\ \A t \in Tab : UnderCached(r, t)

SameIdentity == \A i, j \in DOMAIN filed :
  filed[i].load = filed[j].load => filed[i].uuid = filed[j].uuid /\ filed[i].session = filed[j].session

FilesInv ==
  /\ \A t \in Tab : TabOK(t)
  /\ \A i \in DOMAIN filed : FiledOK(filed[i])
  /\ SameIdentity
  /\ \A m \in makers : m \in 1 .. Len(loads)

\* The devices that were made, at most one by each load, are all there are.
Pool(S) ==
  /\ IsFiniteSet(S) /\ Cardinality(S) <= Cardinality(makers)
  /\ uuidKey \in S \cup {NoId}
  /\ \A t \in Tab : tab[t].cachedUuid \in S \cup {NoId} /\ tab[t].fresh \in S \cup {NoId}
  /\ \A i \in DOMAIN filed : filed[i].uuid \in S
PoolInv == \E S : Pool(S)

\* With a storage that works a device that is stored stays, and is found.
FoundInv ==
  ~broken =>
    /\ \A l \in DOMAIN loads : loads[l].uuid # NoId => uuidKey # NoId
    /\ \A m \in makers : loads[m].uuid = NoId

\* With a storage that works a session is the one of its tab: its first in a
\* page, where it is kept, the one of the launch in a mini-program that starts
\* one.
AnewEachLaunch == platform = "mp" /\ collect

SessionsInv ==
  /\ \A t \in Tab : sessionKey[t] <= minted /\ tab[t].cachedSessionId <= minted
  /\ platform = "mp" => \A l \in DOMAIN loads : loads[l].tab = FirstTab
  /\ ~broken => \A t \in Tab : tab[t].cachedSessionId \in {NoId, sessionKey[t]}
  /\ ~broken /\ AnewEachLaunch =>
       /\ \A t \in Tab : tab[t].cachedSessionId = NoId => sessionKey[t] = NoId
       /\ \A t \in Tab : \A i \in DOMAIN filed :
            filed[i].load # tab[t].load => filed[i].session # tab[t].cachedSessionId
       /\ \A i, j \in DOMAIN filed : filed[i].load # filed[j].load => filed[i].session # filed[j].session
  /\ ~broken /\ ~AnewEachLaunch =>
       \A i \in DOMAIN filed : filed[i].session = sessionKey[loads[filed[i].load].tab]
  /\ ~broken /\ platform = "web" /\ (\A l \in DOMAIN loads : loads[l].kind # "copied") =>
       \A t, u \in Tab : t # u /\ sessionKey[t] = sessionKey[u] => sessionKey[t] = NoId

IdentityInv == IdentityTypes /\ FilesInv /\ PoolInv /\ FoundInv /\ SessionsInv

-----------------------------------------------------------------------------
LEMMA NeverTyped == NeverLoaded \in TabState /\ \A n \in Nat : [NeverLoaded EXCEPT !.load = n] \in TabState
BY DEF NeverLoaded, TabState, NoId

LEMMA IdentityStart == IdentityInit => IdentityInv
<1> SUFFICES ASSUME IdentityInit PROVE IdentityInv
  OBVIOUS
<1>1. /\ platform \in {"web", "mp"} /\ collect \in BOOLEAN /\ works = TRUE /\ broken = FALSE
      /\ uuidKey = NoId /\ sessionKey = [t \in Tab |-> NoId] /\ tab = [t \in Tab |-> NeverLoaded]
      /\ minted = 0 /\ makers = {} /\ filed = <<>> /\ loads = <<>>
  BY DEF IdentityInit
<1>2. <<>> \in Seq(Filing) /\ <<>> \in Seq(LoadEntry) /\ DOMAIN <<>> = {} /\ Len(<<>>) = 0
  OBVIOUS
<1>3. IsFiniteSet({}) /\ Cardinality({}) = 0
  BY FS_EmptySet
<1>4. IdentityTypes
  BY <1>1, <1>2, <1>3, NeverTyped DEF IdentityTypes, NoId
<1>5. FilesInv
  BY <1>1, <1>2 DEF FilesInv, TabOK, SameIdentity, NeverLoaded, NoId
<1>6. Pool({})
  BY <1>1, <1>2, <1>3 DEF Pool, NeverLoaded
<1>7. FoundInv /\ SessionsInv
  BY <1>1, <1>2 DEF FoundInv, SessionsInv, NeverLoaded, NoId
<1> QED BY <1>4, <1>5, <1>6, <1>7 DEF IdentityInv, PoolInv

(***************************************************************************)
(* A load.                                                                 *)
(***************************************************************************)
LEMMA LoadKeeps ==
  ASSUME IdentityInv, NEW t \in Tab, NEW inherited \in Nat, inherited <= minted,
         NEW kind \in {"opened", "copied", "again"}, Load(t, inherited, kind),
         platform = "mp" => t = FirstTab,
         kind # "copied" => inherited = sessionKey[t],
         kind = "copied" => tab[t].load = 0
  PROVE  IdentityInv'
<1> DEFINE n == Len(loads) + 1
           e == [tab |-> t, kind |-> kind, uuid |-> uuidKey, session |-> inherited]
           s == ResetSessionId(inherited)
           now == [NeverLoaded EXCEPT !.load = n]
<1>1. IdentityTypes /\ FilesInv /\ PoolInv /\ FoundInv /\ SessionsInv
  BY DEF IdentityInv
<1>2. Len(loads) \in Nat /\ n \in Nat /\ loads \in Seq(LoadEntry) /\ e \in LoadEntry
  BY <1>1 DEF IdentityTypes, LoadEntry
<1>3. s \in Nat /\ s \in {inherited, NoId} /\ s <= minted /\ minted \in Nat
      /\ (~broken /\ AnewEachLaunch => s = NoId) /\ (~AnewEachLaunch => s = inherited)
  BY <1>1 DEF IdentityTypes, ResetSessionId, SetLocalStorage, NoId, AnewEachLaunch
<1>4. /\ now \in TabState /\ now.load = n /\ now.cachedUuid = NoId /\ now.cachedSessionId = NoId
      /\ now.fresh = NoId /\ now.busy = FALSE
  BY <1>2 DEF NeverLoaded, NoId, TabState
<1>5. /\ sessionKey' = [sessionKey EXCEPT ![t] = s] /\ tab' = [tab EXCEPT ![t] = now]
      /\ loads' = Append(loads, e)
      /\ UNCHANGED <<platform, collect, works, broken, uuidKey, minted, makers, filed>>
  BY DEF Load
<1> HIDE DEF e, s, now
<1>6. /\ loads' \in Seq(LoadEntry) /\ Len(loads') = n /\ DOMAIN loads' = 1 .. n
      /\ DOMAIN loads = 1 .. Len(loads)
      /\ \A l \in 1 .. Len(loads) : loads'[l] = loads[l]
      /\ loads'[n] = e
  BY <1>2, <1>5
<1>7. e.tab = t /\ e.kind = kind /\ e.uuid = uuidKey
  BY DEF e
<1>8. /\ sessionKey \in [Tab -> Nat] /\ tab \in [Tab -> TabState]
      /\ tab'[t] = now /\ sessionKey'[t] = s
      /\ \A u \in Tab : u # t => tab'[u] = tab[u] /\ sessionKey'[u] = sessionKey[u]
  BY <1>1, <1>5 DEF IdentityTypes
<1>9. /\ makers \subseteq 1 .. Len(loads) /\ n \notin makers
      /\ \A u \in Tab : TabOK(u)
      /\ \A i \in DOMAIN filed : FiledOK(filed[i])
  BY <1>1, <1>2 DEF FilesInv
<1>10. \A u \in Tab : tab[u].load \in 0 .. Len(loads)
  BY <1>2, <1>8, <1>9 DEF TabOK, TabState
<1> HIDE DEF n
<1>11. IdentityTypes'
  BY <1>1, <1>3, <1>4, <1>5, <1>6 DEF IdentityTypes
<1>12. \A u \in Tab : TabOK(u)'
  <2> TAKE u \in Tab
  <2>1. CASE u = t
    BY <1>2, <1>4, <1>5, <1>6, <1>7, <1>8, <1>9, <2>1 DEF TabOK, n
  <2>2. CASE u # t
    BY <1>2, <1>5, <1>6, <1>8, <1>9, <1>10, <2>2 DEF TabOK, n
  <2> QED BY <2>1, <2>2
<1>13. \A i \in DOMAIN filed : FiledOK(filed[i])'
  <2> TAKE i \in DOMAIN filed
  <2> DEFINE r == filed[i]
  <2>1. /\ r.load \in 1 .. Len(loads) /\ r.uuid # NoId /\ r.session # NoId /\ r.session <= minted
        /\ \A u \in Tab : UnderCached(r, u)
    BY <1>9 DEF FiledOK
  <2> HIDE DEF r
  <2>2. r.load \in 1 .. n /\ r.load # n
    BY <1>2, <2>1 DEF n
  <2>3. \A u \in Tab : r.load = tab'[u].load =>
           r.uuid = tab'[u].cachedUuid /\ r.session = tab'[u].cachedSessionId
    BY <1>4, <1>8, <2>1, <2>2 DEF UnderCached
  <2>4. r' = r
    BY <1>5 DEF r
  <2> QED BY <1>5, <1>6, <2>1, <2>2, <2>3, <2>4 DEF FiledOK, UnderCached, r
<1>14. FilesInv'
  <2>1. \A m \in makers' : m \in 1 .. Len(loads')
    BY <1>2, <1>5, <1>6, <1>9 DEF n
  <2> QED BY <1>1, <1>5, <1>12, <1>13, <2>1 DEF FilesInv, SameIdentity
<1>15. PoolInv'
  <2>1. PICK S : Pool(S)
    BY <1>1 DEF PoolInv
  <2>2. \A u \in Tab : tab'[u].cachedUuid \in S \cup {NoId} /\ tab'[u].fresh \in S \cup {NoId}
    BY <1>4, <1>8, <2>1 DEF Pool
  <2>3. Pool(S)'
    BY <1>5, <2>1, <2>2 DEF Pool
  <2> QED BY <2>3 DEF PoolInv
<1>16. FoundInv'
  <2> SUFFICES ASSUME ~broken
               PROVE  /\ \A l \in 1 .. n : loads'[l].uuid # NoId => uuidKey # NoId
                      /\ \A m \in makers : loads'[m].uuid = NoId
    BY <1>5, <1>6 DEF FoundInv
  <2>1. ASSUME NEW l \in 1 .. n, loads'[l].uuid # NoId PROVE uuidKey # NoId
    <3>1. CASE l \in 1 .. Len(loads)
      BY <1>1, <1>6, <2>1, <3>1 DEF FoundInv
    <3>2. CASE l = n
      BY <1>6, <1>7, <2>1, <3>2
    <3> QED BY <1>2, <2>1, <3>1, <3>2 DEF n
  <2> QED BY <1>1, <1>6, <1>9, <2>1 DEF FoundInv
<1>17. SessionsInv'
  <2>1. \A u \in Tab : sessionKey'[u] <= minted' /\ tab'[u].cachedSessionId <= minted'
    BY <1>1, <1>3, <1>4, <1>5, <1>8 DEF SessionsInv, NoId
  <2>2. platform' = "mp" => \A l \in DOMAIN loads' : loads'[l].tab = FirstTab
    <3> SUFFICES ASSUME platform = "mp", NEW l \in 1 .. n PROVE loads'[l].tab = FirstTab
      BY <1>5, <1>6
    <3>1. CASE l \in 1 .. Len(loads)
      BY <1>1, <1>6, <3>1 DEF SessionsInv
    <3>2. CASE l = n
      BY <1>6, <1>7, <3>2
    <3> QED BY <1>2, <3>1, <3>2 DEF n
  <2>3. ~broken' => \A u \in Tab : tab'[u].cachedSessionId \in {NoId, sessionKey'[u]}
    BY <1>1, <1>4, <1>5, <1>8 DEF SessionsInv
  <2>4. ~broken' /\ AnewEachLaunch' =>
          /\ \A u \in Tab : tab'[u].cachedSessionId = NoId => sessionKey'[u] = NoId
          /\ \A u \in Tab : \A i \in DOMAIN filed' :
               filed'[i].load # tab'[u].load => filed'[i].session # tab'[u].cachedSessionId
          /\ \A i, j \in DOMAIN filed' :
               filed'[i].load # filed'[j].load => filed'[i].session # filed'[j].session
    <3>1. AnewEachLaunch' = AnewEachLaunch
      BY <1>5 DEF AnewEachLaunch
    <3> SUFFICES ASSUME ~broken, AnewEachLaunch
                 PROVE  /\ \A u \in Tab : tab'[u].cachedSessionId = NoId => sessionKey'[u] = NoId
                        /\ \A u \in Tab : \A i \in DOMAIN filed :
                             filed[i].load # tab'[u].load => filed[i].session # tab'[u].cachedSessionId
                        /\ \A i, j \in DOMAIN filed :
                             filed[i].load # filed[j].load => filed[i].session # filed[j].session
      BY <1>5, <3>1
    <3>2. \A i \in DOMAIN filed : filed[i].session # NoId
      BY <1>9 DEF FiledOK
    <3>3. \A u \in Tab : tab'[u].cachedSessionId = NoId => sessionKey'[u] = NoId
      BY <1>1, <1>3, <1>8 DEF SessionsInv
    <3>4. \A u \in Tab : \A i \in DOMAIN filed :
            filed[i].load # tab'[u].load => filed[i].session # tab'[u].cachedSessionId
      BY <1>1, <1>4, <1>8, <3>2 DEF SessionsInv
    <3> QED BY <1>1, <3>3, <3>4 DEF SessionsInv
  <2>5. ~broken' /\ ~AnewEachLaunch' =>
          \A i \in DOMAIN filed' : filed'[i].session = sessionKey'[loads'[filed'[i].load].tab]
    <3> SUFFICES ASSUME ~broken, ~AnewEachLaunch, NEW i \in DOMAIN filed
                 PROVE  filed[i].session = sessionKey'[loads'[filed[i].load].tab]
      BY <1>5 DEF AnewEachLaunch
    <3> DEFINE l == filed[i].load
               u == loads[l].tab
    <3>1. l \in 1 .. Len(loads) /\ filed[i].session # NoId
      BY <1>9 DEF FiledOK
    <3>2. u \in Tab /\ loads'[l] = loads[l]
      <4>1. loads[l] \in LoadEntry
        BY <1>2, <3>1
      <4> QED BY <1>6, <3>1, <4>1 DEF LoadEntry
    <3>3. filed[i].session = sessionKey[u]
      BY <1>1 DEF SessionsInv
    <3>4. sessionKey'[u] = sessionKey[u]
      <4>1. CASE u # t
        BY <1>8, <3>2, <4>1
      <4>2. CASE u = t
        <5>1. sessionKey[t] # NoId
          BY <3>1, <3>3, <4>2
        <5>2. kind # "copied"
          BY <1>9, <5>1 DEF TabOK
        <5> QED BY <1>3, <1>8, <4>2, <5>2
      <4> QED BY <4>1, <4>2
    <3> HIDE DEF l, u
    <3> QED BY <3>2, <3>3, <3>4 DEF l, u
  <2>6. ~broken' /\ platform' = "web" /\ (\A l \in DOMAIN loads' : loads'[l].kind # "copied") =>
          \A u, v \in Tab : u # v /\ sessionKey'[u] = sessionKey'[v] => sessionKey'[u] = NoId
    <3> SUFFICES ASSUME ~broken, platform = "web", \A l \in 1 .. n : loads'[l].kind # "copied"
                 PROVE  \A u, v \in Tab : u # v /\ sessionKey'[u] = sessionKey'[v] => sessionKey'[u] = NoId
      BY <1>5, <1>6
    <3>1. \A l \in 1 .. Len(loads) : l \in 1 .. n /\ loads[l].kind # "copied"
      BY <1>2, <1>6 DEF n
    <3>2. kind # "copied"
      BY <1>2, <1>6, <1>7 DEF n
    <3>3. s = sessionKey[t]
      BY <1>3, <3>2 DEF AnewEachLaunch
    <3>4. \A u \in Tab : sessionKey'[u] = sessionKey[u]
      BY <1>8, <3>3
    <3>5. \A u, v \in Tab : u # v /\ sessionKey[u] = sessionKey[v] => sessionKey[u] = NoId
      BY <1>1, <1>6, <3>1 DEF SessionsInv
    <3> QED BY <3>4, <3>5
  <2> QED BY <2>1, <2>2, <2>3, <2>4, <2>5, <2>6 DEF SessionsInv
<1> QED BY <1>11, <1>14, <1>15, <1>16, <1>17 DEF IdentityInv


LEMMA OpensKeep ==
  ASSUME IdentityInv, NEW t \in Tab, OpenTab(t) \/ Reload(t) \/ \E opener \in Tab : OpenedBy(t, opener)
  PROVE  IdentityInv'
<1>1. /\ IdentityTypes /\ TabOK(t) /\ SessionsInv /\ minted \in Nat /\ sessionKey \in [Tab -> Nat]
      /\ loads \in Seq(LoadEntry) /\ platform \in {"web", "mp"} /\ tab \in [Tab -> TabState]
  BY DEF IdentityInv, IdentityTypes, FilesInv
<1>2. CASE OpenTab(t)
  <2>1. NoId = sessionKey[t] /\ NoId \in Nat /\ NoId <= minted
    BY <1>1, <1>2 DEF OpenTab, TabOK, NoId
  <2> QED BY <1>2, <2>1, LoadKeeps DEF OpenTab
<1>3. CASE Reload(t)
  <2>1. platform = "mp" => t = FirstTab
    <3>1. tab[t].load \in DOMAIN loads
      BY <1>1, <1>3 DEF Reload, TabOK, TabState
    <3> QED BY <1>1, <1>3, <3>1 DEF Reload, TabOK, SessionsInv
  <2>2. sessionKey[t] \in Nat /\ sessionKey[t] <= minted
    BY <1>1 DEF SessionsInv
  <2> QED BY <1>3, <2>1, <2>2, LoadKeeps DEF Reload
<1>4. CASE \E opener \in Tab : OpenedBy(t, opener)
  <2>1. PICK opener \in Tab : OpenedBy(t, opener)
    BY <1>4
  <2>2. sessionKey[opener] \in Nat /\ sessionKey[opener] <= minted
    BY <1>1 DEF SessionsInv
  <2> QED BY <2>1, <2>2, LoadKeeps DEF OpenedBy
<1> QED BY <1>2, <1>3, <1>4

(***************************************************************************)
(* The device.  What a tab has cached as device, and what it is about to   *)
(* keep, changes only while it has filed nothing.                          *)
(***************************************************************************)
KeepsSessions ==
  /\ UNCHANGED <<platform, collect, works, broken, sessionKey, filed, loads>>
  /\ \A u \in Tab : tab'[u].load = tab[u].load /\ tab'[u].cachedSessionId = tab[u].cachedSessionId

LEMMA SessionsKept ==
  ASSUME IdentityTypes, IdentityTypes', SessionsInv, KeepsSessions, minted <= minted'
  PROVE  SessionsInv'
<1>1. /\ UNCHANGED <<platform, collect, works, broken, sessionKey, filed, loads>>
      /\ \A u \in Tab : tab'[u].load = tab[u].load /\ tab'[u].cachedSessionId = tab[u].cachedSessionId
  BY DEF KeepsSessions
<1>2. /\ minted \in Nat /\ minted' \in Nat
      /\ \A u \in Tab : sessionKey[u] \in Nat /\ tab[u].cachedSessionId \in Nat
  BY DEF IdentityTypes, TabState
<1>3. AnewEachLaunch' = AnewEachLaunch
  BY <1>1 DEF AnewEachLaunch
<1>4. \A u \in Tab : sessionKey'[u] <= minted' /\ tab'[u].cachedSessionId <= minted'
  BY <1>1, <1>2 DEF SessionsInv
<1> QED BY <1>1, <1>3, <1>4 DEF SessionsInv

LEMMA GetUuidKeeps ==
  ASSUME IdentityInv, NEW t \in Tab, GetUuid(t)
  PROVE  IdentityInv'
<1> DEFINE known == IF tab[t].cachedUuid # NoId THEN tab[t].cachedUuid ELSE GetLocalStorage(uuidKey)
<1>1. IdentityTypes /\ FilesInv /\ PoolInv /\ FoundInv /\ SessionsInv
  BY DEF IdentityInv
<1>2. /\ minted \in Nat /\ uuidKey \in Nat /\ tab \in [Tab -> TabState] /\ tab[t] \in TabState
      /\ makers \subseteq Nat /\ IsFiniteSet(makers) /\ loads \in Seq(LoadEntry) /\ Len(loads) \in Nat
      /\ (~works => broken)
  BY <1>1 DEF IdentityTypes
<1>3. /\ tab[t].load # 0 /\ ~tab[t].busy
      /\ UNCHANGED <<platform, collect, works, broken, uuidKey, sessionKey, filed, loads>>
  BY DEF GetUuid
<1>4. /\ known # NoId => /\ tab' = [tab EXCEPT ![t].cachedUuid = known, ![t].busy = TRUE]
                         /\ UNCHANGED <<minted, makers>>
      /\ known = NoId => /\ minted' = minted + 1 /\ makers' = makers \cup {tab[t].load}
                         /\ tab' = [tab EXCEPT ![t].fresh = minted + 1, ![t].busy = TRUE]
  BY DEF GetUuid
<1>5. known \in Nat /\ known \in {tab[t].cachedUuid, uuidKey, NoId}
  BY <1>2 DEF GetLocalStorage, TabState, NoId
<1>6. known = NoId => tab[t].cachedUuid = NoId /\ (~broken => uuidKey = NoId)
  BY <1>2 DEF GetLocalStorage
<1>7. tab[t].cachedUuid # NoId => known = tab[t].cachedUuid
  OBVIOUS
<1> HIDE DEF known
<1>8. /\ \A u \in Tab : TabOK(u)
      /\ \A i \in DOMAIN filed : FiledOK(filed[i])
      /\ \A m \in makers : m \in 1 .. Len(loads)
      /\ SameIdentity
  BY <1>1 DEF FilesInv
<1>9. tab[t].fresh = NoId /\ tab[t].load \in 1 .. Len(loads) /\ loads[tab[t].load].tab = t
  BY <1>2, <1>3, <1>8 DEF TabOK, TabState
<1>10. /\ \A u \in Tab : u # t => tab'[u] = tab[u]
       /\ tab'[t].load = tab[t].load /\ tab'[t].cachedSessionId = tab[t].cachedSessionId
       /\ tab'[t].busy /\ tab' \in [Tab -> TabState]
       /\ known # NoId => tab'[t].cachedUuid = known /\ tab'[t].fresh = tab[t].fresh
       /\ known = NoId => tab'[t].cachedUuid = tab[t].cachedUuid /\ tab'[t].fresh = minted + 1
  <2>1. CASE known # NoId
    <3>1. tab' = [tab EXCEPT ![t].cachedUuid = known, ![t].busy = TRUE]
      BY <1>4, <2>1
    <3> QED BY <1>2, <1>5, <2>1, <3>1 DEF TabState
  <2>2. CASE known = NoId
    <3>1. tab' = [tab EXCEPT ![t].fresh = minted + 1, ![t].busy = TRUE] /\ minted + 1 \in Nat
      BY <1>2, <1>4, <2>2
    <3> QED BY <1>2, <2>2, <3>1 DEF TabState
  <2> QED BY <2>1, <2>2
<1>11. minted' \in Nat /\ minted <= minted' /\ minted + 1 # NoId /\ makers' \subseteq Nat
  <2>1. tab[t].load \in Nat /\ minted + 1 # 0
    BY <1>2, <1>9
  <2>2. CASE known # NoId
    BY <1>2, <1>4, <2>1, <2>2 DEF NoId
  <2>3. CASE known = NoId
    <3>1. minted' = minted + 1 /\ makers' = makers \cup {tab[t].load}
      BY <1>4, <2>3
    <3>2. makers' \subseteq Nat
      BY <1>2, <2>1, <3>1
    <3>3. minted' \in Nat /\ minted <= minted'
      BY <1>2, <3>1
    <3> QED BY <2>1, <3>2, <3>3 DEF NoId
  <2> QED BY <2>2, <2>3
<1>12. IsFiniteSet(makers')
  <2>1. IsFiniteSet(makers \cup {tab[t].load})
    BY <1>2, FS_AddElement
  <2>2. makers' \in {makers, makers \cup {tab[t].load}}
    BY <1>4
  <2> QED BY <1>2, <2>1, <2>2
<1>13. IdentityTypes'
  BY <1>1, <1>3, <1>10, <1>11, <1>12 DEF IdentityTypes
<1>14. \A u \in Tab : TabOK(u)'
  <2> TAKE u \in Tab
  <2>1. CASE u = t
    <3>1. CASE known # NoId
      BY <1>3, <1>4, <1>9, <1>10, <2>1, <3>1 DEF TabOK
    <3>2. CASE known = NoId
      BY <1>3, <1>6, <1>9, <1>10, <1>11, <2>1, <3>2 DEF TabOK
    <3> QED BY <3>1, <3>2
  <2>2. CASE u # t
    <3>1. TabOK(u) /\ tab[u].load # tab[t].load
      BY <1>2, <1>8, <1>9, <2>2 DEF TabOK
    <3>2. tab'[u].load \in makers' => tab[u].load \in makers
      BY <1>4, <1>10, <2>2, <3>1
    <3> QED BY <1>3, <1>10, <2>2, <3>1, <3>2 DEF TabOK
  <2> QED BY <2>1, <2>2
<1>15. \A i \in DOMAIN filed : FiledOK(filed[i])'
  <2> TAKE i \in DOMAIN filed
  <2> DEFINE r == filed[i]
  <2>1. /\ r.load \in 1 .. Len(loads) /\ r.uuid # NoId /\ r.session # NoId /\ r.session <= minted
        /\ \A u \in Tab : UnderCached(r, u)
    BY <1>8 DEF FiledOK
  <2>2. r.session \in Nat
    <3>1. filed[i] \in Filing
      BY <1>1 DEF IdentityTypes
    <3> QED BY <3>1 DEF Filing
  <2> HIDE DEF r
  <2>3. r.session <= minted'
    BY <1>2, <1>11, <2>1, <2>2
  <2>4. \A u \in Tab : r.load = tab'[u].load =>
           r.uuid = tab'[u].cachedUuid /\ r.session = tab'[u].cachedSessionId
    BY <1>7, <1>10, <2>1 DEF UnderCached
  <2>5. r' = r
    BY <1>3 DEF r
  <2> QED BY <1>3, <2>1, <2>3, <2>4, <2>5 DEF FiledOK, UnderCached, r
<1>16. FilesInv'
  <2>1. \A m \in makers' : m \in 1 .. Len(loads')
    BY <1>3, <1>4, <1>8, <1>9
  <2> QED BY <1>3, <1>8, <1>14, <1>15, <2>1 DEF FilesInv, SameIdentity
<1>17. PoolInv'
  <2>1. PICK S : Pool(S)
    BY <1>1 DEF PoolInv
  <2>2. CASE known # NoId
    <3>1. known \in S \cup {NoId}
      BY <1>5, <2>1 DEF Pool
    <3>2. \A u \in Tab : tab'[u].cachedUuid \in S \cup {NoId} /\ tab'[u].fresh \in S \cup {NoId}
      BY <1>10, <2>1, <2>2, <3>1 DEF Pool
    <3>3. Pool(S)'
      BY <1>3, <1>4, <2>1, <2>2, <3>2 DEF Pool
    <3> QED BY <3>3 DEF PoolInv
  <2>3. CASE known = NoId
    <3>0. PICK T : T = S \cup {minted + 1}
      OBVIOUS
    <3>1. tab[t].load \notin makers
      BY <1>6, <1>8, <1>9, <2>3 DEF TabOK
    <3>2. IsFiniteSet(T) /\ Cardinality(T) <= Cardinality(S) + 1
      <4>1. IsFiniteSet(S) /\ Cardinality(S) \in Nat
        BY <2>1, FS_CardinalityType DEF Pool
      <4>2. IsFiniteSet(T) /\ Cardinality(T) \in {Cardinality(S), Cardinality(S) + 1}
        BY <3>0, <4>1, FS_AddElement
      <4> QED BY <4>1, <4>2
    <3>3. Cardinality(makers') = Cardinality(makers) + 1
      BY <1>2, <1>4, <2>3, <3>1, FS_AddElement
    <3>4. Cardinality(T) <= Cardinality(makers')
      <4>1. Cardinality(S) \in Nat /\ Cardinality(makers) \in Nat /\ Cardinality(T) \in Nat
            /\ Cardinality(S) <= Cardinality(makers)
        BY <1>2, <2>1, <3>2, FS_CardinalityType DEF Pool
      <4> QED BY <3>2, <3>3, <4>1
    <3>5. \A u \in Tab : tab'[u].cachedUuid \in T \cup {NoId} /\ tab'[u].fresh \in T \cup {NoId}
      BY <1>10, <2>1, <2>3, <3>0 DEF Pool
    <3>6. uuidKey \in T \cup {NoId} /\ \A i \in DOMAIN filed : filed[i].uuid \in T
      BY <2>1, <3>0 DEF Pool
    <3>7. Pool(T)'
      BY <1>3, <3>2, <3>4, <3>5, <3>6 DEF Pool
    <3> QED BY <3>7 DEF PoolInv
  <2> QED BY <2>2, <2>3
<1>18. FoundInv'
  <2> SUFFICES ASSUME ~broken
               PROVE  /\ \A l \in DOMAIN loads : loads[l].uuid # NoId => uuidKey # NoId
                      /\ \A m \in makers' : loads[m].uuid = NoId
    BY <1>3 DEF FoundInv
  <2>1. \A l \in DOMAIN loads : loads[l].uuid # NoId => uuidKey # NoId
    BY <1>1 DEF FoundInv
  <2>2. known = NoId => loads[tab[t].load].uuid = NoId
    BY <1>2, <1>6, <1>9, <2>1
  <2> QED BY <1>1, <1>4, <2>1, <2>2 DEF FoundInv
<1>19. SessionsInv'
  <2>1. KeepsSessions
    BY <1>3, <1>10 DEF KeepsSessions
  <2> QED BY <1>1, <1>11, <1>13, <2>1, SessionsKept
<1> QED BY <1>13, <1>16, <1>17, <1>18, <1>19 DEF IdentityInv

LEMMA WriteUuidKeeps ==
  ASSUME IdentityInv, NEW t \in Tab, WriteUuid(t)
  PROVE  IdentityInv'
<1>1. IdentityTypes /\ FilesInv /\ PoolInv /\ FoundInv /\ SessionsInv
  BY DEF IdentityInv
<1>2. /\ minted \in Nat /\ uuidKey \in Nat /\ tab \in [Tab -> TabState] /\ tab[t] \in TabState
  BY <1>1 DEF IdentityTypes
<1>3. /\ tab[t].busy /\ tab[t].fresh # NoId
      /\ uuidKey' = SetLocalStorage(uuidKey, tab[t].fresh)
      /\ tab' = [tab EXCEPT ![t].cachedUuid = tab[t].fresh, ![t].fresh = NoId]
      /\ UNCHANGED <<platform, collect, works, broken, sessionKey, minted, makers, filed, loads>>
  BY DEF WriteUuid
<1>4. /\ \A u \in Tab : TabOK(u)
      /\ \A i \in DOMAIN filed : FiledOK(filed[i])
      /\ \A m \in makers : m \in 1 .. Len(loads)
      /\ SameIdentity
  BY <1>1 DEF FilesInv
<1>5. /\ \A u \in Tab : u # t => tab'[u] = tab[u]
      /\ tab'[t].load = tab[t].load /\ tab'[t].cachedSessionId = tab[t].cachedSessionId
      /\ tab'[t].busy = tab[t].busy /\ tab' \in [Tab -> TabState]
      /\ tab'[t].cachedUuid = tab[t].fresh /\ tab'[t].fresh = NoId
  BY <1>2, <1>3 DEF TabState, NoId
<1>6. uuidKey' \in Nat /\ uuidKey' \in {uuidKey, tab[t].fresh}
  BY <1>2, <1>3 DEF SetLocalStorage, TabState
<1>7. IdentityTypes'
  BY <1>1, <1>3, <1>5, <1>6 DEF IdentityTypes
<1>8. tab[t].cachedUuid = NoId /\ tab[t].load # 0
  BY <1>3, <1>4 DEF TabOK, NeverLoaded
<1>9. \A u \in Tab : TabOK(u)'
  <2> TAKE u \in Tab
  <2>1. CASE u = t
    BY <1>3, <1>4, <1>5, <1>8, <2>1 DEF TabOK
  <2>2. CASE u # t
    BY <1>3, <1>4, <1>5, <2>2 DEF TabOK
  <2> QED BY <2>1, <2>2
<1>10. \A i \in DOMAIN filed : FiledOK(filed[i])'
  <2> TAKE i \in DOMAIN filed
  <2> DEFINE r == filed[i]
  <2>1. /\ r.load \in 1 .. Len(loads) /\ r.uuid # NoId /\ r.session # NoId /\ r.session <= minted
        /\ \A u \in Tab : UnderCached(r, u)
    BY <1>4 DEF FiledOK
  <2> HIDE DEF r
  <2>2. \A u \in Tab : r.load = tab'[u].load =>
           r.uuid = tab'[u].cachedUuid /\ r.session = tab'[u].cachedSessionId
    BY <1>5, <1>8, <2>1 DEF UnderCached
  <2>3. r' = r
    BY <1>3 DEF r
  <2> QED BY <1>3, <2>1, <2>2, <2>3 DEF FiledOK, UnderCached, r
<1>11. FilesInv'
  BY <1>3, <1>4, <1>9, <1>10 DEF FilesInv, SameIdentity
<1>12. PoolInv'
  <2>1. PICK S : Pool(S)
    BY <1>1 DEF PoolInv
  <2>2. tab[t].fresh \in S
    BY <1>3, <2>1 DEF Pool
  <2>3. \A u \in Tab : tab'[u].cachedUuid \in S \cup {NoId} /\ tab'[u].fresh \in S \cup {NoId}
    BY <1>5, <2>1, <2>2 DEF Pool
  <2>4. Pool(S)'
    BY <1>3, <1>6, <2>1, <2>2, <2>3 DEF Pool
  <2> QED BY <2>4 DEF PoolInv
<1>13. FoundInv'
  BY <1>1, <1>3, <1>6 DEF FoundInv
<1>14. SessionsInv'
  <2>1. KeepsSessions
    BY <1>3, <1>5 DEF KeepsSessions
  <2>2. minted <= minted'
    BY <1>2, <1>3
  <2> QED BY <1>1, <1>7, <2>1, <2>2, SessionsKept
<1> QED BY <1>7, <1>11, <1>12, <1>13, <1>14 DEF IdentityInv


(***************************************************************************)
(* A report.  Its session is what the tab keeps from now on, or the new    *)
(* one that could not be kept.                                             *)
(***************************************************************************)
LEMMA StorageReportKeeps ==
  ASSUME IdentityInv, NEW t \in Tab, StorageReport(t)
  PROVE  IdentityInv'
<1> DEFINE session == SessionOf(t)
           e == [load |-> tab[t].load, uuid |-> tab[t].cachedUuid, session |-> session]
           k == Len(filed) + 1
<1>1. IdentityTypes /\ FilesInv /\ PoolInv /\ FoundInv /\ SessionsInv
  BY DEF IdentityInv
<1>2. /\ minted \in Nat /\ uuidKey \in Nat /\ tab \in [Tab -> TabState] /\ tab[t] \in TabState
      /\ sessionKey \in [Tab -> Nat] /\ loads \in Seq(LoadEntry) /\ Len(loads) \in Nat
      /\ filed \in Seq(Filing) /\ Len(filed) \in Nat
      /\ (~works => broken)
  BY <1>1 DEF IdentityTypes
<1>3. /\ \A u \in Tab : TabOK(u)
      /\ \A i \in DOMAIN filed : FiledOK(filed[i])
      /\ \A m \in makers : m \in 1 .. Len(loads)
      /\ SameIdentity
  BY <1>1 DEF FilesInv
<1>4. /\ tab[t].busy /\ tab[t].fresh = NoId
      /\ tab' = [tab EXCEPT ![t].cachedSessionId = session, ![t].busy = FALSE]
      /\ minted' = IF session = minted + 1 THEN session ELSE minted
      /\ sessionKey' = IF session = minted + 1
                       THEN [sessionKey EXCEPT ![t] = SetLocalStorage(@, session)] ELSE sessionKey
      /\ filed' = Append(filed, e)
      /\ UNCHANGED <<platform, collect, works, broken, uuidKey, makers, loads>>
  BY DEF StorageReport, Remember
<1>5. tab[t].cachedUuid # NoId /\ tab[t].load \in 1 .. Len(loads) /\ loads[tab[t].load].tab = t
  <2>1. TabOK(t)
    BY <1>3
  <2>2. tab[t].load # 0
    BY <1>4, <2>1 DEF TabOK, NeverLoaded
  <2>3. tab[t].load \in Nat
    BY <1>2 DEF TabState
  <2> QED BY <1>2, <1>4, <2>1, <2>2, <2>3 DEF TabOK
<1>6. /\ session \in Nat /\ session # NoId
      /\ tab[t].cachedSessionId # NoId => session = tab[t].cachedSessionId
      /\ session <= minted \/ session = minted + 1
      /\ session = minted + 1 => tab[t].cachedSessionId = NoId /\ (~broken => sessionKey[t] = NoId)
      /\ session # minted + 1 /\ ~broken => session = sessionKey[t]
  <2>1. tab[t].cachedSessionId \in Nat /\ sessionKey[t] \in Nat
        /\ tab[t].cachedSessionId <= minted /\ sessionKey[t] <= minted
        /\ (~broken => tab[t].cachedSessionId \in {NoId, sessionKey[t]})
    BY <1>1, <1>2 DEF SessionsInv, TabState
  <2> QED BY <1>2, <2>1 DEF SessionOf, GetLocalStorage, NoId
<1> HIDE DEF session
<1>7. /\ minted' \in Nat /\ minted <= minted' /\ session <= minted'
      /\ session = minted + 1 => minted' = minted + 1
      /\ session # minted + 1 => minted' = minted
  BY <1>2, <1>4, <1>6
<1>8. /\ sessionKey' \in [Tab -> Nat]
      /\ \A u \in Tab : u # t => sessionKey'[u] = sessionKey[u]
      /\ sessionKey'[t] \in {session, sessionKey[t]}
      /\ ~broken => sessionKey'[t] = session
      /\ session # minted + 1 => sessionKey' = sessionKey
  <2>1. CASE session = minted + 1
    <3>1. sessionKey' = [sessionKey EXCEPT ![t] = SetLocalStorage(sessionKey[t], session)]
      BY <1>2, <1>4, <2>1
    <3>2. SetLocalStorage(sessionKey[t], session) \in {session, sessionKey[t]}
          /\ (~broken => SetLocalStorage(sessionKey[t], session) = session)
      BY <1>2 DEF SetLocalStorage
    <3> QED BY <1>2, <1>6, <2>1, <3>1, <3>2
  <2>2. CASE session # minted + 1
    BY <1>2, <1>4, <1>6, <2>2
  <2> QED BY <2>1, <2>2
<1>9. /\ \A u \in Tab : u # t => tab'[u] = tab[u]
      /\ tab'[t].load = tab[t].load /\ tab'[t].cachedUuid = tab[t].cachedUuid
      /\ tab'[t].fresh = tab[t].fresh /\ tab'[t].cachedSessionId = session
      /\ ~tab'[t].busy /\ tab' \in [Tab -> TabState]
  BY <1>2, <1>4, <1>6 DEF TabState
<1>10. e \in Filing /\ e.load = tab[t].load /\ e.uuid = tab[t].cachedUuid /\ e.session = session
  <2>1. tab[t].load \in Nat /\ tab[t].cachedUuid \in Nat
    BY <1>2 DEF TabState
  <2> QED BY <1>6, <2>1 DEF Filing
<1> HIDE DEF e
<1>11. /\ filed' \in Seq(Filing) /\ DOMAIN filed' = 1 .. k /\ DOMAIN filed = 1 .. Len(filed)
       /\ \A i \in DOMAIN filed : filed'[i] = filed[i]
       /\ filed'[k] = e
       /\ \A i \in DOMAIN filed' : i \in DOMAIN filed \/ i = k
  BY <1>2, <1>4, <1>10
<1> HIDE DEF k
<1>12. IdentityTypes'
  BY <1>1, <1>4, <1>7, <1>8, <1>9, <1>11 DEF IdentityTypes
<1>13. \A u \in Tab : TabOK(u)'
  <2> TAKE u \in Tab
  <2>1. CASE u = t
    <3>1. tab'[t].load # 0
      BY <1>2, <1>5, <1>9
    <3> QED BY <1>3, <1>4, <1>5, <1>9, <2>1, <3>1 DEF TabOK
  <2>2. CASE u # t
    BY <1>3, <1>4, <1>8, <1>9, <2>2 DEF TabOK
  <2> QED BY <2>1, <2>2
<1>14. \A i \in DOMAIN filed : filed[i].load \in 1 .. Len(loads) /\ filed[i].uuid # NoId
         /\ filed[i].session \in Nat /\ filed[i].session # NoId /\ filed[i].session <= minted
         /\ \A u \in Tab : filed[i].load = tab[u].load =>
              filed[i].uuid = tab[u].cachedUuid /\ filed[i].session = tab[u].cachedSessionId
  <2> TAKE i \in DOMAIN filed
  <2>1. filed[i] \in Filing
    BY <1>2
  <2> QED BY <1>3, <2>1 DEF FiledOK, UnderCached, Filing
<1>15. \A i \in DOMAIN filed : filed[i].load = tab[t].load =>
         filed[i].uuid = tab[t].cachedUuid /\ filed[i].session = session
  BY <1>6, <1>14
<1>16. \A i \in DOMAIN filed : filed[i].load \in 1 .. Len(loads) /\ filed[i].uuid # NoId
         /\ filed[i].session # NoId /\ filed[i].session <= minted'
         /\ \A u \in Tab : filed[i].load = tab'[u].load =>
              filed[i].uuid = tab'[u].cachedUuid /\ filed[i].session = tab'[u].cachedSessionId
  <2> TAKE i \in DOMAIN filed
  <2>1. filed[i].session <= minted'
    BY <1>2, <1>7, <1>14
  <2>2. \A u \in Tab : filed[i].load = tab'[u].load =>
           filed[i].uuid = tab'[u].cachedUuid /\ filed[i].session = tab'[u].cachedSessionId
    BY <1>9, <1>14, <1>15
  <2> QED BY <1>14, <2>1, <2>2
<1>17. \A u \in Tab : u # t => tab[t].load # tab[u].load
  BY <1>2, <1>3, <1>5 DEF TabOK
<1>18. e.load \in 1 .. Len(loads) /\ e.uuid # NoId /\ e.session # NoId /\ e.session <= minted'
       /\ \A u \in Tab : e.load = tab'[u].load =>
            e.uuid = tab'[u].cachedUuid /\ e.session = tab'[u].cachedSessionId
  BY <1>5, <1>6, <1>7, <1>9, <1>10, <1>17
<1>19. \A i \in DOMAIN filed' : FiledOK(filed[i])'
  <2> TAKE i \in DOMAIN filed'
  <2>1. CASE i \in DOMAIN filed
    <3>1. filed'[i] = filed[i]
      BY <1>11, <2>1
    <3>2. filed'[i].load \in 1 .. Len(loads) /\ filed'[i].uuid # NoId
          /\ filed'[i].session # NoId /\ filed'[i].session <= minted'
          /\ \A u \in Tab : filed'[i].load = tab'[u].load =>
               filed'[i].uuid = tab'[u].cachedUuid /\ filed'[i].session = tab'[u].cachedSessionId
      BY <1>16, <2>1, <3>1
    <3> QED BY <1>4, <3>2 DEF FiledOK, UnderCached
  <2>2. CASE i = k
    BY <1>4, <1>11, <1>18, <2>2 DEF FiledOK, UnderCached
  <2> QED BY <1>11, <2>1, <2>2
<1>20. SameIdentity'
  <2> SUFFICES ASSUME NEW i \in DOMAIN filed', NEW j \in DOMAIN filed', filed'[i].load = filed'[j].load
               PROVE  filed'[i].uuid = filed'[j].uuid /\ filed'[i].session = filed'[j].session
    BY DEF SameIdentity
  <2>1. CASE i \in DOMAIN filed /\ j \in DOMAIN filed
    BY <1>3, <1>11, <2>1 DEF SameIdentity
  <2>2. CASE i = k /\ j \in DOMAIN filed
    BY <1>10, <1>11, <1>15, <2>2
  <2>3. CASE i \in DOMAIN filed /\ j = k
    BY <1>10, <1>11, <1>15, <2>3
  <2>4. CASE i = k /\ j = k
    BY <2>4
  <2> QED BY <1>11, <2>1, <2>2, <2>3, <2>4
<1>21. FilesInv'
  BY <1>3, <1>4, <1>13, <1>19, <1>20 DEF FilesInv
<1>22. PoolInv'
  <2>1. PICK S : Pool(S)
    BY <1>1 DEF PoolInv
  <2>2. \A u \in Tab : tab'[u].cachedUuid \in S \cup {NoId} /\ tab'[u].fresh \in S \cup {NoId}
    BY <1>9, <2>1 DEF Pool
  <2>3. e.uuid \in S
    BY <1>5, <1>10, <2>1 DEF Pool
  <2>4. \A i \in DOMAIN filed' : filed'[i].uuid \in S
    <3>1. \A i \in DOMAIN filed : filed[i].uuid \in S
      BY <2>1 DEF Pool
    <3> QED BY <1>11, <2>3, <3>1
  <2>5. Pool(S)'
    BY <1>4, <2>1, <2>2, <2>4 DEF Pool
  <2> QED BY <2>5 DEF PoolInv
<1>23. FoundInv'
  BY <1>1, <1>4 DEF FoundInv
<1>24. SessionsInv'
  <2>1. \A u \in Tab : sessionKey'[u] <= minted' /\ tab'[u].cachedSessionId <= minted'
    <3> TAKE u \in Tab
    <3>1. /\ sessionKey[u] \in Nat /\ tab[u].cachedSessionId \in Nat
          /\ sessionKey[u] <= minted /\ tab[u].cachedSessionId <= minted
      BY <1>1, <1>2 DEF SessionsInv, TabState
    <3>2. sessionKey'[u] \in {sessionKey[u], session}
          /\ tab'[u].cachedSessionId \in {tab[u].cachedSessionId, session}
      BY <1>8, <1>9
    <3> QED BY <1>2, <1>6, <1>7, <3>1, <3>2
  <2>2. platform' = "mp" => \A l \in DOMAIN loads' : loads'[l].tab = FirstTab
    BY <1>1, <1>4 DEF SessionsInv
  <2>3. ~broken' => \A u \in Tab : tab'[u].cachedSessionId \in {NoId, sessionKey'[u]}
    <3> SUFFICES ASSUME ~broken, NEW u \in Tab PROVE tab'[u].cachedSessionId \in {NoId, sessionKey'[u]}
      BY <1>4
    <3> QED BY <1>1, <1>8, <1>9 DEF SessionsInv
  <2>4. ~broken' /\ AnewEachLaunch' =>
          /\ \A u \in Tab : tab'[u].cachedSessionId = NoId => sessionKey'[u] = NoId
          /\ \A u \in Tab : \A i \in DOMAIN filed' :
               filed'[i].load # tab'[u].load => filed'[i].session # tab'[u].cachedSessionId
          /\ \A i, j \in DOMAIN filed' :
               filed'[i].load # filed'[j].load => filed'[i].session # filed'[j].session
    <3>1. AnewEachLaunch' = AnewEachLaunch
      BY <1>4 DEF AnewEachLaunch
    <3> SUFFICES ASSUME ~broken, AnewEachLaunch
                 PROVE  /\ \A u \in Tab : tab'[u].cachedSessionId = NoId => sessionKey'[u] = NoId
                        /\ \A u \in Tab : \A i \in DOMAIN filed' :
                             filed'[i].load # tab'[u].load => filed'[i].session # tab'[u].cachedSessionId
                        /\ \A i, j \in DOMAIN filed' :
                             filed'[i].load # filed'[j].load => filed'[i].session # filed'[j].session
      BY <1>4, <3>1
    <3>2. /\ \A u \in Tab : tab[u].cachedSessionId = NoId => sessionKey[u] = NoId
          /\ \A u \in Tab : \A i \in DOMAIN filed :
               filed[i].load # tab[u].load => filed[i].session # tab[u].cachedSessionId
          /\ \A i, j \in DOMAIN filed :
               filed[i].load # filed[j].load => filed[i].session # filed[j].session
      BY <1>1 DEF SessionsInv
    <3>3. \A u \in Tab : u # t => tab[u].cachedSessionId = NoId
      <4> SUFFICES ASSUME NEW u \in Tab, u # t PROVE tab[u].cachedSessionId = NoId
        OBVIOUS
      <4>1. \A l \in DOMAIN loads : loads[l].tab = FirstTab
        BY <1>1 DEF SessionsInv, AnewEachLaunch
      <4>2. t = FirstTab
        BY <1>2, <1>5, <4>1
      <4>3. tab[u].load = 0
        <5>1. tab[u].load # 0 => tab[u].load \in DOMAIN loads /\ loads[tab[u].load].tab = u
          BY <1>2, <1>3 DEF TabOK, TabState
        <5> QED BY <4>1, <4>2, <5>1
      <4> QED BY <1>3, <4>3 DEF TabOK, NeverLoaded, NoId
    <3>4. \A i \in DOMAIN filed : filed[i].load # tab[t].load => filed[i].session # session
      <4> SUFFICES ASSUME NEW i \in DOMAIN filed, filed[i].load # tab[t].load
                   PROVE  filed[i].session # session
        OBVIOUS
      <4>1. CASE session = minted + 1
        BY <1>2, <1>14, <4>1
      <4>2. CASE session # minted + 1
        <5>1. session = sessionKey[t] /\ session # NoId
          BY <1>6, <4>2
        <5>2. tab[t].cachedSessionId = session
          BY <1>6, <3>2, <5>1
        <5> QED BY <3>2, <5>2
      <4> QED BY <4>1, <4>2
    <3>5. \A u \in Tab : tab'[u].cachedSessionId = NoId => sessionKey'[u] = NoId
      BY <1>6, <1>8, <1>9, <3>2
    <3>6. \A u \in Tab : \A i \in DOMAIN filed' :
            filed'[i].load # tab'[u].load => filed'[i].session # tab'[u].cachedSessionId
      <4> TAKE u \in Tab
      <4> TAKE i \in DOMAIN filed'
      <4>1. CASE u # t
        <5>1. tab'[u].cachedSessionId = NoId
          BY <1>9, <3>3, <4>1
        <5>2. filed'[i].session # NoId
          BY <1>6, <1>10, <1>11, <1>14
        <5> QED BY <5>1, <5>2
      <4>2. CASE u = t /\ i \in DOMAIN filed
        BY <1>9, <1>11, <3>4, <4>2
      <4>3. CASE u = t /\ i = k
        BY <1>9, <1>10, <1>11, <4>3
      <4> QED BY <1>11, <4>1, <4>2, <4>3
    <3>7. \A i, j \in DOMAIN filed' :
            filed'[i].load # filed'[j].load => filed'[i].session # filed'[j].session
      <4> TAKE i, j \in DOMAIN filed'
      <4>1. CASE i \in DOMAIN filed /\ j \in DOMAIN filed
        BY <1>11, <3>2, <4>1
      <4>2. CASE i = k /\ j \in DOMAIN filed
        BY <1>10, <1>11, <3>4, <4>2
      <4>3. CASE i \in DOMAIN filed /\ j = k
        BY <1>10, <1>11, <3>4, <4>3
      <4>4. CASE i = k /\ j = k
        BY <4>4
      <4> QED BY <1>11, <4>1, <4>2, <4>3, <4>4
    <3> QED BY <3>5, <3>6, <3>7
  <2>5. ~broken' /\ ~AnewEachLaunch' =>
          \A i \in DOMAIN filed' : filed'[i].session = sessionKey'[loads'[filed'[i].load].tab]
    <3> SUFFICES ASSUME ~broken, ~AnewEachLaunch, NEW i \in DOMAIN filed'
                 PROVE  filed'[i].session = sessionKey'[loads[filed'[i].load].tab]
      BY <1>4 DEF AnewEachLaunch
    <3>1. CASE i \in DOMAIN filed
      <4> DEFINE u == loads[filed[i].load].tab
      <4>1. filed[i].session = sessionKey[u]
        BY <1>1, <3>1 DEF SessionsInv
      <4>2. u \in Tab
        <5>1. loads[filed[i].load] \in LoadEntry
          BY <1>2, <1>14, <3>1
        <5> QED BY <5>1 DEF LoadEntry
      <4>3. u = t => session = sessionKey[t]
        BY <1>6, <1>14, <3>1, <4>1
      <4> HIDE DEF u
      <4>4. sessionKey'[u] = sessionKey[u]
        BY <1>8, <4>2, <4>3
      <4> QED BY <1>11, <3>1, <4>1, <4>4 DEF u
    <3>2. CASE i = k
      BY <1>5, <1>8, <1>10, <1>11, <3>2
    <3> QED BY <1>11, <3>1, <3>2
  <2>6. ~broken' /\ platform' = "web" /\ (\A l \in DOMAIN loads' : loads'[l].kind # "copied") =>
          \A u, v \in Tab : u # v /\ sessionKey'[u] = sessionKey'[v] => sessionKey'[u] = NoId
    <3> SUFFICES ASSUME ~broken, platform = "web", \A l \in DOMAIN loads : loads[l].kind # "copied",
                        NEW u \in Tab, NEW v \in Tab, u # v, sessionKey'[u] = sessionKey'[v]
                 PROVE  sessionKey'[u] = NoId
      BY <1>4
    <3>1. \A w, x \in Tab : w # x /\ sessionKey[w] = sessionKey[x] => sessionKey[w] = NoId
      BY <1>1 DEF SessionsInv
    <3>2. CASE session # minted + 1
      BY <1>8, <3>1, <3>2
    <3>3. CASE session = minted + 1
      <4>1. \A w \in Tab : sessionKey[w] \in Nat /\ sessionKey[w] <= minted
        BY <1>1, <1>2 DEF SessionsInv
      <4>2. \A w \in Tab : sessionKey[w] # session
        BY <1>2, <3>3, <4>1
      <4> QED BY <1>8, <3>1, <4>2
    <3> QED BY <3>2, <3>3
  <2> QED BY <2>1, <2>2, <2>3, <2>4, <2>5, <2>6 DEF SessionsInv
<1> QED BY <1>12, <1>21, <1>22, <1>23, <1>24 DEF IdentityInv

LEMMA BreakKeeps ==
  ASSUME IdentityInv, Break
  PROVE  IdentityInv'
<1>1. /\ works' \in BOOLEAN /\ broken' = TRUE
      /\ UNCHANGED <<platform, collect, uuidKey, sessionKey, tab, minted, makers, filed, loads>>
  BY DEF Break, IdentityInv, IdentityTypes
<1>2. IdentityTypes'
  BY <1>1 DEF IdentityInv, IdentityTypes
<1>3. FilesInv'
  BY <1>1 DEF IdentityInv, FilesInv, TabOK, FiledOK, UnderCached, SameIdentity
<1>4. PoolInv'
  <2>1. PICK S : Pool(S)
    BY DEF IdentityInv, PoolInv
  <2>2. Pool(S)'
    BY <1>1, <2>1 DEF Pool
  <2> QED BY <2>2 DEF PoolInv
<1>5. FoundInv' /\ SessionsInv'
  BY <1>1 DEF IdentityInv, FoundInv, SessionsInv
<1> QED BY <1>2, <1>3, <1>4, <1>5 DEF IdentityInv

LEMMA IdentityStutters ==
  ASSUME IdentityInv, UNCHANGED identityVars
  PROVE  IdentityInv'
<1>1. UNCHANGED <<platform, collect, works, broken, uuidKey, sessionKey, tab, minted, makers,
                  filed, loads>>
  BY DEF identityVars
<1>2. IdentityTypes'
  BY <1>1 DEF IdentityInv, IdentityTypes
<1>3. FilesInv'
  BY <1>1 DEF IdentityInv, FilesInv, TabOK, FiledOK, UnderCached, SameIdentity
<1>4. PoolInv'
  <2>1. PICK S : Pool(S)
    BY DEF IdentityInv, PoolInv
  <2>2. Pool(S)'
    BY <1>1, <2>1 DEF Pool
  <2> QED BY <2>2 DEF PoolInv
<1>5. FoundInv' /\ SessionsInv'
  BY <1>1 DEF IdentityInv, FoundInv, SessionsInv, AnewEachLaunch
<1> QED BY <1>2, <1>3, <1>4, <1>5 DEF IdentityInv

LEMMA IdentityStep ==
  ASSUME IdentityInv, [IdentityNext]_identityVars
  PROVE  IdentityInv'
<1>1. ASSUME NEW t \in Tab, OpenTab(t) \/ Reload(t) \/ \E opener \in Tab : OpenedBy(t, opener)
      PROVE  IdentityInv'
  BY <1>1, OpensKeep
<1>2. ASSUME NEW t \in Tab, GetUuid(t) PROVE IdentityInv'
  BY <1>2, GetUuidKeeps
<1>3. ASSUME NEW t \in Tab, WriteUuid(t) PROVE IdentityInv'
  BY <1>3, WriteUuidKeeps
<1>4. ASSUME NEW t \in Tab, StorageReport(t) PROVE IdentityInv'
  BY <1>4, StorageReportKeeps
<1>5. ASSUME Break PROVE IdentityInv'
  BY <1>5, BreakKeeps
<1>6. ASSUME UNCHANGED identityVars PROVE IdentityInv'
  BY <1>6, IdentityStutters
<1> QED BY <1>1, <1>2, <1>3, <1>4, <1>5, <1>6 DEF IdentityNext

LEMMA IdentityHolds == IdentityInv => RecordsAreFiled
<1> SUFFICES ASSUME IdentityInv PROVE RecordsAreFiled
  OBVIOUS
<1>1. IdentityTypes /\ FilesInv /\ PoolInv /\ FoundInv /\ SessionsInv
  BY DEF IdentityInv
<1>2. /\ filed \in Seq(Filing) /\ loads \in Seq(LoadEntry) /\ platform \in {"web", "mp"}
      /\ IsFiniteSet(makers) /\ Len(loads) \in Nat
  BY <1>1 DEF IdentityTypes
<1>3. /\ \A i \in DOMAIN filed : filed[i].load \in DOMAIN loads /\ filed[i].session # NoId
      /\ \A i \in DOMAIN filed : loads[filed[i].load].tab \in Tab
  <2>1. \A i \in DOMAIN filed : filed[i].load \in DOMAIN loads /\ filed[i].session # NoId
    BY <1>1, <1>2 DEF FilesInv, FiledOK
  <2>2. \A l \in DOMAIN loads : loads[l].tab \in Tab
    <3>1. \A l \in DOMAIN loads : loads[l] \in LoadEntry
      BY <1>2
    <3> QED BY <3>1 DEF LoadEntry
  <2> QED BY <2>1, <2>2
<1>4. OneIdentityPerLoad
  BY <1>1 DEF FilesInv, SameIdentity, OneIdentityPerLoad, ToSet
<1>5. DevicesAreShared
  <2> DEFINE devices == {r.uuid : r \in ToSet(filed)}
  <2>1. PICK S : Pool(S)
    BY <1>1 DEF PoolInv
  <2>2. devices \subseteq S
    BY <2>1 DEF Pool, ToSet
  <2>3. IsFiniteSet(S) /\ Cardinality(S) <= Cardinality(makers)
    BY <2>1 DEF Pool
  <2>4. Cardinality(devices) <= Cardinality(S) /\ Cardinality(devices) \in Nat
        /\ Cardinality(S) \in Nat /\ Cardinality(makers) \in Nat
    <3> HIDE DEF devices
    <3>1. IsFiniteSet(devices) /\ Cardinality(devices) <= Cardinality(S)
      BY <2>2, <2>3, FS_Subset
    <3> QED BY <1>2, <2>3, <3>1, FS_CardinalityType
  <2>5. Cardinality(devices) <= Cardinality(makers)
    <3> HIDE DEF devices
    <3> QED BY <2>3, <2>4
  <2>6. ~broken => \A m \in makers : loads[m].uuid = NoId
    BY <1>1 DEF FoundInv
  <2> QED BY <2>5, <2>6 DEF DevicesAreShared
<1>6. SessionsAreOfTheirTab
  <2> SUFFICES ASSUME ~broken, NEW i \in DOMAIN filed, NEW j \in DOMAIN filed
               PROVE  IF platform = "mp"
                      THEN (filed[i].session = filed[j].session) = (~collect \/ filed[i].load = filed[j].load)
                      ELSE /\ loads[filed[i].load].tab = loads[filed[j].load].tab
                                => filed[i].session = filed[j].session
                           /\ (/\ filed[i].session = filed[j].session
                               /\ loads[filed[i].load].tab # loads[filed[j].load].tab)
                                => \E l \in DOMAIN loads : loads[l].kind = "copied"
    BY DEF SessionsAreOfTheirTab, ToSet
  <2>1. CASE platform = "mp" /\ collect
    <3>1. filed[i].load = filed[j].load => filed[i].session = filed[j].session
      BY <1>1 DEF FilesInv, SameIdentity
    <3>2. filed[i].load # filed[j].load => filed[i].session # filed[j].session
      BY <1>1, <2>1 DEF SessionsInv, AnewEachLaunch
    <3> QED BY <2>1, <3>1, <3>2
  <2>2. ~AnewEachLaunch => /\ filed[i].session = sessionKey[loads[filed[i].load].tab]
                           /\ filed[j].session = sessionKey[loads[filed[j].load].tab]
    BY <1>1 DEF SessionsInv
  <2>3. CASE platform = "mp" /\ ~collect
    <3>1. loads[filed[i].load].tab = FirstTab /\ loads[filed[j].load].tab = FirstTab
      BY <1>1, <1>3, <2>3 DEF SessionsInv
    <3>2. filed[i].session = filed[j].session
      BY <2>2, <2>3, <3>1 DEF AnewEachLaunch
    <3> QED BY <2>3, <3>2
  <2>4. CASE platform = "web"
    <3>1. /\ filed[i].session = sessionKey[loads[filed[i].load].tab]
          /\ filed[j].session = sessionKey[loads[filed[j].load].tab]
      BY <2>2, <2>4 DEF AnewEachLaunch
    <3>2. (\A l \in DOMAIN loads : loads[l].kind # "copied") =>
            \A u, v \in Tab : u # v /\ sessionKey[u] = sessionKey[v] => sessionKey[u] = NoId
      BY <1>1, <2>4 DEF SessionsInv
    <3> QED BY <1>3, <2>4, <3>1, <3>2
  <2> QED BY <1>2, <2>1, <2>3, <2>4
<1> QED BY <1>4, <1>5, <1>6 DEF RecordsAreFiled

-----------------------------------------------------------------------------
(***************************************************************************)
(* SdkSetup.  The SDK is in an application once: in its page or in its one  *)
(* entry.                                                                  *)
(***************************************************************************)
SetupInv ==
  /\ wish \in Wishes /\ target \in {"web", "h5", "mp", "direct"}
  /\ written \in [Files -> BOOLEAN] /\ pageScript \in BOOLEAN
  /\ \A f \in Files : written[f] => target = "mp" /\ ~f.vendored /\ f.path = GetMainEntry
  /\ pageScript => target \in {"web", "h5"}
  /\ sdk = Stopped \/ sdk = [BuryReport(Config) EXCEPT !.starts = 1]

LEMMA SetupStart == SetupInit => SetupInv
BY DEF SetupInit, SetupInv

LEMMA OneCopy == ASSUME SetupInv, Copies > 0 PROVE Copies = 1
<1> DEFINE S == {f \in Files : written[f]}
           p == IF pageScript \/ target = "direct" THEN 1 ELSE 0
<1>1. Copies = Cardinality(S) + p
  BY DEF Copies
<1>2. CASE S = {}
  <2>1. Cardinality(S) = 0
    BY <1>2, FS_EmptySet
  <2> HIDE DEF S
  <2> QED BY <1>1, <2>1
<1>3. CASE S # {}
  <2>1. PICK f \in S : TRUE
    BY <1>3
  <2>2. S = {f}
    BY <2>1, SetupAssumption DEF SetupInv, SetupAssumption
  <2>3. p = 0
    BY <2>1 DEF SetupInv
  <2> HIDE DEF S, p
  <2>4. Cardinality(S) = 1
    BY <2>2, FS_Singleton
  <2> QED BY <1>1, <2>3, <2>4
<1> QED BY <1>2, <1>3

LEMMA SetupStep == SetupInv /\ [SetupNext]_setupVars => SetupInv'
<1> SUFFICES ASSUME SetupInv, [SetupNext]_setupVars PROVE SetupInv'
  OBVIOUS
<1>0. UNCHANGED <<wish, target>> => GetMainEntry' = GetMainEntry /\ BuryReport(Config)' = BuryReport(Config)
  BY DEF GetMainEntry, BuryReport, Config, SwitchedOn, Registered
<1>1. ASSUME NEW f \in Files, Transform(f) PROVE SetupInv'
  <2>1. UNCHANGED <<wish, target, pageScript, sdk>>
        /\ (UNCHANGED written \/ written' = [written EXCEPT ![f] = TransformInclude(f) /\ ~IsH5])
    BY <1>1 DEF Transform
  <2>2. TransformInclude(f) /\ ~IsH5 => target = "mp" /\ ~f.vendored /\ f.path = GetMainEntry
    BY DEF TransformInclude, IsH5, SetupInv
  <2> DEFINE b == TransformInclude(f) /\ ~IsH5
  <2>3. b \in BOOLEAN
    OBVIOUS
  <2> HIDE DEF b
  <2>4. written' \in [Files -> BOOLEAN]
    BY <2>1, <2>3 DEF SetupInv, b
  <2>5. \A g \in Files : written'[g] => target = "mp" /\ ~g.vendored /\ g.path = GetMainEntry
    BY <2>1, <2>2, <2>3 DEF SetupInv, b
  <2> QED BY <1>0, <2>1, <2>4, <2>5 DEF SetupInv
<1>2. CASE TransformIndexHtml
  <2>1. UNCHANGED <<wish, target, written, sdk>> /\ pageScript' = (target # "mp") /\ target # "direct"
    BY <1>2 DEF TransformIndexHtml, IsH5
  <2> QED BY <1>0, <2>1 DEF SetupInv
<1>3. CASE OpenApplication
  <2>1. UNCHANGED <<wish, target, written, pageScript>> /\ sdk' = [BuryReport(Config) EXCEPT !.starts = 1]
    BY <1>3, OneCopy DEF OpenApplication
  <2> QED BY <1>0, <2>1 DEF SetupInv
<1>4. CASE UNCHANGED setupVars
  <2>1. UNCHANGED <<wish, target, written, pageScript, sdk>>
    BY <1>4 DEF setupVars
  <2> QED BY <1>0, <2>1 DEF SetupInv
<1> QED BY <1>1, <1>2, <1>3, <1>4 DEF SetupNext

\* What passes through the defaults, and through JSON, keeps its value.
LEMMA DefaultsAreSet == \A k \in Keys : Default[k] \in Nat
<1>1. Keys = {"collect", "error", "report", "interval", "maxRetry", "fcpThreshold", "networkEnable",
              "networkSuccess", "networkFail", "networkLimit", "recordEnable", "recordEvery"}
  BY DEF Keys, Default
<1> QED BY <1>1 DEF Default

LEMMA ConfigKeeps ==
  ASSUME SetupInv, NEW k \in Keys
  PROVE  /\ target = "direct" => Asked(Config, k) = Asked(wish, k)
         /\ target # "direct" => Asked(Config, k) =
              IF Asked(wish, k) \in {Unset, Null} THEN Default[k]
              ELSE IF Asked(wish, k) = Infinite THEN Null ELSE Asked(wish, k)
         /\ MergeConfig(Config)[k] = IF Asked(wish, k) \in Lost THEN Default[k] ELSE wish[k]
<1>1. Default[k] \in Nat /\ Default[k] \notin {Unset, Null, Infinite}
  BY DefaultsAreSet DEF Unset, Null, Infinite
<1>2. Asked(wish, k) # Unset => k \in DOMAIN wish /\ Asked(wish, k) = wish[k]
  BY DEF Asked
<1>3. MergeConfig(Config)[k] =
        IF Asked(Config, k) \in {Unset, Null} THEN Default[k] ELSE Config[k]
  BY DEF MergeConfig
<1>4. CASE target = "direct"
  <2>1. Config = wish
    BY <1>4 DEF Config
  <2> QED BY <1>3, <1>4, <1>2, <2>1 DEF Lost
<1>5. CASE target # "direct"
  <2> DEFINE m == MergeConfig(wish)
  <2>1. DOMAIN m = Keys /\ m[k] = IF Asked(wish, k) \in {Unset, Null} THEN Default[k] ELSE wish[k]
    BY DEF MergeConfig
  <2>2. Config = [j \in DOMAIN m |-> IF m[j] = Infinite THEN Null ELSE m[j]]
    BY <1>5 DEF Config, Stringify
  <2> HIDE DEF m
  <2>3. Asked(Config, k) = Config[k] /\ Config[k] = IF m[k] = Infinite THEN Null ELSE m[k]
    BY <2>1, <2>2 DEF Asked
  <2>4. Asked(Config, k) = IF Asked(wish, k) \in {Unset, Null} THEN Default[k]
                           ELSE IF Asked(wish, k) = Infinite THEN Null ELSE Asked(wish, k)
    BY <1>1, <1>2, <2>1, <2>3 DEF Unset, Null
  <2> QED BY <1>1, <1>2, <1>3, <1>5, <2>3, <2>4 DEF Lost, Unset, Null, Infinite
<1> QED BY <1>4, <1>5

LEMMA SetupHolds == SetupInv => SetupIsAsConfigured
<1> SUFFICES ASSUME SetupInv, sdk.starts > 0
             PROVE  /\ sdk.starts = 1
                    /\ \A k \in Keys :
                         sdk.options[k] = IF Asked(wish, k) \in Lost THEN Default[k] ELSE wish[k]
                    /\ IF Asked(wish, "report") \notin (IF target = "direct" THEN {1} ELSE {1, Unset, Null})
                       THEN sdk.plugins = {}
                       ELSE /\ sdk.plugins = SwitchedOn(sdk.options)
                            /\ sdk.interval > 0
                            /\ Asked(wish, "maxRetry") > 0 => sdk.retry = wish["maxRetry"]
                            /\ Asked(wish, "maxRetry") \in -1..0 => sdk.retry = Infinite
  BY DEF SetupIsAsConfigured
<1> DEFINE merged == MergeConfig(Config)
           every == Asked(Config, "interval")
           most == Asked(Config, "maxRetry")
<1>1. sdk # Stopped
  BY DEF Stopped
<1>2. sdk = [BuryReport(Config) EXCEPT !.starts = 1]
  BY <1>1 DEF SetupInv
<1>3. BuryReport(Config) =
        IF Asked(Config, "report") # 1 THEN [Stopped EXCEPT !.starts = 1, !.options = merged]
        ELSE [starts |-> 1, plugins |-> SwitchedOn(merged), options |-> merged,
              interval |-> NormalizeInterval(every), retry |-> NormalizeMaxRetry(most)]
  BY DEF BuryReport
<1>4. {"report", "interval", "maxRetry"} \subseteq Keys
  BY DEF Keys, Default
<1>5. Default["report"] = 1
  BY DEF Default
<1>6. \A k \in Keys : merged[k] = IF Asked(wish, k) \in Lost THEN Default[k] ELSE wish[k]
  BY ConfigKeeps
<1>7. \A k \in Keys : Asked(wish, k) \in Int
  BY SetupAssumption DEF SetupInv, SetupAssumption, Asked, Unset
<1>8. /\ target = "direct" => Asked(Config, "report") = Asked(wish, "report")
      /\ target # "direct" => Asked(Config, "report") =
           IF Asked(wish, "report") \in {Unset, Null} THEN 1
           ELSE IF Asked(wish, "report") = Infinite THEN Null ELSE Asked(wish, "report")
  BY <1>4, <1>5, ConfigKeeps
<1>9. Asked(Config, "report") = 1 <=>
        Asked(wish, "report") \in (IF target = "direct" THEN {1} ELSE {1, Unset, Null})
  BY <1>7, <1>8 DEF Null, Infinite
<1>10. every \in Int /\ NormalizeInterval(every) > 0
  <2>1. every \in Int
    BY <1>4, <1>7, ConfigKeeps, DefaultsAreSet DEF Null
  <2> HIDE DEF every
  <2> QED BY <2>1 DEF NormalizeInterval
<1>11. /\ Asked(wish, "maxRetry") > 0 => NormalizeMaxRetry(most) = wish["maxRetry"]
       /\ Asked(wish, "maxRetry") \in -1..0 => NormalizeMaxRetry(most) = Infinite
  <2> DEFINE v == Asked(wish, "maxRetry")
  <2>1. v \in Int /\ (v > -50 => most = v /\ v = wish["maxRetry"])
    <3>1. v > -50 => v \notin {Unset, Null, Infinite}
      BY <1>4, <1>7 DEF Unset, Null, Infinite
    <3>2. v # Unset => v = wish["maxRetry"]
      BY DEF Asked
    <3> QED BY <1>4, <1>7, <3>1, <3>2, ConfigKeeps
  <2> HIDE DEF v, most
  <2>2. v > 0 => NormalizeMaxRetry(most) = wish["maxRetry"]
    BY <2>1 DEF NormalizeMaxRetry, Unset, Null, Infinite
  <2>3. v \in -1..0 => NormalizeMaxRetry(most) = Infinite
    BY <2>1 DEF NormalizeMaxRetry, Unset, Null, Infinite
  <2> QED BY <2>2, <2>3 DEF v
<1> HIDE DEF merged, every, most
<1>12. CASE Asked(Config, "report") # 1
  <2>1. sdk.starts = 1 /\ sdk.options = merged /\ sdk.plugins = {}
    BY <1>2, <1>3, <1>12 DEF Stopped
  <2> QED BY <1>6, <1>9, <1>12, <2>1
<1>13. CASE Asked(Config, "report") = 1
  <2>1. /\ sdk.starts = 1 /\ sdk.options = merged /\ sdk.plugins = SwitchedOn(merged)
        /\ sdk.interval = NormalizeInterval(every) /\ sdk.retry = NormalizeMaxRetry(most)
    BY <1>2, <1>3, <1>13
  <2> QED BY <1>6, <1>9, <1>10, <1>11, <1>13, <2>1
<1> QED BY <1>12, <1>13

(* One SDK runs, with the options the user set and the plugins that they    *)
(* switch on (lib.ts, browser/index.ts).  The records of one load are filed *)
(* under one device and one session; with a storage that works a second     *)
(* device is made only by a load that began before the first was stored,    *)
(* and a session lasts as long as its tab, or as the launch of a            *)
(* mini-program that starts one (utils.ts:115, :135 and :143).              *)
THEOREM ClientAlwaysSetUp ==
  /\ SetupInit /\ [][SetupNext]_setupVars
  /\ IdentityInit /\ [][IdentityNext]_identityVars
  => []ClientIsSetUp
<1>1. SetupInv /\ [SetupNext]_setupVars => SetupInv'
  BY SetupStep
<1>2. IdentityInv /\ [IdentityNext]_identityVars => IdentityInv'
  BY IdentityStep
<1>3. SetupInv /\ IdentityInv => ClientIsSetUp
  BY SetupHolds, IdentityHolds DEF ClientIsSetUp
<1> QED BY SetupStart, IdentityStart, <1>1, <1>2, <1>3, PTL

-----------------------------------------------------------------------------
(***************************************************************************)
(* FcpCharts.  Between two queries there are charts exactly while the page  *)
(* shows an analysis that is not empty; they are all there, made for it     *)
(* and on the elements made for it.  While one is asked for there is none.  *)
(***************************************************************************)
Analyses ==
  [total : Nat, resources : Seq(ToSet(Urls)), threshold : Nat, resourceCoverage : Nat]

Drawn(c, a) == c = "resource" => a.resources # <<>>
ChartOf(c, a, place) ==
  IF Drawn(c, a) THEN [on |-> place, draws |-> RenderCharts(c, a)] ELSE NoChart

ChartTypes ==
  /\ panel \in [mounted : BOOLEAN, queries : Nat, made : Nat]
  /\ loading \in BOOLEAN /\ filters \in Nat /\ queried \in Nat
  /\ analysis \in Analyses /\ DOMAIN charts = Charts

OnView == panel.mounted /\ ~loading /\ ~Empty(analysis)
ChartsInv ==
  /\ ChartTypes
  /\ OnView  => /\ analysis.threshold = queried
                /\ \A c \in Charts : charts[c] = ChartOf(c, analysis, panel.made)
  /\ ~OnView => \A c \in Charts : charts[c] = NoChart

LEMMA RankedUrls ==
  ASSUME NEW n \in 0 .. Len(Urls)
  PROVE  SubSeq(Urls, 1, n) \in Seq(ToSet(Urls)) /\ Len(SubSeq(Urls, 1, n)) = n
<1>1. Urls \in Seq(ToSet(Urls))
  BY ChartsAssumption DEF ChartsAssumption
<1> QED BY <1>1

LEMMA ChartsStart == ChartsInit => ChartsInv
<1> SUFFICES ASSUME ChartsInit PROVE ChartsInv
  OBVIOUS
<1>1. analysis \in Analyses /\ Empty(analysis)
  BY DEF ChartsInit, NoAnalysis, Analyses, Empty
<1>2. \A c \in Charts : charts[c] = NoChart
  BY DEF ChartsInit
<1> QED BY <1>1, <1>2 DEF ChartsInit, ChartsInv, ChartTypes, OnView

LEMMA LoadingClears ==
  ASSUME ChartsInv, LoadAnalysis, panel' \in [mounted : BOOLEAN, queries : Nat, made : Nat],
         UNCHANGED <<filters, analysis>>
  PROVE  ChartsInv'
BY DEF ChartsInv, ChartTypes, LoadAnalysis, DisposeCharts, OnView

LEMMA AnalysisDraws ==
  ASSUME ChartsInv, NEW total \in {0, 1}, NEW n \in 0 .. Len(Urls),
         AnalysisComes(total, SubSeq(Urls, 1, n))
  PROVE  ChartsInv'
<1> DEFINE ranked == SubSeq(Urls, 1, n)
           a == [total |-> total, resources |-> ranked, threshold |-> queried,
                 resourceCoverage |-> Len(ranked)]
<1>1. ranked \in Seq(ToSet(Urls)) /\ Len(ranked) \in Nat
  BY RankedUrls
<1>2. /\ loading /\ loading' = FALSE /\ UNCHANGED <<filters, queried>>
      /\ Display(a) /\ charts' = InitCharts(panel', a, charts)
  BY DEF AnalysisComes
<1> HIDE DEF ranked
<1>3. a \in Analyses /\ a.threshold = queried /\ (Empty(a) <=> total = 0)
  BY <1>1 DEF Analyses, Empty, ChartsInv, ChartTypes
<1> HIDE DEF a
<1>4. /\ analysis' = a /\ panel'.mounted = panel.mounted
      /\ panel' \in [mounted : BOOLEAN, queries : Nat, made : Nat]
  BY <1>2 DEF Display, ChartsInv, ChartTypes
<1>5. \A c \in Charts : charts[c] = NoChart
  BY <1>2 DEF ChartsInv, OnView
<1>6. /\ DOMAIN charts' = Charts
      /\ \A c \in Charts : charts'[c] =
           IF Elements(panel', a) # {} /\ Drawn(c, a)
           THEN [on |-> panel'.made, draws |-> RenderCharts(c, a)] ELSE NoChart
  BY <1>2, <1>5 DEF InitCharts, Drawn
<1>7. OnView' <=> Elements(panel', a) # {}
  BY <1>2, <1>4 DEF OnView, Elements
<1>8. ChartTypes'
  BY <1>2, <1>3, <1>4, <1>6 DEF ChartsInv, ChartTypes
<1>9. CASE OnView'
  BY <1>2, <1>3, <1>4, <1>6, <1>7, <1>8, <1>9 DEF ChartsInv, ChartOf
<1>10. CASE ~OnView'
  BY <1>6, <1>7, <1>8, <1>10 DEF ChartsInv
<1> QED BY <1>9, <1>10

LEMMA RefusedKeeps == ASSUME ChartsInv, Refused PROVE ChartsInv'
<1>1. analysis' = NoAnalysis /\ Empty(NoAnalysis) /\ NoAnalysis \in Analyses
  BY DEF Refused, Display, NoAnalysis, Analyses, Empty
<1>2. panel' = panel
  BY <1>1 DEF Refused, Display
<1>3. \A c \in Charts : charts[c] = NoChart
  BY DEF Refused, ChartsInv, OnView
<1> QED BY <1>1, <1>2, <1>3 DEF Refused, ChartsInv, ChartTypes, OnView

LEMMA ChartsStep == ChartsInv /\ [ChartsNext]_chartVars => ChartsInv'
<1> SUFFICES ASSUME ChartsInv, [ChartsNext]_chartVars PROVE ChartsInv'
  OBVIOUS
<1>1. CASE OnMounted \/ Query
  <2>1. panel \in [mounted : BOOLEAN, queries : Nat, made : Nat]
    BY DEF ChartsInv, ChartTypes
  <2>2. panel' \in [mounted : BOOLEAN, queries : Nat, made : Nat]
    <3>1. CASE OnMounted
      BY <2>1, <3>1 DEF OnMounted
    <3>2. CASE Query
      BY <2>1, <3>2 DEF Query
    <3> QED BY <1>1, <3>1, <3>2
  <2> QED BY <1>1, <2>2, LoadingClears DEF OnMounted, Query
<1>2. CASE Refused
  BY <1>2, RefusedKeeps
<1>3. CASE OnBeforeUnmount
  BY <1>3 DEF OnBeforeUnmount, DisposeCharts, ChartsInv, ChartTypes, OnView
<1>4. CASE \E threshold \in {1, 2} : Filter(threshold)
  BY <1>4 DEF Filter, ChartsInv, ChartTypes, OnView
<1>5. CASE \E total \in {0, 1}, n \in 0 .. Len(Urls) : AnalysisComes(total, SubSeq(Urls, 1, n))
  BY <1>5, AnalysisDraws
<1>6. CASE UNCHANGED chartVars
  BY <1>6 DEF chartVars, ChartsInv, ChartTypes, OnView
<1> QED BY <1>1, <1>2, <1>3, <1>4, <1>5, <1>6 DEF ChartsNext

\* The bars are listed from below, so the last one is the slowest request.
LEMMA SlowestIsLast ==
  ASSUME NEW a \in Analyses, a.resources # <<>>
  PROVE  Last(RenderCharts("resource", a).bars) = a.resources[1]
<1> DEFINE s == a.resources
           m == Min({TopBars, Len(s)})
           rows == SubSeq(s, 1, m)
<1>1. s \in Seq(ToSet(Urls)) /\ s # <<>>
  BY DEF Analyses
<1>2. Len(s) \in Nat /\ Len(s) >= 1
  BY <1>1
<1>3. TopBars \in Nat /\ TopBars >= 1
  BY ChartsAssumption DEF ChartsAssumption
<1>4. m \in {TopBars, Len(s)} /\ m <= Len(s)
  <2> DEFINE S == {TopBars, Len(s)}
  <2>1. \E x \in S : \A y \in S : x <= y
    <3>1. CASE TopBars <= Len(s)
      BY <1>2, <1>3, <3>1
    <3>2. CASE Len(s) <= TopBars
      BY <1>2, <1>3, <3>2
    <3> QED BY <1>2, <1>3, <3>1, <3>2
  <2>2. Len(s) \in S
    OBVIOUS
  <2> HIDE DEF S
  <2>3. Min(S) \in S /\ \A y \in S : Min(S) <= y
    BY <2>1 DEF Min
  <2> QED BY <2>2, <2>3 DEF S
<1> HIDE DEF m
<1>5. m \in 1 .. Len(s)
  BY <1>2, <1>3, <1>4
<1>6. rows \in Seq(ToSet(Urls)) /\ Len(rows) = m /\ rows[1] = s[1]
  <2> HIDE DEF s
  <2> QED BY <1>1, <1>2, <1>5
<1> HIDE DEF rows
<1>7. Len(Reverse(rows)) = m /\ Reverse(rows)[m] = rows[1]
  <2>1. m \in 1 .. Len(rows) /\ Len(rows) \in Nat /\ m \in Nat
    BY <1>2, <1>5, <1>6
  <2>2. Reverse(rows) = [i \in 1 .. Len(rows) |-> rows[(Len(rows) - i) + 1]]
    BY DEF Reverse
  <2>3. Reverse(rows) \in Seq(ToSet(Urls)) /\ Len(Reverse(rows)) = Len(rows)
    BY <1>6, <2>1, <2>2
  <2>4. Reverse(rows)[m] = rows[(Len(rows) - m) + 1]
    BY <2>1, <2>2
  <2>5. (Len(rows) - m) + 1 = 1
    BY <1>6, <2>1
  <2> QED BY <1>6, <2>3, <2>4, <2>5
<1>8. RenderCharts("resource", a).bars = Reverse(rows)
  BY DEF RenderCharts, Rows, rows, m
<1>9. Last(Reverse(rows)) = Reverse(rows)[Len(Reverse(rows))]
  BY DEF Last
<1> QED BY <1>6, <1>7, <1>8, <1>9

LEMMA ChartsHold == ChartsInv => ChartsAreShown
<1> SUFFICES ASSUME ChartsInv PROVE ChartsAreShown
  OBVIOUS
<1>1. \A place, d : [on |-> place, draws |-> d] # NoChart
  BY DEF NoChart
<1>2. analysis \in Analyses
  BY DEF ChartsInv, ChartTypes
<1>3. NoChartIsLost
  <2> SUFFICES ASSUME NEW c \in Charts, charts[c] # NoChart
               PROVE  charts[c].on \in Elements(panel, analysis)
    BY DEF NoChartIsLost
  <2>1. OnView /\ charts[c] = ChartOf(c, analysis, panel.made)
    BY DEF ChartsInv
  <2>2. charts[c].on = panel.made
    BY <2>1 DEF ChartOf
  <2> QED BY <2>1, <2>2 DEF OnView, Elements
<1>4. ChartsAreOfTheAnalysis
  <2> SUFFICES ASSUME OnView
               PROVE  /\ analysis.threshold = queried
                      /\ \A c \in Charts \ {"resource"} : charts[c] # NoChart
                      /\ charts["resource"] = NoChart <=> Insight[1] = "coverage"
                      /\ \A c \in Charts : charts[c] # NoChart => charts[c].draws.of = analysis
                      /\ charts["resource"] # NoChart => Last(charts["resource"].draws.bars) = Insight[2]
    BY DEF ChartsAreOfTheAnalysis, OnView
  <2>1. analysis.threshold = queried /\ \A c \in Charts : charts[c] = ChartOf(c, analysis, panel.made)
    BY DEF ChartsInv
  <2>2. "resource" \in Charts
    BY DEF Charts
  <2>3. \A c \in Charts \ {"resource"} : charts[c] # NoChart
    BY <1>1, <2>1 DEF ChartOf, Drawn
  <2>4. \A c \in Charts : charts[c] # NoChart => charts[c].draws.of = analysis
    <3> SUFFICES ASSUME NEW c \in Charts, charts[c] # NoChart
                 PROVE  charts[c].draws.of = analysis
      OBVIOUS
    <3> DEFINE d == RenderCharts(c, analysis)
    <3>1. d.of = analysis
      BY DEF RenderCharts
    <3>2. charts[c] = [on |-> panel.made, draws |-> d]
      BY <2>1 DEF ChartOf
    <3> HIDE DEF d
    <3> QED BY <3>1, <3>2
  <2>5. CASE analysis.resources = <<>>
    <3>1. charts["resource"] = NoChart
      BY <2>1, <2>2, <2>5 DEF ChartOf, Drawn
    <3>2. Insight[1] = "coverage"
      BY <2>5 DEF Insight, OnView
    <3> QED BY <2>1, <2>3, <2>4, <3>1, <3>2
  <2>6. CASE analysis.resources # <<>>
    <3>1. charts["resource"] = [on |-> panel.made, draws |-> RenderCharts("resource", analysis)]
      BY <2>1, <2>2, <2>6 DEF ChartOf, Drawn
    <3>2. Insight[1] = "slowest" /\ Insight[2] = analysis.resources[1]
      BY <2>6 DEF Insight, OnView
    <3>3. charts["resource"] # NoChart
      BY <1>1, <3>1
    <3>4. Last(charts["resource"].draws.bars) = Insight[2]
      BY <1>2, <2>6, <3>1, <3>2, SlowestIsLast
    <3> QED BY <2>1, <2>3, <2>4, <3>2, <3>3, <3>4
  <2> QED BY <2>5, <2>6
<1> QED BY <1>3, <1>4 DEF ChartsAreShown

-----------------------------------------------------------------------------
(***************************************************************************)
(* ConsoleAccess.  A window asks about the application it shows: its page   *)
(* is one of the application and of the menu that it keeps.                 *)
(***************************************************************************)
Pages ==
  {Portal, Login}
    \cup {<<"app", own, module, view>> : own \in App, module \in Modules, view \in Content}

WindowState ==
  [page : Pages, appid : App \cup {Nobody}, routed : BOOLEAN, redirected : BOOLEAN,
   menu : {<<>>} \cup {Menus[m] : m \in Modules}, form : {"wait", "captcha", "loading"},
   popover : BOOLEAN, shown : Nat, opened : App \cup {Nobody}]

AtHome(window) ==
  /\ window.appid = window.opened
  /\ Shows(window.page) =>
       /\ window.page[2] = window.appid /\ window.page[3] \in Modules
       /\ window.menu = Menus[window.page[3]] /\ window.page[4] \in Listed(window.page[3])

NamesItsApp(r) ==
  r.window \in Window /\ (Shows(r.page) /\ r.authorization => r.appid = r.page[2])

WindowsInv ==
  /\ win \in [Window -> WindowState] /\ token \in BOOLEAN
  /\ \A w \in Window : AtHome(win[w])
  /\ \A r \in asked : NamesItsApp(r)

(***************************************************************************)
(* The captcha an answer has found was drawn under the key of the one the   *)
(* user saw and is, as long as it is kept, the first kept under that key.   *)
(* So what is removed is what was found, or it was gone before.             *)
(***************************************************************************)
Captcha == [key : Nat \ {0}, offset : Slots]

IsLogin(l) ==
  {"window", "id", "captcha", "seen", "answer", "password", "target", "phase"} = DOMAIN l

FirstKept(c, kept, drawn) == \A d \in kept : drawn[d].key = drawn[c].key => c <= d
LoginOK(login, kept, drawn) ==
  /\ IsLogin(login)
  /\ login.window \in Window /\ login.captcha \in 0 .. Len(drawn)
  /\ WholePixels(login.seen) \/ login.answer = login.seen
  /\ login.phase = "found" =>
       /\ login.target \in 1 .. Len(drawn) /\ login.captcha # 0
       /\ drawn[login.target].key = drawn[login.captcha].key
       /\ login.target \in kept => FirstKept(login.target, kept, drawn)

Judged(v) == v.outcome \in {"misplaced", "admitted", "unknown"}
VerdictOK(v, kept, drawn) ==
  Judged(v) =>
    /\ v.captcha \in 1 .. Len(drawn) /\ v.target \in 1 .. Len(drawn) \ kept
    /\ drawn[v.target].key = drawn[v.captcha].key
    /\ v.outcome = "misplaced" => WholePixels(v.seen) \/ ~Close(drawn[v.target].offset, v.seen)

CaptchasInv ==
  /\ captchas \in Seq(Captcha) /\ live \subseteq 1 .. Len(captchas)
  /\ \A w \in Window : win[w].shown \in 0 .. Len(captchas)
  /\ \A login \in logins : LoginOK(login, live, captchas)
  /\ \A v \in verdicts : VerdictOK(v, live, captchas)

AccessInv == WindowsInv /\ CaptchasInv

-----------------------------------------------------------------------------
LEMMA MenuFacts ==
  /\ \A m \in Modules : Listed(m) \subseteq Content /\ Menus[m][1] \in Listed(m)
  /\ "Dashboard" \in Modules /\ "DashboardView" \in Listed("Dashboard")
<1>1. /\ Listed("Dashboard") \subseteq Content /\ Menus["Dashboard"][1] \in Listed("Dashboard")
      /\ "DashboardView" \in Listed("Dashboard")
  BY DEF Listed, Menus, Content, ToSet
<1>2. Listed("Statistics") \subseteq Content /\ Menus["Statistics"][1] \in Listed("Statistics")
  BY DEF Listed, Menus, Content, ToSet
<1>3. Listed("Manage") \subseteq Content /\ Menus["Manage"][1] \in Listed("Manage")
  BY DEF Listed, Menus, Content, ToSet
<1>4. Listed("Task") \subseteq Content /\ Menus["Task"][1] \in Listed("Task")
  BY DEF Listed, Menus, Content, ToSet
<1> QED BY <1>1, <1>2, <1>3, <1>4 DEF Modules

LEMMA PageFacts ==
  /\ Portal \in Pages /\ Login \in Pages /\ ~Shows(Portal) /\ ~Shows(Login)
  /\ \A own \in App, m \in Modules, v \in Content :
       LET page == <<"app", own, m, v>> IN
       page \in Pages /\ Shows(page) /\ page[2] = own /\ page[3] = m /\ page[4] = v
  /\ \A page \in Pages : Shows(page) =>
       \E own \in App, m \in Modules, v \in Content : page = <<"app", own, m, v>>
BY DEF Pages, Portal, Login, Shows

LEMMA LoadedFacts ==
  ASSUME NEW page \in {Portal, Login}
  PROVE  Loaded(page) \in WindowState /\ AtHome(Loaded(page)) /\ Loaded(page).shown = 0
BY PageFacts DEF Loaded, WindowState, AtHome

LEMMA WindowsStart == AccessInit => WindowsInv
<1> SUFFICES ASSUME AccessInit PROVE WindowsInv
  OBVIOUS
<1>1. /\ win = [w \in Window |-> Loaded(Login)] /\ asked = {} /\ token = FALSE
  BY DEF AccessInit
<1> QED BY <1>1, LoadedFacts DEF WindowsInv

\* No window is shown another captcha.
ShowsNoOther ==
  \/ UNCHANGED win
  \/ \E w \in Window, rec \in WindowState : Goes(w, rec) /\ rec.shown \in {win[w].shown, 0}

\* One window goes somewhere, and nothing new is asked.
LEMMA GoesKeeps ==
  ASSUME WindowsInv, NEW w \in Window, NEW rec \in WindowState, AtHome(rec), Goes(w, rec),
         asked' \subseteq asked, token' \in BOOLEAN
  PROVE  WindowsInv' /\ (rec.shown \in {win[w].shown, 0} => ShowsNoOther)
<1>1. win' = [win EXCEPT ![w] = rec]
  BY DEF Goes
<1>2. WindowsInv'
  BY <1>1 DEF WindowsInv
<1> QED BY <1>2 DEF ShowsNoOther

\* A window of an application goes to one of its pages.
KeepsApp(window, own) == window.appid = own
AtPage(window, own, m, v) == [window EXCEPT !.page = <<"app", own, m, v>>, !.menu = Menus[m]]
FirstPage(window, own, m, v) ==
  [window EXCEPT !.page = <<"app", own, m, v>>, !.menu = Menus[m], !.appid = own,
                 !.routed = TRUE, !.opened = own]
LEMMA AtPageFacts ==
  ASSUME NEW old \in WindowState, NEW own \in App, NEW m \in Modules, NEW v \in Listed(m),
         KeepsApp(old, own), AtHome(old)
  PROVE  /\ AtPage(old, own, m, v) \in WindowState /\ AtHome(AtPage(old, own, m, v))
         /\ AtPage(old, own, m, v).shown = old.shown
<1> DEFINE rec == AtPage(old, own, m, v)
           page == <<"app", own, m, v>>
           menu == Menus[m]
<1>1. page \in Pages /\ page[2] = own /\ page[3] = m /\ page[4] = v
  BY MenuFacts, PageFacts
<1>2. menu \in {<<>>} \cup {Menus[k] : k \in Modules}
  OBVIOUS
<1>3. rec = [old EXCEPT !.page = page, !.menu = menu]
  BY DEF AtPage
<1>4. old.appid = old.opened
  BY DEF AtHome
<1> HIDE DEF rec, page
<1>5. /\ rec \in WindowState /\ rec.page = page /\ rec.menu = menu /\ rec.appid = rec.opened
      /\ rec.shown = old.shown
  <2> HIDE DEF menu
  <2> QED BY <1>1, <1>2, <1>3, <1>4 DEF WindowState
<1>6. rec.appid = own
  <2> HIDE DEF menu
  <2> QED BY <1>3 DEF WindowState, KeepsApp
<1>7. AtHome(rec)
  BY <1>1, <1>5, <1>6 DEF AtHome
<1> QED BY <1>5, <1>7 DEF rec

LEMMA FirstPageFacts ==
  ASSUME NEW old \in WindowState, NEW own \in App, NEW m \in Modules, NEW v \in Listed(m)
  PROVE  /\ FirstPage(old, own, m, v) \in WindowState /\ AtHome(FirstPage(old, own, m, v))
         /\ FirstPage(old, own, m, v).shown = old.shown
<1> DEFINE rec == FirstPage(old, own, m, v)
           page == <<"app", own, m, v>>
           menu == Menus[m]
<1>1. page \in Pages /\ page[2] = own /\ page[3] = m /\ page[4] = v
  BY MenuFacts, PageFacts
<1>2. menu \in {<<>>} \cup {Menus[k] : k \in Modules}
  OBVIOUS
<1>3. rec = [old EXCEPT !.page = page, !.menu = menu, !.appid = own, !.routed = TRUE, !.opened = own]
  BY DEF FirstPage
<1> HIDE DEF rec, page
<1>5. /\ rec \in WindowState /\ rec.page = page /\ rec.menu = menu /\ rec.appid = rec.opened /\ rec.appid = own
      /\ rec.shown = old.shown
  <2> HIDE DEF menu
  <2> QED BY <1>1, <1>2, <1>3 DEF WindowState
<1>6. AtHome(rec)
  BY <1>1, <1>5 DEF AtHome
<1> QED BY <1>5, <1>6 DEF rec

\* A window leaves for the portal or the login, or stays where it is.
LEMMA AwayFacts ==
  ASSUME NEW old \in WindowState, AtHome(old), NEW page \in {Portal, Login}, NEW rec,
         rec = [old EXCEPT !.page = page]
  PROVE  rec \in WindowState /\ AtHome(rec) /\ rec.shown = old.shown
<1>1. page \in Pages /\ ~Shows(page)
  BY PageFacts
<1> QED BY <1>1 DEF AtHome, WindowState


LEMMA WindowTyped ==
  ASSUME WindowsInv, NEW w \in Window
  PROVE  win[w] \in WindowState /\ AtHome(win[w])
BY DEF WindowsInv

LEMMA OpenAppKeeps ==
  ASSUME WindowsInv, NEW w \in Window, NEW own \in App, OpenApp(w, own)
  PROVE  WindowsInv' /\ ShowsNoOther
<1> DEFINE fresh == Loaded(Portal)
           there == [fresh EXCEPT !.page = <<"app", own, "Dashboard", "DashboardView">>,
                                  !.menu = Menus["Dashboard"], !.appid = own,
                                  !.routed = TRUE, !.opened = own]
<1>1. asked' \subseteq asked /\ token' \in BOOLEAN
  BY DEF OpenApp, WindowsInv
<1>2. fresh \in WindowState
  BY LoadedFacts
<1>3. there \in WindowState /\ AtHome(there) /\ there.shown = 0
  <2>1. fresh.shown = 0
    BY LoadedFacts
  <2>2. there = FirstPage(fresh, own, "Dashboard", "DashboardView")
    BY DEF FirstPage
  <2> HIDE DEF fresh, there
  <2> QED BY <1>2, <2>1, <2>2, MenuFacts, FirstPageFacts
<1>4. Goes(w, Loaded(Login)) \/ Goes(w, there)
  BY DEF OpenApp
<1> HIDE DEF there
<1> QED BY <1>1, <1>3, <1>4, LoadedFacts, GoesKeeps

LEMMA ReturnKeeps ==
  ASSUME WindowsInv, NEW w \in Window, NEW own \in App, NEW m \in Modules, NEW view,
         Return(w, own, m, view)
  PROVE  WindowsInv' /\ ShowsNoOther
<1> DEFINE old == win[w]
           away == [old EXCEPT !.page = Login]
           there == [old EXCEPT !.page = <<"app", own, m, view>>, !.menu = Menus[m]]
           first == [there EXCEPT !.appid = own, !.routed = TRUE, !.opened = own]
<1>1. old \in WindowState /\ AtHome(old)
  BY WindowTyped
<1>2. /\ view \in Listed(m) /\ asked' = asked /\ token' = token
      /\ old.routed => own = old.appid
  BY DEF Return
<1>3. \/ Goes(w, away)
      \/ old.routed /\ Goes(w, there)
      \/ Goes(w, first)
  BY DEF Return, Mounted, InitMenu
<1>4. asked' \subseteq asked /\ token' \in BOOLEAN
  BY <1>2 DEF WindowsInv
<1> HIDE DEF old
<1>5. away \in WindowState /\ AtHome(away) /\ away.shown = old.shown
  BY <1>1, AwayFacts
<1>6. ASSUME old.routed PROVE there \in WindowState /\ AtHome(there) /\ there.shown = old.shown
  <2>1. KeepsApp(old, own)
    BY <1>2, <1>6 DEF KeepsApp
  <2>2. there = AtPage(old, own, m, view)
    BY DEF AtPage
  <2> HIDE DEF there
  <2> QED BY <1>1, <1>2, <2>1, <2>2, AtPageFacts
<1>7. first \in WindowState /\ AtHome(first) /\ first.shown = old.shown
  <2>1. first = FirstPage(old, own, m, view)
    BY DEF FirstPage
  <2> HIDE DEF first, there
  <2> QED BY <1>1, <1>2, <2>1, FirstPageFacts
<1> HIDE DEF away, there, first
<1> QED BY <1>3, <1>4, <1>5, <1>6, <1>7, GoesKeeps DEF old

LEMMA ToPortalKeeps == ASSUME WindowsInv, NEW w \in Window, ToPortal(w) PROVE WindowsInv' /\ ShowsNoOther
<1> DEFINE page == BeforeEach(Portal)
           rec == [win[w] EXCEPT !.page = page]
<1>1. page \in {Portal, Login}
  BY DEF BeforeEach
<1>2. Goes(w, rec) /\ asked' \subseteq asked /\ token' \in BOOLEAN
  BY DEF ToPortal, WindowsInv
<1> HIDE DEF page
<1>3. rec \in WindowState /\ AtHome(rec) /\ rec.shown = win[w].shown
  BY <1>1, WindowTyped, AwayFacts
<1> HIDE DEF rec
<1> QED BY <1>2, <1>3, GoesKeeps

\* Of a window that shows an application.
LEMMA ShownFacts ==
  ASSUME NEW old \in WindowState, AtHome(old), Shows(old.page)
  PROVE  /\ \E view \in Listed(old.page[3]) : old.page = <<"app", old.page[2], old.page[3], view>>
         /\ old.page[2] \in App /\ old.page[2] = old.appid
         /\ old.page[3] \in Modules /\ old.menu = Menus[old.page[3]]
<1>1. old.page \in Pages
  BY DEF WindowState
<1>2. PICK own \in App, m \in Modules, v \in Content : old.page = <<"app", own, m, v>>
  BY <1>1, PageFacts
<1> QED BY <1>2 DEF AtHome

LEMMA SelectKeeps == ASSUME WindowsInv, NEW w \in Window, NEW view, Select(w, view) PROVE WindowsInv' /\ ShowsNoOther
<1> DEFINE old == win[w]
           away == [old EXCEPT !.page = Login]
           own == old.page[2]
           m == old.page[3]
           there == [old EXCEPT !.page[4] = view]
<1>1. old \in WindowState /\ AtHome(old)
  BY WindowTyped
<1>2. /\ Shows(old.page) /\ view \in ToSet(old.menu) /\ asked' \subseteq asked
      /\ token' \in BOOLEAN
      /\ Goes(w, there) \/ Goes(w, away)
  BY DEF Select, WindowsInv
<1> HIDE DEF old
<1>3. away \in WindowState /\ AtHome(away) /\ away.shown = old.shown
  BY <1>1, AwayFacts
<1>4. /\ own \in App /\ own = old.appid /\ m \in Modules /\ old.menu = Menus[m]
      /\ \E v \in Listed(m) : old.page = <<"app", own, m, v>>
  BY <1>1, <1>2, ShownFacts
<1>5. view \in Listed(m)
  BY <1>2, <1>4 DEF Listed
<1>6. there = [old EXCEPT !.page = <<"app", own, m, view>>, !.menu = Menus[m]]
  <2>1. [old.page EXCEPT ![4] = view] = <<"app", own, m, view>>
    <3> HIDE DEF own, m
    <3> QED BY <1>4
  <2>2. there = [old EXCEPT !.page = [old.page EXCEPT ![4] = view]]
    BY <1>1 DEF WindowState
  <2>3. \A page : [old EXCEPT !.page = page] = [old EXCEPT !.page = page, !.menu = old.menu]
    BY <1>1 DEF WindowState
  <2> HIDE DEF own, m, there
  <2> QED BY <1>4, <2>1, <2>2, <2>3
<1>7. there \in WindowState /\ AtHome(there) /\ there.shown = old.shown
  <2>1. KeepsApp(old, own)
    BY <1>4 DEF KeepsApp
  <2>2. there = AtPage(old, own, m, view)
    BY <1>6 DEF AtPage
  <2> HIDE DEF there, own, m
  <2> QED BY <1>1, <1>4, <1>5, <2>1, <2>2, AtPageFacts
<1> HIDE DEF there, away
<1> QED BY <1>2, <1>3, <1>7, GoesKeeps DEF old

LEMMA HandleSelectKeeps ==
  ASSUME WindowsInv, NEW w \in Window, NEW m \in Modules, HandleSelect(w, m)
  PROVE  WindowsInv' /\ ShowsNoOther
<1> DEFINE old == win[w]
           away == [old EXCEPT !.page = Login]
           own == old.page[2]
           there == [old EXCEPT !.page = <<"app", own, m, Menus[m][1]>>, !.menu = Menus[m]]
<1>1. old \in WindowState /\ AtHome(old)
  BY WindowTyped
<1>2. /\ Shows(old.page) /\ asked' \subseteq asked /\ token' \in BOOLEAN
      /\ Goes(w, there) \/ Goes(w, away)
  BY DEF HandleSelect, Mounted, WindowsInv
<1> HIDE DEF old
<1>3. away \in WindowState /\ AtHome(away) /\ away.shown = old.shown
  BY <1>1, AwayFacts
<1>4. own \in App /\ own = old.appid
  BY <1>1, <1>2, ShownFacts
<1>5. there \in WindowState /\ AtHome(there) /\ there.shown = old.shown
  <2>1. KeepsApp(old, own)
    BY <1>4 DEF KeepsApp
  <2>2. there = AtPage(old, own, m, Menus[m][1])
    BY DEF AtPage
  <2> HIDE DEF own, there
  <2> QED BY <1>1, <1>4, <2>1, <2>2, MenuFacts, AtPageFacts
<1> HIDE DEF there, away
<1> QED BY <1>2, <1>3, <1>5, GoesKeeps DEF old

LEMMA InspectorKeeps == ASSUME WindowsInv, NEW w \in Window, RequestInspector(w) PROVE WindowsInv' /\ ShowsNoOther
<1> DEFINE r == [window |-> w, page |-> win[w].page, authorization |-> token,
                 appid |-> IF token THEN win[w].appid ELSE Nobody]
<1>1. asked' = asked \cup {r} /\ UNCHANGED <<win, token>>
  BY DEF RequestInspector
<1>2. NamesItsApp(r)
  BY WindowTyped DEF NamesItsApp, AtHome
<1> HIDE DEF r
<1> QED BY <1>1, <1>2 DEF WindowsInv, ShowsNoOther

LEMMA AnswerKeeps ==
  ASSUME WindowsInv, NEW request \in asked, Answer(request)
  PROVE  WindowsInv' /\ ShowsNoOther
<1> DEFINE w == request.window
           rec == [win[w] EXCEPT !.redirected = TRUE, !.page = Login]
<1> w \in Window
  BY DEF WindowsInv, NamesItsApp
<1>1. asked' \subseteq asked /\ token' \in BOOLEAN /\ (UNCHANGED win \/ Goes(w, rec))
  BY DEF Answer, WindowsInv
<1>2. rec \in WindowState /\ AtHome(rec) /\ rec.shown = win[w].shown
  <2> DEFINE old == win[w]
  <2>1. old \in WindowState /\ AtHome(old)
    BY WindowTyped
  <2> HIDE DEF old
  <2> QED BY <2>1, PageFacts DEF WindowState, AtHome, old
<1> HIDE DEF rec
<1>3. CASE UNCHANGED win
  BY <1>1, <1>3 DEF WindowsInv, ShowsNoOther
<1> QED BY <1>1, <1>2, <1>3, GoesKeeps

LEMMA CommandKeeps == ASSUME WindowsInv, NEW w \in Window, HandleCommand(w) PROVE WindowsInv' /\ ShowsNoOther
<1>1. Goes(w, Loaded(Login)) /\ asked' \subseteq asked /\ token' \in BOOLEAN
  BY DEF HandleCommand
<1> QED BY <1>1, LoadedFacts, GoesKeeps


\* The form changes, and the page is what it was.
LEMMA HandleLoginKeeps == ASSUME WindowsInv, NEW w \in Window, HandleLogin(w) PROVE WindowsInv' /\ ShowsNoOther
<1> DEFINE old == win[w]
           rec == [old EXCEPT !.form = "captcha", !.popover = TRUE]
<1>1. old \in WindowState /\ AtHome(old)
  BY WindowTyped
<1>2. Goes(w, rec) /\ asked' \subseteq asked /\ token' \in BOOLEAN
  BY DEF HandleLogin, WindowsInv
<1> HIDE DEF old
<1>3. rec \in WindowState /\ AtHome(rec) /\ rec.shown = old.shown
  BY <1>1 DEF WindowState, AtHome
<1> HIDE DEF rec
<1> QED BY <1>2, <1>3, GoesKeeps DEF old

LEMMA GetCaptchaKeeps ==
  ASSUME WindowsInv, captchas \in Seq(Captcha), NEW w \in Window, NEW slot, NEW key,
         GetCaptcha(w, slot, key)
  PROVE  WindowsInv'
<1> DEFINE old == win[w]
           n == Len(captchas) + 1
           rec == [old EXCEPT !.shown = n]
<1>1. old \in WindowState /\ AtHome(old) /\ n \in Nat
  BY WindowTyped
<1>2. Goes(w, rec) /\ asked' \subseteq asked /\ token' \in BOOLEAN
  BY DEF GetCaptcha, WindowsInv
<1> HIDE DEF old, n
<1>3. rec \in WindowState /\ AtHome(rec)
  BY <1>1 DEF WindowState, AtHome
<1> HIDE DEF rec
<1> QED BY <1>2, <1>3, GoesKeeps

LEMMA ClickAwayKeeps == ASSUME WindowsInv, NEW w \in Window, ClickAway(w) PROVE WindowsInv' /\ ShowsNoOther
<1> DEFINE old == win[w]
           form == IF old.form = "loading" THEN old.form ELSE "wait"
           rec == [old EXCEPT !.popover = FALSE, !.form = form]
<1>1. old \in WindowState /\ AtHome(old) /\ form \in {"wait", "captcha", "loading"}
  BY WindowTyped DEF WindowState
<1>2. Goes(w, rec) /\ asked' \subseteq asked /\ token' \in BOOLEAN
  <2>1. win[w].form = old.form
    OBVIOUS
  <2>2. Goes(w, [win[w] EXCEPT !.popover = FALSE,
                               !.form = IF win[w].form = "loading" THEN win[w].form ELSE "wait"])
    BY DEF ClickAway
  <2> QED BY <2>1, <2>2 DEF ClickAway, WindowsInv
<1> HIDE DEF old, form
<1>3. rec \in WindowState /\ AtHome(rec) /\ rec.shown = old.shown
  BY <1>1 DEF WindowState, AtHome
<1> HIDE DEF rec
<1> QED BY <1>2, <1>3, GoesKeeps DEF old

LEMMA OnFinishKeeps ==
  ASSUME WindowsInv, NEW w \in Window, NEW drag, NEW password, OnFinish(w, drag, password)
  PROVE  WindowsInv' /\ ShowsNoOther
<1> DEFINE old == win[w]
           rec == [old EXCEPT !.form = "loading"]
<1>1. old \in WindowState /\ AtHome(old)
  BY WindowTyped
<1>2. Goes(w, rec) /\ asked' \subseteq asked /\ token' \in BOOLEAN
  BY DEF OnFinish, WindowsInv
<1> HIDE DEF old
<1>3. rec \in WindowState /\ AtHome(rec) /\ rec.shown = old.shown
  BY <1>1 DEF WindowState, AtHome
<1> HIDE DEF rec
<1> QED BY <1>2, <1>3, GoesKeeps DEF old

LEMMA SettleKeeps ==
  ASSUME WindowsInv, NEW login, login.window \in Window, NEW outcome, Settle(login, outcome),
         UNCHANGED asked
  PROVE  WindowsInv' /\ ShowsNoOther
<1> DEFINE w == login.window
           old == win[w]
           in == [old EXCEPT !.page = Portal, !.form = "wait", !.popover = FALSE, !.shown = 0]
           again == [old EXCEPT !.form = "wait", !.popover = FALSE]
<1>1. old \in WindowState /\ AtHome(old)
  BY WindowTyped
<1>2. /\ Goes(w, in) \/ Goes(w, again) \/ UNCHANGED win
      /\ asked' \subseteq asked /\ token' \in BOOLEAN
  BY DEF Settle, WindowsInv
<1> HIDE DEF old
<1>3. in \in WindowState /\ AtHome(in) /\ in.shown = 0
  BY <1>1, PageFacts DEF WindowState, AtHome
<1>4. again \in WindowState /\ AtHome(again) /\ again.shown = old.shown
  BY <1>1 DEF WindowState, AtHome
<1> HIDE DEF in, again
<1>5. CASE UNCHANGED win
  BY <1>2, <1>5 DEF WindowsInv, ShowsNoOther
<1> QED BY <1>2, <1>3, <1>4, <1>5, GoesKeeps DEF old

LEMMA SameWindows ==
  ASSUME WindowsInv, UNCHANGED <<win, asked>>, token' \in BOOLEAN
  PROVE  WindowsInv'
BY DEF WindowsInv

LEMMA WindowsStep ==
  ASSUME AccessInv, [AccessNext]_accessVars
  PROVE  WindowsInv'
<1>1. WindowsInv /\ token \in BOOLEAN /\ captchas \in Seq(Captcha)
      /\ \A login \in logins : login.window \in Window
  BY DEF AccessInv, WindowsInv, CaptchasInv, LoginOK
<1>2. CASE \E w \in Window :
             ToPortal(w) \/ RequestInspector(w) \/ HandleCommand(w) \/ HandleLogin(w) \/ ClickAway(w)
  BY <1>1, <1>2, ToPortalKeeps, InspectorKeeps, CommandKeeps, HandleLoginKeeps, ClickAwayKeeps
<1>3. CASE \E w \in Window, own \in App : OpenApp(w, own)
  BY <1>1, <1>3, OpenAppKeeps
<1>4. CASE \E w \in Window, own \in App, m \in Modules, view \in Entries : Return(w, own, m, view)
  BY <1>1, <1>4, ReturnKeeps
<1>5. CASE \E w \in Window, m \in Modules : HandleSelect(w, m)
  BY <1>1, <1>5, HandleSelectKeeps
<1>6. CASE \E w \in Window, view \in Entries : Select(w, view)
  BY <1>1, <1>6, SelectKeeps
<1>7. CASE \E w \in Window, slot \in Slots, key \in Stamps : GetCaptcha(w, slot, key)
  BY <1>1, <1>7, GetCaptchaKeeps
<1>8. CASE \E w \in Window, drag \in Drags, password \in BOOLEAN : OnFinish(w, drag, password)
  BY <1>1, <1>8, OnFinishKeeps
<1>9. CASE Elsewhere
  BY <1>1, <1>9, SameWindows DEF Elsewhere
<1>10. CASE \E request \in asked : Answer(request)
  BY <1>1, <1>10, AnswerKeeps
<1>11. CASE \E c \in live : Expire(c)
  BY <1>1, <1>11, SameWindows DEF Expire
<1>12. CASE \E login \in logins : Find(login) \/ Verify(login) \/ Fails(login)
  <2> SUFFICES ASSUME NEW login \in logins, Find(login) \/ Verify(login) \/ Fails(login)
               PROVE  WindowsInv'
    BY <1>12
  <2>1. login.window \in Window /\ UNCHANGED asked
    BY <1>1 DEF Find, Verify, Fails
  <2>2. (\E outcome : Settle(login, outcome)) \/ UNCHANGED <<token, win>>
    BY DEF Find, Verify, Fails
  <2> QED BY <1>1, <2>1, <2>2, SettleKeeps, SameWindows
<1>13. CASE UNCHANGED accessVars
  BY <1>1, <1>13, SameWindows DEF accessVars
<1> QED BY <1>2, <1>3, <1>4, <1>5, <1>6, <1>7, <1>8, <1>9, <1>10, <1>11, <1>12, <1>13 DEF AccessNext


-----------------------------------------------------------------------------
LEMMA CaptchasStart == AccessInit => CaptchasInv
<1> SUFFICES ASSUME AccessInit PROVE CaptchasInv
  OBVIOUS
<1>1. captchas = <<>> /\ live = {} /\ logins = {} /\ verdicts = {} /\ win = [w \in Window |-> Loaded(Login)]
  BY DEF AccessInit
<1>2. <<>> \in Seq(Captcha) /\ Len(<<>>) = 0
  OBVIOUS
<1>3. \A w \in Window : win[w].shown = 0
  BY <1>1, LoadedFacts
<1> QED BY <1>1, <1>2, <1>3 DEF CaptchasInv

\* A captcha that is gone makes no difference to an answer or a verdict.
LEMMA FewerKept ==
  ASSUME NEW kept, NEW less, less \subseteq kept, NEW drawn
  PROVE  /\ \A login : LoginOK(login, kept, drawn) => LoginOK(login, less, drawn)
         /\ \A v : VerdictOK(v, kept, drawn) => VerdictOK(v, less, drawn)
BY DEF LoginOK, FirstKept, VerdictOK

LEMMA ShownStays ==
  ASSUME AccessInv, ShowsNoOther, UNCHANGED captchas
  PROVE  \A w \in Window : win'[w].shown \in 0 .. Len(captchas')
<1>1. \A w \in Window : win[w].shown \in 0 .. Len(captchas)
  BY DEF AccessInv, CaptchasInv
<1>2. Len(captchas) \in Nat /\ win \in [Window -> WindowState]
  BY DEF AccessInv, CaptchasInv, WindowsInv
<1>3. CASE UNCHANGED win
  BY <1>1, <1>3
<1>4. CASE \E w \in Window, rec \in WindowState : Goes(w, rec) /\ rec.shown \in {win[w].shown, 0}
  <2>1. PICK w \in Window, rec \in WindowState : Goes(w, rec) /\ rec.shown \in {win[w].shown, 0}
    BY <1>4
  <2>2. \A u \in Window : win'[u] = IF u = w THEN rec ELSE win[u]
    BY <1>2, <2>1 DEF Goes
  <2>3. rec.shown \in 0 .. Len(captchas)
    BY <1>1, <1>2, <2>1
  <2> QED BY <1>1, <2>2, <2>3
<1> QED BY <1>3, <1>4 DEF ShowsNoOther

LEMMA QuietCaptchas ==
  ASSUME AccessInv, ShowsNoOther, UNCHANGED <<captchas, logins, verdicts>>, live' \subseteq live
  PROVE  CaptchasInv'
<1>1. \A w \in Window : win'[w].shown \in 0 .. Len(captchas')
  BY ShownStays
<1>2. /\ \A login \in logins : LoginOK(login, live', captchas)
      /\ \A v \in verdicts : VerdictOK(v, live', captchas)
  BY FewerKept DEF AccessInv, CaptchasInv
<1> QED BY <1>1, <1>2 DEF AccessInv, CaptchasInv

\* A captcha is drawn: those drawn before keep their numbers.
LEMMA DrawnBefore ==
  ASSUME NEW drawn \in Seq(Captcha), NEW c \in Captcha, NEW kept, kept \subseteq 1 .. Len(drawn)
  PROVE  LET more == Append(drawn, c)
             now  == kept \cup {Len(drawn) + 1}
         IN  /\ \A login : LoginOK(login, kept, drawn) => LoginOK(login, now, more)
             /\ \A v : VerdictOK(v, kept, drawn) => VerdictOK(v, now, more)
<1> DEFINE more == Append(drawn, c)
           n == Len(drawn) + 1
           now == kept \cup {n}
<1>1. /\ n \in Nat /\ Len(drawn) \in Nat /\ Len(more) = n
      /\ \A i \in 1 .. Len(drawn) : more[i] = drawn[i]
  OBVIOUS
<1> HIDE DEF more
<1>2. ASSUME NEW login, LoginOK(login, kept, drawn) PROVE LoginOK(login, now, more)
  <2>1. /\ IsLogin(login) /\ login.window \in Window /\ login.captcha \in 0 .. Len(more)
        /\ WholePixels(login.seen) \/ login.answer = login.seen
    BY <1>1, <1>2 DEF LoginOK
  <2>2. ASSUME login.phase = "found"
        PROVE  /\ login.target \in 1 .. Len(more) /\ login.captcha # 0
               /\ more[login.target].key = more[login.captcha].key
               /\ login.target \in now => FirstKept(login.target, now, more)
    <3>1. /\ login.target \in 1 .. Len(drawn) /\ login.captcha \in 1 .. Len(drawn)
          /\ drawn[login.target].key = drawn[login.captcha].key
          /\ login.target \in kept => FirstKept(login.target, kept, drawn)
      BY <1>1, <1>2, <2>2 DEF LoginOK
    <3>2. login.target # n /\ login.target \in 1 .. Len(more)
      BY <1>1, <3>1
    <3>3. login.target \in now => FirstKept(login.target, now, more)
      <4> SUFFICES ASSUME login.target \in now, NEW d \in now, more[d].key = more[login.target].key
                   PROVE  login.target <= d
        BY DEF FirstKept
      <4>1. CASE d \in kept
        BY <1>1, <3>1, <3>2, <4>1 DEF FirstKept
      <4>2. CASE d = n
        BY <1>1, <3>1, <4>2
      <4> QED BY <4>1, <4>2
    <3> QED BY <1>1, <3>1, <3>2, <3>3
  <2> QED BY <2>1, <2>2 DEF LoginOK
<1>3. ASSUME NEW v, VerdictOK(v, kept, drawn) PROVE VerdictOK(v, now, more)
  <2> SUFFICES ASSUME Judged(v)
               PROVE  /\ v.captcha \in 1 .. Len(more) /\ v.target \in 1 .. Len(more) \ now
                      /\ more[v.target].key = more[v.captcha].key
                      /\ v.outcome = "misplaced" => WholePixels(v.seen) \/ ~Close(more[v.target].offset, v.seen)
    BY DEF VerdictOK
  <2>1. /\ v.captcha \in 1 .. Len(drawn) /\ v.target \in 1 .. Len(drawn) \ kept
        /\ drawn[v.target].key = drawn[v.captcha].key
        /\ v.outcome = "misplaced" => WholePixels(v.seen) \/ ~Close(drawn[v.target].offset, v.seen)
    BY <1>3 DEF VerdictOK
  <2> QED BY <1>1, <2>1
<1> QED BY <1>2, <1>3 DEF more

LEMMA StampTyped == ASSUME captchas \in Seq(Captcha), NEW key \in Stamps PROVE key \in Nat \ {0}
<1>1. CASE captchas = <<>>
  BY <1>1 DEF Stamps
<1>2. CASE captchas # <<>>
  <2>1. captchas[Len(captchas)] \in Captcha
    BY <1>2
  <2>2. captchas[Len(captchas)].key \in Nat \ {0}
    BY <2>1 DEF Captcha
  <2> QED BY <1>2, <2>2 DEF Stamps, Last
<1> QED BY <1>1, <1>2

LEMMA GetCaptchaDraws ==
  ASSUME AccessInv, NEW w \in Window, NEW slot \in Slots, NEW key \in Stamps, GetCaptcha(w, slot, key)
  PROVE  CaptchasInv'
<1> DEFINE c == [key |-> key, offset |-> slot]
           n == Len(captchas) + 1
           rec == [win[w] EXCEPT !.shown = n]
<1>1. /\ captchas \in Seq(Captcha) /\ live \subseteq 1 .. Len(captchas)
      /\ \A u \in Window : win[u].shown \in 0 .. Len(captchas)
      /\ \A login \in logins : LoginOK(login, live, captchas)
      /\ \A v \in verdicts : VerdictOK(v, live, captchas)
      /\ win \in [Window -> WindowState]
  BY DEF AccessInv, CaptchasInv, WindowsInv
<1>2. c \in Captcha
  BY <1>1, StampTyped DEF Captcha
<1>3. /\ captchas' = Append(captchas, c) /\ live' = live \cup {n}
      /\ win' = [win EXCEPT ![w] = rec] /\ UNCHANGED <<logins, verdicts>>
  BY DEF GetCaptcha, Goes
<1>4. /\ \A login \in logins' : LoginOK(login, live', captchas')
      /\ \A v \in verdicts' : VerdictOK(v, live', captchas')
  <2> HIDE DEF c
  <2> QED BY <1>1, <1>2, <1>3, DrawnBefore
<1>5. captchas' \in Seq(Captcha) /\ Len(captchas') = n /\ n \in Nat /\ Len(captchas) \in Nat
  <2> HIDE DEF c
  <2> QED BY <1>1, <1>2, <1>3
<1>6. rec.shown = n
  BY <1>1 DEF WindowState
<1> HIDE DEF rec
<1>7. \A u \in Window : win'[u].shown \in 0 .. Len(captchas')
  BY <1>1, <1>3, <1>5, <1>6
<1>8. live' \subseteq 1 .. Len(captchas')
  <2> SUFFICES ASSUME NEW x \in live' PROVE x \in 1 .. n
    BY <1>5
  <2>1. CASE x \in live
    <3>1. x \in 1 .. Len(captchas)
      BY <1>1, <2>1
    <3> QED BY <1>5, <3>1
  <2>2. CASE x = n
    BY <1>5, <2>2
  <2> QED BY <1>3, <2>1, <2>2
<1> QED BY <1>4, <1>5, <1>7, <1>8 DEF CaptchasInv

LEMMA OnFinishAnswers ==
  ASSUME AccessInv, NEW w \in Window, NEW drag, NEW password, OnFinish(w, drag, password)
  PROVE  CaptchasInv'
<1> DEFINE id == Cardinality(verdicts) + Cardinality(logins)
           login == [window |-> w, id |-> id, captcha |-> win[w].shown, seen |-> BlockStyle(drag),
                     answer |-> OnDragEnd(drag), password |-> password, target |-> 0, phase |-> "sent"]
<1>1. logins' = logins \cup {login} /\ UNCHANGED <<captchas, live, verdicts>>
  BY DEF OnFinish
<1>2. LoginOK(login, live, captchas)
  <2>1. /\ win[w].shown \in 0 .. Len(captchas)
        /\ WholePixels(BlockStyle(drag)) \/ OnDragEnd(drag) = BlockStyle(drag)
    BY DEF AccessInv, CaptchasInv, OnDragEnd
  <2>2. /\ login.window = w /\ login.captcha = win[w].shown
        /\ WholePixels(login.seen) \/ login.answer = login.seen
        /\ login.phase # "found"
    BY <2>1
  <2>3. IsLogin(login)
    <3> HIDE DEF id
    <3> QED BY DEF IsLogin
  <2> HIDE DEF login
  <2> QED BY <2>1, <2>2, <2>3 DEF LoginOK
<1> HIDE DEF login
<1>3. ShowsNoOther
  BY OnFinishKeeps DEF AccessInv
<1>4. \A u \in Window : win'[u].shown \in 0 .. Len(captchas')
  BY <1>1, <1>3, ShownStays
<1> QED BY <1>1, <1>2, <1>4 DEF AccessInv, CaptchasInv

-----------------------------------------------------------------------------
\* The captchas under the key of the one the user saw.
LEMMA KeptFacts ==
  ASSUME AccessInv, NEW login \in logins, Kept(login) # {}
  PROVE  /\ login.captcha \in 1 .. Len(captchas) /\ Earliest(Kept(login)) \in live
         /\ captchas[Earliest(Kept(login))].key = captchas[login.captcha].key
         /\ FirstKept(Earliest(Kept(login)), live, captchas)
<1>1. /\ captchas \in Seq(Captcha) /\ live \subseteq 1 .. Len(captchas) /\ Len(captchas) \in Nat
      /\ LoginOK(login, live, captchas)
  BY DEF AccessInv, CaptchasInv
<1>2. \A c \in live : captchas[c].key # 0
  <2>1. \A c \in live : captchas[c] \in Captcha
    BY <1>1
  <2> QED BY <2>1 DEF Captcha
<1>3. login.captcha \in 1 .. Len(captchas)
  <2>1. login.captcha # 0
    BY <1>2 DEF Kept, KeyOf
  <2> QED BY <1>1, <2>1 DEF LoginOK
<1>4. KeyOf(login) = captchas[login.captcha].key
  BY <1>1, <1>3 DEF KeyOf
<1>5. Kept(login) \in SUBSET Nat /\ Kept(login) \subseteq live
  <2>1. \A c \in live : c \in Nat
    BY <1>1
  <2>2. Kept(login) \subseteq live
    BY DEF Kept
  <2> HIDE DEF Kept
  <2> QED BY <2>1, <2>2
<1>6. Earliest(Kept(login)) \in Kept(login) /\ \A d \in Kept(login) : Earliest(Kept(login)) <= d
  <2> DEFINE S == Kept(login)
  <2>1. \E c \in S : \A d \in S : c <= d
    <3> HIDE DEF S
    <3> QED BY <1>5, FirstOf DEF S
  <2> HIDE DEF S
  <2>2. Earliest(S) \in S /\ \A d \in S : Earliest(S) <= d
    BY <2>1 DEF Earliest
  <2> QED BY <2>2 DEF S
<1> DEFINE first == Earliest(Kept(login))
<1>7. captchas[first].key = captchas[login.captcha].key /\ first \in live
  BY <1>4, <1>6 DEF Kept
<1>8. FirstKept(first, live, captchas)
  BY <1>4, <1>6, <1>7 DEF FirstKept, Kept
<1> QED BY <1>3, <1>7, <1>8

LEMMA FindKeeps == ASSUME AccessInv, NEW login \in logins, Find(login) PROVE CaptchasInv'
<1>1. login.window \in Window /\ LoginOK(login, live, captchas)
  BY DEF AccessInv, CaptchasInv, LoginOK
<1>2. UNCHANGED <<captchas, live, asked>>
  BY DEF Find
<1>3. CASE Kept(login) = {}
  <2>1. Settle(login, "expired")
    BY <1>3 DEF Find
  <2>2. ShowsNoOther
    BY <1>1, <1>2, <2>1, SettleKeeps DEF AccessInv
  <2>3. \A w \in Window : win'[w].shown \in 0 .. Len(captchas')
    BY <1>2, <2>2, ShownStays
  <2> DEFINE v == [id |-> login.id, captcha |-> login.captcha, seen |-> login.seen,
                   target |-> login.target, outcome |-> "expired"]
  <2>4. verdicts' = verdicts \cup {v} /\ logins' \subseteq logins
    BY <2>1 DEF Settle
  <2>5. VerdictOK(v, live, captchas)
    BY DEF VerdictOK, Judged
  <2> HIDE DEF v
  <2> QED BY <1>2, <2>3, <2>4, <2>5 DEF AccessInv, CaptchasInv
<1>4. CASE Kept(login) # {}
  <2> DEFINE first == Earliest(Kept(login))
             found == [login EXCEPT !.phase = "found", !.target = first]
  <2>1. /\ logins' = (logins \ {login}) \cup {found} /\ UNCHANGED <<verdicts, win>>
    BY <1>4 DEF Find
  <2>2. /\ login.captcha \in 1 .. Len(captchas) /\ first \in live
        /\ captchas[first].key = captchas[login.captcha].key
        /\ FirstKept(first, live, captchas)
    BY <1>4, KeptFacts
  <2>3. live \subseteq 1 .. Len(captchas) /\ Len(captchas) \in Nat
    BY DEF AccessInv, CaptchasInv
  <2> HIDE DEF first
  <2>4. LoginOK(found, live, captchas)
    <3>1. IsLogin(login)
      BY <1>1 DEF LoginOK
    <3>2. /\ IsLogin(found) /\ found.window = login.window /\ found.captcha = login.captcha
          /\ found.answer = login.answer /\ found.seen = login.seen /\ found.target = first
      BY <3>1 DEF IsLogin
    <3> HIDE DEF found
    <3>3. first \in 1 .. Len(captchas) /\ login.captcha # 0
      BY <2>2, <2>3
    <3> QED BY <1>1, <2>2, <3>2, <3>3 DEF LoginOK
  <2> HIDE DEF found
  <2> QED BY <1>2, <2>1, <2>4 DEF AccessInv, CaptchasInv
<1> QED BY <1>3, <1>4

\* What is removed is what was found, or that was gone before.
LEMMA VerifyRemoves ==
  ASSUME AccessInv, NEW login \in logins, Verify(login)
  PROVE  live' \subseteq live /\ login.target \notin live'
<1>1. live' \subseteq live
  BY DEF Verify
<1>2. ASSUME login.target \in live PROVE live' = live \ {login.target}
  <2>1. /\ login.captcha # 0 /\ captchas[login.target].key = captchas[login.captcha].key
        /\ FirstKept(login.target, live, captchas) /\ login.target \in Nat
        /\ live \subseteq Nat
    BY <1>2 DEF Verify, AccessInv, CaptchasInv, LoginOK
  <2>2. login.target \in Kept(login)
    BY <1>2, <2>1 DEF Kept, KeyOf
  <2>3. /\ Earliest(Kept(login)) \in live
        /\ captchas[Earliest(Kept(login))].key = captchas[login.captcha].key
        /\ FirstKept(Earliest(Kept(login)), live, captchas)
    BY <2>2, KeptFacts
  <2> DEFINE first == Earliest(Kept(login))
  <2>4. first <= login.target /\ login.target <= first /\ first \in Nat
    <3> HIDE DEF first
    <3> QED BY <1>2, <2>1, <2>3 DEF FirstKept, first
  <2>5. live' = live \ {first}
    BY <2>2 DEF Verify
  <2> HIDE DEF first
  <2> QED BY <2>1, <2>4, <2>5
<1> QED BY <1>1, <1>2

LEMMA VerifyKeeps == ASSUME AccessInv, NEW login \in logins, Verify(login) PROVE CaptchasInv'
<1> DEFINE outcome == Outcome(login)
           v == [id |-> login.id, captcha |-> login.captcha, seen |-> login.seen,
                 target |-> login.target, outcome |-> outcome]
<1>1. /\ login.phase = "found" /\ Settle(login, outcome) /\ UNCHANGED <<captchas, asked>>
      /\ live' \subseteq live /\ login.target \notin live'
  BY VerifyRemoves DEF Verify
<1>2. LoginOK(login, live, captchas) /\ login.window \in Window /\ live \subseteq 1 .. Len(captchas)
  BY DEF AccessInv, CaptchasInv, LoginOK
<1>3. outcome = "misplaced" => ~Close(captchas[login.target].offset, login.answer)
  BY DEF Outcome
<1>4. verdicts' = verdicts \cup {v} /\ logins' \subseteq logins
  BY <1>1 DEF Settle
<1> HIDE DEF outcome
<1>5. VerdictOK(v, live', captchas)
  <2>1. /\ login.target \in 1 .. Len(captchas) /\ login.captcha \in 1 .. Len(captchas)
        /\ captchas[login.target].key = captchas[login.captcha].key
        /\ WholePixels(login.seen) \/ login.answer = login.seen
    BY <1>1, <1>2 DEF LoginOK
  <2>2. /\ v.captcha = login.captcha /\ v.target = login.target /\ v.seen = login.seen
        /\ v.outcome = outcome
    OBVIOUS
  <2> HIDE DEF v
  <2> QED BY <1>1, <1>3, <2>1, <2>2 DEF VerdictOK
<1> HIDE DEF v
<1>6. ShowsNoOther
  BY <1>1, <1>2, SettleKeeps DEF AccessInv
<1>7. \A w \in Window : win'[w].shown \in 0 .. Len(captchas')
  BY <1>1, <1>6, ShownStays
<1>8. /\ \A l \in logins : LoginOK(l, live', captchas)
      /\ \A u \in verdicts : VerdictOK(u, live', captchas)
  BY <1>1, FewerKept DEF AccessInv, CaptchasInv
<1> QED BY <1>1, <1>2, <1>4, <1>5, <1>7, <1>8 DEF AccessInv, CaptchasInv

LEMMA FailsKeeps == ASSUME AccessInv, NEW login \in logins, Fails(login) PROVE CaptchasInv'
<1> DEFINE v == [id |-> login.id, captcha |-> login.captcha, seen |-> login.seen,
                 target |-> login.target, outcome |-> "failed"]
<1>1. Settle(login, "failed") /\ UNCHANGED <<captchas, live, asked>>
  BY DEF Fails
<1>2. login.window \in Window
  BY DEF AccessInv, CaptchasInv, LoginOK
<1>3. verdicts' = verdicts \cup {v} /\ logins' \subseteq logins
  BY <1>1 DEF Settle
<1>4. VerdictOK(v, live, captchas)
  BY DEF VerdictOK, Judged
<1> HIDE DEF v
<1>5. ShowsNoOther
  BY <1>1, <1>2, SettleKeeps DEF AccessInv
<1>6. \A w \in Window : win'[w].shown \in 0 .. Len(captchas')
  BY <1>1, <1>5, ShownStays
<1> QED BY <1>1, <1>3, <1>4, <1>6 DEF AccessInv, CaptchasInv

LEMMA CaptchasStep == ASSUME AccessInv, [AccessNext]_accessVars PROVE CaptchasInv'
<1>1. WindowsInv
  BY DEF AccessInv
<1>2. CASE /\ UNCHANGED <<captchas, logins, verdicts>> /\ live' \subseteq live
           /\ ShowsNoOther
  BY <1>2, QuietCaptchas
<1>3. CASE \E w \in Window :
             ToPortal(w) \/ RequestInspector(w) \/ HandleCommand(w) \/ HandleLogin(w) \/ ClickAway(w)
  <2>1. UNCHANGED <<captchas, live, logins, verdicts>>
    BY <1>3 DEF ToPortal, RequestInspector, HandleCommand, HandleLogin, ClickAway
  <2>2. ShowsNoOther
    BY <1>1, <1>3, ToPortalKeeps, InspectorKeeps, CommandKeeps, HandleLoginKeeps, ClickAwayKeeps
  <2> QED BY <1>2, <2>1, <2>2
<1>4. CASE \E w \in Window, own \in App : OpenApp(w, own)
  <2>1. UNCHANGED <<captchas, live, logins, verdicts>>
    BY <1>4 DEF OpenApp
  <2> QED BY <1>1, <1>2, <1>4, <2>1, OpenAppKeeps
<1>5. CASE \E w \in Window, own \in App, m \in Modules, view \in Entries : Return(w, own, m, view)
  <2>1. UNCHANGED <<captchas, live, logins, verdicts>>
    BY <1>5 DEF Return
  <2> QED BY <1>1, <1>2, <1>5, <2>1, ReturnKeeps
<1>6. CASE \E w \in Window, m \in Modules : HandleSelect(w, m)
  <2>1. UNCHANGED <<captchas, live, logins, verdicts>>
    BY <1>6 DEF HandleSelect
  <2> QED BY <1>1, <1>2, <1>6, <2>1, HandleSelectKeeps
<1>7. CASE \E w \in Window, view \in Entries : Select(w, view)
  <2>1. UNCHANGED <<captchas, live, logins, verdicts>>
    BY <1>7 DEF Select
  <2> QED BY <1>1, <1>2, <1>7, <2>1, SelectKeeps
<1>8. CASE \E w \in Window, slot \in Slots, key \in Stamps : GetCaptcha(w, slot, key)
  BY <1>8, GetCaptchaDraws
<1>9. CASE \E w \in Window, drag \in Drags, password \in BOOLEAN : OnFinish(w, drag, password)
  BY <1>9, OnFinishAnswers
<1>10. CASE \E request \in asked : Answer(request)
  <2>1. UNCHANGED <<captchas, live, logins, verdicts>>
    BY <1>10 DEF Answer
  <2> QED BY <1>1, <1>2, <1>10, <2>1, AnswerKeeps
<1>11. CASE Elsewhere \/ (\E c \in live : Expire(c)) \/ UNCHANGED accessVars
  <2>1. UNCHANGED <<captchas, logins, verdicts, win>> /\ live' \subseteq live
    BY <1>11 DEF Elsewhere, Expire, accessVars
  <2> QED BY <1>2, <2>1 DEF ShowsNoOther
<1>12. CASE \E login \in logins : Find(login) \/ Verify(login) \/ Fails(login)
  BY <1>12, FindKeeps, VerifyKeeps, FailsKeeps
<1> QED BY <1>3, <1>4, <1>5, <1>6, <1>7, <1>8, <1>9, <1>10, <1>11, <1>12 DEF AccessNext

LEMMA AccessStart == AccessInit => AccessInv
BY WindowsStart, CaptchasStart DEF AccessInv

LEMMA AccessStep == AccessInv /\ [AccessNext]_accessVars => AccessInv'
BY WindowsStep, CaptchasStep DEF AccessInv

LEMMA AccessHolds == AccessInv => AccessIsSound
<1> SUFFICES ASSUME AccessInv PROVE AccessIsSound
  OBVIOUS
<1>1. \A v \in verdicts : VerdictOK(v, live, captchas)
  BY DEF AccessInv, CaptchasInv
<1>2. CaptchasAreSpent
  BY <1>1 DEF CaptchasAreSpent, VerdictOK, Judged
<1>3. RightPlaceIsAccepted
  <2> SUFFICES ASSUME NEW v \in verdicts, v.outcome = "misplaced", ~WholePixels(v.seen),
                      Close(captchas[v.captcha].offset, v.seen)
               PROVE  \E c, d \in DOMAIN captchas : c # d /\ captchas[c].key = captchas[d].key
    BY DEF RightPlaceIsAccepted
  <2>1. /\ v.captcha \in 1 .. Len(captchas) /\ v.target \in 1 .. Len(captchas)
        /\ captchas[v.target].key = captchas[v.captcha].key
        /\ ~Close(captchas[v.target].offset, v.seen)
    BY <1>1 DEF VerdictOK, Judged
  <2>2. v.captcha # v.target
    BY <2>1
  <2>3. DOMAIN captchas = 1 .. Len(captchas)
    BY DEF AccessInv, CaptchasInv
  <2> QED BY <2>1, <2>2, <2>3
<1>4. RequestsNameTheirApp
  BY DEF AccessInv, WindowsInv, NamesItsApp, AtHome, RequestsNameTheirApp
<1>5. MenuMatchesThePage
  <2> SUFFICES ASSUME NEW w \in Window, Shows(win[w].page)
               PROVE  /\ win[w].page[4] \in ToSet(win[w].menu) /\ win[w].page[4] \in Content
                      /\ win[w].menu = Menus[win[w].page[3]]
    BY DEF MenuMatchesThePage
  <2> DEFINE old == win[w]
  <2>1. /\ old.page[3] \in Modules /\ old.menu = Menus[old.page[3]]
        /\ old.page[4] \in Listed(old.page[3])
    BY WindowTyped DEF AccessInv, AtHome
  <2> HIDE DEF old
  <2>2. old.page[4] \in ToSet(old.menu) /\ old.page[4] \in Content
    BY <2>1, MenuFacts DEF Listed
  <2> QED BY <2>1, <2>2 DEF old
<1> QED BY <1>2, <1>3, <1>4, <1>5 DEF AccessIsSound

-----------------------------------------------------------------------------
(***************************************************************************)
(* Portal.  What is shown as empty was empty in the last list.             *)
(***************************************************************************)
BoardInv ==
  /\ \A f \in DOMAIN projects : f \in DOMAIN cacheProjects
       /\ (projects[f] = <<>> => cacheProjects[f] = <<>>)
  /\ dropped \subseteq {<<>>}

LEMMA BoardStart == PortalInit => BoardInv
BY DEF PortalInit, BoardInv

LEMMA BoardStep == BoardInv /\ [PortalNext]_portalVars => BoardInv'
<1> SUFFICES ASSUME BoardInv, [PortalNext]_portalVars PROVE BoardInv'
  OBVIOUS
<1> DEFINE Still == UNCHANGED <<projects, cacheProjects, dropped>>
<1>1. Still => BoardInv'
  BY DEF BoardInv
<1>2. AnotherUser \/ GetList \/ LoadForm \/ CloseDialog => Still
  BY DEF AnotherUser, screenVars, GetList, LoadForm, CloseDialog
<1>3. ASSUME NEW i \in 1..MaxLists, ListArrives(i) PROVE BoardInv'
  BY <1>3 DEF ListArrives, BoardInv
<1>4. ASSUME NEW word \in Names \cup {NoWord}, ThrottleSearch(word) PROVE BoardInv'
  <2>1. /\ projects' = IF word = NoWord THEN cacheProjects ELSE HitMap(word)
        /\ UNCHANGED <<cacheProjects, dropped>>
    BY <1>4 DEF ThrottleSearch, Search
  <2>2. \A f \in DOMAIN HitMap(word) : f \in DOMAIN cacheProjects /\ HitMap(word)[f] # <<>>
    BY DEF HitMap
  <2> QED BY <2>1, <2>2 DEF BoardInv
<1>5. ASSUME NEW word \in Names, UpdateApp(word) PROVE Still
  BY <1>5 DEF UpdateApp
<1>6. ASSUME NEW f \in Folder, HandleAdd(f) PROVE Still
  BY <1>6 DEF HandleAdd, Asks
<1>7. ASSUME NEW f \in DOMAIN projects, DeleteProject(f) PROVE BoardInv'
  BY <1>7 DEF DeleteProject, Asks, BoardInv
<1>8. ASSUME NEW f \in DOMAIN projects, OpenDialog(f, Nameless) PROVE Still
  BY <1>8 DEF OpenDialog
<1>9. ASSUME NEW f \in DOMAIN projects, NEW a \in ToSet(projects[f]),
             HandleContextmenu(f, a) \/ HandleUpdate(f, a)
      PROVE  Still
  BY <1>9 DEF HandleContextmenu, Asks, HandleUpdate, OpenDialog
<1>10. UNCHANGED portalVars => Still
  BY DEF portalVars
<1> HIDE DEF Still
<1> QED BY <1>1, <1>2, <1>3, <1>4, <1>5, <1>6, <1>7, <1>8, <1>9, <1>10 DEF PortalNext

LEMMA BoardHolds == BoardInv => OnlyEmptyOnesAreDeleted
BY DEF BoardInv, OnlyEmptyOnesAreDeleted

-----------------------------------------------------------------------------
(* A captcha is gone once a verdict was given on it, and the verdict is by  *)
(* where its piece was put, short of the ends of the slider (auth.ts:29,    *)
(* captcha.vue:90), a window asks about the application it shows and lists  *)
(* the entries of its menu (request.ts:33, useMenu.ts), no chart outlives   *)
(* the element or the analysis it draws (FcpOverview.vue), and no project   *)
(* that a search only hides the apps of is deleted for an empty one         *)
(* (EntryWrap.vue:40).                                                      *)
THEOREM ConsoleAlwaysSound ==
  /\ AccessInit /\ [][AccessNext]_accessVars
  /\ ChartsInit /\ [][ChartsNext]_chartVars
  /\ PortalInit /\ [][PortalNext]_portalVars
  => []ConsoleIsSound
<1>1. ChartsInv /\ [ChartsNext]_chartVars => ChartsInv'
  BY ChartsStep
<1>2. AccessInv /\ [AccessNext]_accessVars => AccessInv'
  BY AccessStep
<1>3. BoardInv /\ [PortalNext]_portalVars => BoardInv'
  BY BoardStep
<1>4. AccessInv /\ ChartsInv /\ BoardInv => ConsoleIsSound
  BY AccessHolds, ChartsHold, BoardHolds DEF ConsoleIsSound
<1> QED BY ChartsStart, AccessStart, BoardStart, <1>1, <1>2, <1>3, <1>4, PTL
=============================================================================
