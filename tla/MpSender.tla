------------------------------ MODULE MpSender ------------------------------
(***************************************************************************)
(* The mini-program SDK: BuryReport and createProxy of                     *)
(* packages/core/src/mp-uni/index.ts, over the buffer and the queue of     *)
(* utils.ts.  One instance runs at a time; its memory dies with it, the    *)
(* stored queue stays.                                                     *)
(*                                                                         *)
(* app holds the variables of the code.  A function of the code is an      *)
(* operator from the state h a handler sees to the state it leaves; io     *)
(* says whether storage can be written and whether uni.request throws.     *)
(***************************************************************************)
EXTENDS ReportQueue

CONSTANTS
  MaxRetry,      \* maxRetry, a finite one
  MaxStarts,     \* bound: how often the mini-program is started
  StorageFails,  \* whether a write to storage may fail
  RequestThrows  \* whether uni.request may throw

ASSUME MpAssumption ==
  /\ MaxRetry \in Nat \ {0} /\ MaxStarts \in Nat
  /\ {StorageFails, RequestThrows} \subseteq BOOLEAN

VARIABLES
  app,     \* the variables of the running instance, and the stored queue
  last,    \* the number of the latest record
  starts,  \* how often the mini-program was started
  stored,  \* history: records reported with store
  mine,    \* history: what the running instance accepted
  acked,   \* history: records of a confirmed request
  gone     \* history: records that died with an instance

vars == <<app, last, starts, stored, mine, acked, gone>>

NoRequest == [list |-> {}, memory |-> {}]

\* A new instance over the stored queue; cut is a history: what limits dropped.
Started(queue, cut) ==
  [queue |-> queue, buffer |-> {}, flushTimer |-> FALSE, memory |-> {},
   sending |-> FALSE, request |-> NoRequest, sendTimer |-> FALSE,
   pendingSend |-> FALSE, failStreak |-> 0, stopped |-> FALSE, cut |-> cut]

Init ==
  /\ app = Started({}, {})
  /\ last = 0 /\ starts = 1
  /\ stored = {} /\ mine = {} /\ acked = {} /\ gone = {}

Io == [write : IF StorageFails THEN BOOLEAN ELSE {TRUE},
       throw : IF RequestThrows THEN BOOLEAN ELSE {FALSE}]

-----------------------------------------------------------------------------
(***************************************************************************)
(* utils.ts.                                                               *)
(***************************************************************************)
WriteMemory(h, r) ==
  LET all == h.buffer \cup {r}
  IN  [h EXCEPT !.buffer = TrimOldest(all, MaxPersist), !.flushTimer = TRUE,
                !.cut = @ \cup (all \ TrimOldest(all, MaxPersist))]

\* Mutant: the buffer replaces the stored queue.
FlushOver(h, io) ==
  [h EXCEPT !.queue = Fit(h.buffer), !.buffer = {}, !.flushTimer = FALSE]

FlushMemoryToStorage(h, io) ==
  LET all == h.queue \cup h.buffer
  IN  IF h.buffer = {} THEN h
      ELSE IF io.write
      THEN [h EXCEPT !.queue = Fit(all), !.buffer = {}, !.flushTimer = FALSE,
                     !.cut = @ \cup (all \ Fit(all))]
      ELSE [h EXCEPT !.flushTimer = FALSE]

\* memoryOnly.push and its splice
PushMemory(h, r) ==
  LET all == h.memory \cup {r}
  IN  [h EXCEPT !.memory = Newest(all, MaxCache),
                !.cut = @ \cup (all \ Newest(all, MaxCache))]

-----------------------------------------------------------------------------
(***************************************************************************)
(* createProxy.  pendingImmediate is only set together with pendingSend,   *)
(* cleared together with it and read in a disjunction with it.             *)
(***************************************************************************)
ScheduleSend(h) == IF h.stopped THEN h ELSE [h EXCEPT !.sendTimer = TRUE]

\* Mutant: a send that was asked for is left to come.
StopLater(h) == [h EXCEPT !.stopped = TRUE, !.sendTimer = FALSE]

StopSending(h) ==
  [h EXCEPT !.stopped = TRUE, !.pendingSend = FALSE, !.sendTimer = FALSE]

\* Mutant: a failure is counted and nothing else.
GiveUpQuietly(h) ==
  IF h.stopped THEN [h EXCEPT !.sending = FALSE, !.request = NoRequest]
  ELSE [h EXCEPT !.sending = FALSE, !.request = NoRequest, !.pendingSend = FALSE,
                 !.failStreak = @ + 1]

\* finish(true): the streak grows, and the send is retried or all sending ends.
FinishFailed(h) ==
  LET idle == [h EXCEPT !.sending = FALSE, !.request = NoRequest]
      bad  == [idle EXCEPT !.pendingSend = FALSE, !.failStreak = @ + 1]
  IN  IF h.stopped THEN idle
      ELSE IF bad.failStreak > MaxRetry THEN StopSending(bad)
      ELSE ScheduleSend(bad)

\* finish(false), without its follow-up.
FinishDone(h) ==
  LET idle == [h EXCEPT !.sending = FALSE, !.request = NoRequest]
  IN  IF h.stopped THEN idle
      ELSE [idle EXCEPT !.pendingSend = FALSE, !.failStreak = 0]

SendRequest(h, io) ==
  LET f == FlushMemoryToStorage([h EXCEPT !.sendTimer = FALSE,
                                          !.pendingSend = FALSE,
                                          !.sending = TRUE], io)
  IN  IF h.stopped THEN h
      ELSE IF h.sending THEN [h EXCEPT !.pendingSend = TRUE]
      ELSE IF f.queue \cup f.memory = {} THEN FinishDone(f)
      ELSE IF io.throw THEN FinishFailed(f)
      ELSE [f EXCEPT !.request = [list |-> f.queue, memory |-> f.memory]]

-----------------------------------------------------------------------------
(***************************************************************************)
(* The handlers.                                                           *)
(***************************************************************************)

\* report, by a plugin or by the business code.
Report(store, immediate, io) ==
  LET r    == last + 1
      kept == IF store THEN WriteMemory(app, r) ELSE PushMemory(app, r)
      seen == [kept EXCEPT !.pendingSend = @ \/ kept.sending]
  IN  /\ ~app.stopped
      /\ last < NumRecords
      /\ last' = r
      /\ app' = ScheduleSend(IF immediate THEN SendRequest(seen, io) ELSE seen)
      /\ mine' = mine \cup {r}
      /\ stored' = IF store THEN stored \cup {r} ELSE stored
      /\ UNCHANGED <<starts, acked, gone>>

SendTimer(io) ==
  /\ app.sendTimer
  /\ app' = SendRequest([app EXCEPT !.sendTimer = FALSE], io)
  /\ UNCHANGED <<last, starts, stored, mine, acked, gone>>

FlushTimer(io) ==
  /\ app.flushTimer
  /\ app' = FlushMemoryToStorage(app, io)
  /\ UNCHANGED <<last, starts, stored, mine, acked, gone>>

(***************************************************************************)
(* The request succeeds with a 2xx: its records leave the queue, which is  *)
(* read again.  sentMemory is not a copy but the array memoryOnly itself,  *)
(* so that what was pushed to it since goes as well.                       *)
(***************************************************************************)
Success(io) ==
  LET done == FinishDone([app EXCEPT
                !.queue = IF io.write THEN @ \ app.request.list ELSE @,
                !.memory = {}])
  IN  /\ app.sending
      /\ app' = IF app.pendingSend THEN SendRequest(done, io) ELSE done
      /\ acked' = acked \cup app.request.list \cup app.request.memory
      /\ UNCHANGED <<last, starts, stored, mine, gone>>

\* Another status, an error, or the timeout of three seconds.
Fail ==
  /\ app.sending
  /\ app' = FinishFailed(app)
  /\ UNCHANGED <<last, starts, stored, mine, acked, gone>>

\* abort() by the business code.
Abort ==
  /\ ~app.stopped
  /\ app' = StopSending(app)
  /\ UNCHANGED <<last, starts, stored, mine, acked, gone>>

\* The mini-program is killed, at any time, and started again.
Restart ==
  /\ starts < MaxStarts /\ starts' = starts + 1
  /\ app' = Started(app.queue, app.cut)
  /\ gone' = gone \cup app.buffer \cup app.memory
  /\ mine' = {}
  /\ UNCHANGED <<last, stored, acked>>

Next ==
  \/ \E io \in Io : \/ \E store, immediate \in BOOLEAN : Report(store, immediate, io)
                    \/ SendTimer(io) \/ FlushTimer(io) \/ Success(io)
  \/ Fail \/ Abort \/ Restart

Spec == Init /\ [][Next]_vars

(***************************************************************************)
(* Fairness: timers fire, and a request ends one way or the other (it has  *)
(* a timeout).  Nothing makes a request succeed.                           *)
(***************************************************************************)
Fairness ==
  /\ WF_vars(\E io \in Io : SendTimer(io))
  /\ WF_vars(\E io \in Io : FlushTimer(io))
  /\ WF_vars(Fail \/ \E io \in Io : Success(io))

FairSpec == Spec /\ Fairness

-----------------------------------------------------------------------------
(***************************************************************************)
(* Properties.                                                             *)
(***************************************************************************)
AppState ==
  [queue : SUBSET Record, buffer : SUBSET Record, flushTimer : BOOLEAN,
   memory : SUBSET Record, sending : BOOLEAN,
   request : [list : SUBSET Record, memory : SUBSET Record],
   sendTimer : BOOLEAN, pendingSend : BOOLEAN, failStreak : 0 .. MaxRetry + 1,
   stopped : BOOLEAN, cut : SUBSET Record]

\* The types of the variables; the streak is bounded by maxRetry.
TypeOK ==
  /\ app \in AppState
  /\ last \in 0 .. NumRecords /\ starts \in Nat
  /\ \A S \in {stored, mine, acked, gone} : S \subseteq 1 .. last

(***************************************************************************)
(* The flag "sending" is a lock: while a request is in flight the flag is  *)
(* set, so no second one starts, and without one it is never left set; and *)
(* once sending has been given up no timer and no follow-up is left.       *)
(***************************************************************************)
SendingIsLock ==
  /\ TypeOK
  /\ app.sending <=> app.request # NoRequest
  /\ app.stopped => ~app.sendTimer /\ ~app.pendingSend
  /\ app.failStreak > MaxRetry => app.stopped

(***************************************************************************)
(* The records of the stored queue are delivered as Delivery promises,     *)
(* across failed requests, failed writes and restarts.                     *)
(***************************************************************************)
D == INSTANCE Delivery WITH
       held <- app.buffer \cup app.queue, delivered <- acked \cap stored,
       dropped <- (app.cut \cup gone) \cap stored

Delivers == D!Spec

(***************************************************************************)
(* Every record that an instance has put into the queue is confirmed or    *)
(* dropped by a limit, unless the retries are exhausted, the host aborts,  *)
(* or the instance ends.                                                   *)
(***************************************************************************)
EventuallyDelivered ==
  \A r \in Record :
    r \in mine \cap app.queue
      ~> r \in acked \cup app.cut \/ app.stopped \/ r \notin mine
=============================================================================
