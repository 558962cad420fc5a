--------------------------- MODULE BrowserSender ---------------------------
(***************************************************************************)
(* The sending half of the browser SDK: the BuryReport class and           *)
(* createProxy of packages/core/src/browser/index.ts over the buffer and   *)
(* the queue of packages/core/src/utils.ts.                                *)
(*                                                                         *)
(* Every open page runs its own single-threaded copy of the code; all      *)
(* pages of one origin share the stored queue (localStorage).  A handler   *)
(* runs to its first await without interruption, so a handler is one       *)
(* action; what follows the await of a fetch is another.  A handler is     *)
(* composed of the functions it calls: each is an operator from the state  *)
(* h the handler sees to the set of states it may leave.                   *)
(***************************************************************************)
EXTENDS ReportQueue

CONSTANTS
  Page,             \* the pages (tabs) of one origin
  KeepaliveBudget,  \* MAX_KEEPALIVE_TOTAL_BYTES
  MaxRetry,         \* maxRetry, a finite one
  MaxOpens,         \* bound: how often pages are opened altogether
  Lifecycle,        \* whether pages are hidden, shown and left
  WorkerFails,      \* whether creating or using the worker may fail
  WorkerStarts,     \* whether creating the worker may succeed
  StorageFails      \* whether a write to localStorage may fail

ASSUME SenderAssumption ==
  /\ KeepaliveBudget \in Nat
  /\ MaxRetry \in Nat \ {0}
  /\ MaxOpens \in Nat
  /\ {Lifecycle, WorkerFails, WorkerStarts, StorageFails} \subseteq BOOLEAN
  /\ WorkerFails \/ WorkerStarts

VARIABLES
  page,      \* page[p]: the variables of the copy of the code in page p
  queue,     \* the stored queue, REPORT_QUEUE in localStorage
  requests,  \* the fetch calls that have not settled
  last,      \* the number of the latest record
  opens,     \* how many pages have been opened
  stored, cached,   \* history: records accepted with store:true, store:false
  acked,     \* history: records of a request that was delivered
  handed,    \* history: records posted to a live worker
  cut,       \* history: records a limit dropped
  unsaved,   \* history: records that a failed write left where they were
  gone,      \* history: records that died with the memory of their page
  late,      \* records of fetches whose page is gone, which may still arrive
  outlived   \* history: records that did

adrift == <<late, outlived>>
vars == <<page, queue, requests, last, opens, stored, cached, acked,
          handed, cut, unsaved, gone, adrift>>

Closed ==
  [open |-> FALSE, memory |-> {}, cache |-> {}, flushSet |-> FALSE,
   flushDue |-> FALSE, sendTimer |-> FALSE, sending |-> FALSE,
   pending |-> FALSE, failStreak |-> 0, stopped |-> FALSE, worker |-> FALSE,
   visible |-> TRUE, hiddenReported |-> FALSE, episode |-> 0, mine |-> {}]

Init ==
  /\ page = [p \in Page |-> Closed]
  /\ queue = {}
  /\ requests = {}
  /\ last = 0
  /\ opens = 0
  /\ stored = {} /\ cached = {}
  /\ acked = {} /\ handed = {} /\ cut = {} /\ unsaved = {} /\ gone = {}
  /\ late = {} /\ outlived = {}

-----------------------------------------------------------------------------
(***************************************************************************)
(* The state a handler of page p works on, and its end.                    *)
(***************************************************************************)
Enter(p) ==
  [p |-> p, pg |-> page[p], queue |-> queue, requests |-> requests,
   handed |-> handed, cut |-> cut, unsaved |-> unsaved, failed |-> FALSE]

Leave(h) ==
  /\ page' = [page EXCEPT ![h.p] = h.pg]
  /\ queue' = h.queue
  /\ requests' = h.requests
  /\ handed' = h.handed
  /\ cut' = h.cut
  /\ unsaved' = h.unsaved

-----------------------------------------------------------------------------
(***************************************************************************)
(* utils.ts: the memory buffer.  flushSet is the variable flushTimer,      *)
(* flushDue the timer it names: flushMemoryToStorage returns early on an   *)
(* empty buffer and then leaves the variable set.                          *)
(***************************************************************************)
\* Mutant: the timer is stopped but its variable stays set.
TimerKeepingFlush(h) ==
  {[h EXCEPT !.queue = Fit(@ \cup h.pg.memory), !.pg.memory = {},
             !.pg.flushDue = FALSE]}

FlushMemoryToStorage(h) ==
  IF h.pg.memory = {}
  THEN {h}
  ELSE LET all     == h.queue \cup h.pg.memory
           done    == [h EXCEPT !.pg.flushSet = FALSE, !.pg.flushDue = FALSE]
           written == [done EXCEPT !.queue = Fit(all), !.pg.memory = {},
                                   !.cut = @ \cup (all \ Fit(all))]
           failed  == [done EXCEPT !.unsaved = @ \cup h.pg.memory]
       IN  {written} \cup (IF StorageFails THEN {failed} ELSE {})

WriteMemory(h, r, flush) ==
  LET all  == h.pg.memory \cup {r}
      kept == TrimOldest(all, MaxPersist)
      h1   == [h EXCEPT !.pg.memory = kept, !.cut = @ \cup (all \ kept)]
  IN  {[f EXCEPT !.pg.flushDue = @ \/ ~f.pg.flushSet, !.pg.flushSet = TRUE] :
         f \in IF flush THEN FlushMemoryToStorage(h1) ELSE {h1}}

(***************************************************************************)
(* writeQueue(removeSentRecords(readQueue(), sent)): the queue is read     *)
(* again, so what entered it since the request started stays.              *)
(***************************************************************************)
\* Mutant: the whole queue is cleared.
ClearQueue(h, sent) == {[h EXCEPT !.queue = {}]}

RemoveSentRecords(h, sent) ==
  {[h EXCEPT !.queue = @ \ sent]}
  \cup (IF StorageFails THEN {[h EXCEPT !.unsaved = @ \cup sent]} ELSE {})

-----------------------------------------------------------------------------
(***************************************************************************)
(* The store:false cache is an array that a request in flight may still    *)
(* hold: alias says that the array the request holds is the current one.   *)
(***************************************************************************)
PushCache(h, r) ==
  LET all  == h.pg.cache \cup {r}
      kept == Newest(all, MaxCache)
  IN  [h EXCEPT !.pg.cache = kept, !.cut = @ \cup (all \ kept)]

HeldCache(h, q) == IF q.alias THEN h.pg.cache ELSE q.array

\* Mutant: the whole cache is cleared.
ClearCache(h, sent) == [h EXCEPT !.pg.cache = {}]

\* BuryReport.cache = dropRefs(BuryReport.cache, sent): a new array, unless
\* nothing was sent.
DropRefs(h, sent) ==
  IF sent = {}
  THEN h
  ELSE [h EXCEPT !.pg.cache = @ \ sent,
                 !.requests = {IF q.page = h.p /\ q.alias
                               THEN [q EXCEPT !.alias = FALSE,
                                              !.array = h.pg.cache]
                               ELSE q : q \in @}]

\* postWorkerCache, when a worker existed as the send began.
PostWorkerCache(h, records) ==
  IF records = {}
  THEN {h}
  ELSE LET posted == IF h.pg.worker
                     THEN DropRefs([h EXCEPT !.handed = @ \cup records], records)
                     ELSE h
           thrown == [h EXCEPT !.pg.worker = FALSE, !.failed = TRUE]
       IN  {posted} \cup (IF WorkerFails THEN {thrown} ELSE {})

-----------------------------------------------------------------------------
(***************************************************************************)
(* createProxy: timers, the end of all sending, and one send.              *)
(***************************************************************************)
ScheduleSend(h) ==
  IF h.pg.stopped THEN h ELSE [h EXCEPT !.pg.sendTimer = TRUE]

\* Mutant: the send timer is not cleared.
AbortKeepingTimer(h) ==
  [h EXCEPT !.pg.stopped = TRUE, !.pg.pending = FALSE, !.pg.worker = FALSE]

\* abort: stopSending, and the worker is terminated.
Abort(h) ==
  [h EXCEPT !.pg.stopped = TRUE, !.pg.pending = FALSE, !.pg.sendTimer = FALSE,
            !.pg.worker = FALSE]

(***************************************************************************)
(* The finally block of a normal send, up to its follow-up: the lock is    *)
(* released, and a failure is counted and retried or ends all sending.     *)
(***************************************************************************)
Succeed(h) == [h EXCEPT !.pg.failStreak = 0]

Exhausted(h) == h.pg.failStreak > MaxRetry

Settle(h) ==
  LET free == [h EXCEPT !.pg.sending = FALSE]
      idle == [free EXCEPT !.pg.pending = FALSE]
      bad  == [idle EXCEPT !.pg.failStreak = @ + 1]
  IN  IF h.pg.stopped THEN free
      ELSE IF ~h.failed THEN Succeed(idle)
      ELSE IF Exhausted(bad) THEN Abort(bad)
      ELSE ScheduleSend(bad)

(***************************************************************************)
(* A normal send: the whole queue, and the cache when no worker takes it.  *)
(* With nothing for the main thread to send, it ends without an await.     *)
(***************************************************************************)
BeginNormal(h) ==
  LET body == IF h.pg.worker THEN {} ELSE h.pg.cache
  IN  IF h.queue = {} /\ body = {}
      THEN {Settle(f) :
              f \in IF h.pg.worker THEN PostWorkerCache(h, h.pg.cache) ELSE {h}}
      ELSE {[h EXCEPT !.requests = @ \cup
              {[page |-> h.p, keepalive |-> FALSE, owner |-> TRUE,
                list |-> h.queue, body |-> body, alias |-> TRUE, array |-> {},
                worker |-> h.pg.worker, by |-> 0, episode |-> h.pg.episode]}]}

(***************************************************************************)
(* A keepalive send: what fits the budget of the browser.  With a worker,  *)
(* the recording goes to the worker and the rest of the cache is sent from *)
(* a filtered copy; without one, from the cache array itself.              *)
(***************************************************************************)
BeginKeepalive(h, owner, by) ==
  LET main == IF h.pg.worker THEN h.pg.cache \ Track ELSE h.pg.cache
      list == PickWithinBudget(h.queue, KeepaliveBudget)
      body == PickWithinBudget(main, KeepaliveBudget - Bytes(list))
      sent == IF list \cup body = {}
              THEN [h EXCEPT !.pg.sending = ~owner]
              ELSE [h EXCEPT !.requests = @ \cup
                {[page |-> h.p, keepalive |-> TRUE, owner |-> owner,
                  list |-> list, body |-> body, alias |-> ~h.pg.worker,
                  array |-> main, worker |-> h.pg.worker, by |-> by,
                  episode |-> h.pg.episode]}]
  IN  IF h.pg.worker
      THEN PostWorkerCache(sent, h.pg.cache \cap Track)
      ELSE {sent}

(***************************************************************************)
(* sendRequest, to its first await.  pending is pendingSend; the variable  *)
(* pendingImmediate is only set together with it, cleared together with it *)
(* and read in a disjunction with it.                                      *)
(***************************************************************************)
SendRequest(h, keepalive, by) ==
  IF h.pg.stopped THEN {h}
  ELSE IF h.pg.sending /\ ~keepalive THEN {[h EXCEPT !.pg.pending = TRUE]}
  ELSE LET owner == ~h.pg.sending
           h1    == IF keepalive
                    THEN h
                    ELSE [h EXCEPT !.pg.sendTimer = FALSE, !.pg.pending = FALSE]
           h2    == [h1 EXCEPT !.pg.sending = TRUE]
       IN  UNION {IF keepalive THEN BeginKeepalive(f, owner, by)
                               ELSE BeginNormal(f) :
                    f \in FlushMemoryToStorage(h2)}

\* Mutant: what was reported meanwhile waits for another report().
NoFollowUp(h, needed) == {h}

FollowUp(h, needed) ==
  IF needed /\ ~h.failed THEN SendRequest(h, FALSE, 0) ELSE {h}

(***************************************************************************)
(* report: buffer or cache the record, mark it for the request in flight,  *)
(* send at once if asked to, and in any case arm the send timer.           *)
(***************************************************************************)
Accept(h, r, o) ==
  LET new  == [h EXCEPT !.pg.mine = @ \cup {r}]
      kept == IF o.store THEN WriteMemory(new, r, o.flush) ELSE {PushCache(new, r)}
      seen == {[k EXCEPT !.pg.pending = @ \/ k.pg.sending] : k \in kept}
  IN  {ScheduleSend(f) :
         f \in IF o.immediate
               THEN UNION {SendRequest(s, o.keepalive, r) : s \in seen}
               ELSE seen}

Plain  == [store |-> TRUE, flush |-> FALSE, immediate |-> FALSE, keepalive |-> FALSE]
Now    == [Plain EXCEPT !.immediate = TRUE]
Memory == [Plain EXCEPT !.store = FALSE]
Replay == [Memory EXCEPT !.immediate = TRUE]
Leaving == [store |-> TRUE, flush |-> TRUE, immediate |-> TRUE, keepalive |-> TRUE]

\* The options the plugins and the API of the SDK report a record with.
OptionsOf(r) == CASE r \in Info  -> {Now}
                  [] r \in Track -> {Memory, Replay}
                  [] OTHER       -> {Plain, Now, Memory}

-----------------------------------------------------------------------------
(***************************************************************************)
(* The handlers.                                                           *)
(***************************************************************************)

\* The constructor: a page of the origin is opened.
Open(p) ==
  /\ ~page[p].open
  /\ opens < MaxOpens
  /\ opens' = opens + 1
  /\ \E w \in (IF WorkerStarts THEN {TRUE} ELSE {}) \cup
              (IF WorkerFails THEN {FALSE} ELSE {}) :
       page' = [page EXCEPT ![p] = [Closed EXCEPT !.open = TRUE, !.worker = w]]
  /\ UNCHANGED <<queue, requests, last, stored, cached, acked, handed, cut,
                 unsaved, gone, adrift>>

(***************************************************************************)
(* The page is closed or crashes: its memory and what would have followed  *)
(* its requests go with it, the stored queue stays.  The browser completes *)
(* the fetches of a keepalive send, and of an ordinary one the server may  *)
(* have what was under way: their records may arrive, and nobody takes     *)
(* them off the queue.                                                     *)
(***************************************************************************)
Close(p) ==
  /\ page[p].open
  /\ page' = [page EXCEPT ![p] = Closed]
  /\ requests' = {q \in requests : q.page # p}
  /\ late' = late \cup UNION {q.list \cup q.body : q \in {x \in requests : x.page = p}}
  /\ gone' = gone \cup page[p].memory \cup page[p].cache
  /\ UNCHANGED <<queue, last, opens, stored, cached, acked, handed, cut, unsaved,
                 outlived>>

\* Some of them arrive.
Arrive ==
  \E S \in SUBSET late :
    /\ S # {}
    /\ late' = late \ S
    /\ acked' = acked \cup S
    /\ outlived' = outlived \cup S
    /\ UNCHANGED <<page, queue, requests, last, opens, stored, cached, handed, cut,
                   unsaved, gone>>

\* A call of report() by a plugin or by the business code.
Report(p) ==
  /\ page[p].open
  /\ ~page[p].stopped
  /\ last < NumRecords
  /\ last' = last + 1
  /\ \E o \in OptionsOf(last + 1) :
       /\ \E h \in Accept(Enter(p), last + 1, o) : Leave(h)
       /\ stored' = IF o.store THEN stored \cup {last + 1} ELSE stored
       /\ cached' = IF o.store THEN cached ELSE cached \cup {last + 1}
  /\ UNCHANGED <<opens, acked, gone, adrift>>

\* The timer of scheduleSend fires.
SendTimer(p) ==
  /\ page[p].sendTimer
  /\ \E h \in SendRequest([Enter(p) EXCEPT !.pg.sendTimer = FALSE], FALSE, 0) :
       Leave(h)
  /\ UNCHANGED <<last, opens, stored, cached, acked, gone, adrift>>

\* The timer of writeMemory fires.
FlushTimer(p) ==
  /\ page[p].flushDue
  /\ \E h \in FlushMemoryToStorage([Enter(p) EXCEPT !.pg.flushDue = FALSE]) :
       Leave(h)
  /\ UNCHANGED <<last, opens, stored, cached, acked, gone, adrift>>

(***************************************************************************)
(* The fetch of a normal send settles.  It is fulfilled by every answer    *)
(* of the server, whatever its status: the mode is no-cors.                *)
(***************************************************************************)
NormalSettles(q, ok) ==
  LET h0    == [Enter(q.page) EXCEPT !.requests = @ \ {q}, !.failed = ~ok]
      post  == IF q.worker THEN PostWorkerCache(h0, HeldCache(h0, q)) ELSE {h0}
      clean == IF ok THEN UNION {RemoveSentRecords(f, q.list) : f \in post}
                     ELSE post
      drop  == IF ok /\ ~q.worker
               THEN {DropRefs(f, HeldCache(f, q)) : f \in clean}
               ELSE clean
  IN  UNION {FollowUp(Settle(f), f.pg.pending) : f \in drop}

CompleteNormal(q) ==
  /\ ~q.keepalive
  /\ \E ok \in BOOLEAN :
       /\ \E h \in NormalSettles(q, ok) : Leave(h)
       /\ acked' = IF ok THEN acked \cup q.list \cup q.body ELSE acked
  /\ UNCHANGED <<last, opens, stored, cached, gone, adrift>>

\* Mutant: a keepalive send releases the lock of the normal send it overlaps.
LockReleasing(q, done) ==
  {[f EXCEPT !.pg.sending = FALSE] :
     f \in RemoveSentRecords([Enter(q.page) EXCEPT !.requests = @ \ {q}],
                             done \cap q.list)}

\* Mutant: the delivered records stay in the stored queue.
QueueKeeping(q, done) ==
  {[Enter(q.page) EXCEPT !.requests = @ \ {q}, !.pg.sending = @ /\ ~q.owner]}

(***************************************************************************)
(* The requests of a keepalive send have all settled, done being the       *)
(* records of the fulfilled ones.  The cache records to drop are looked up *)
(* by position in the array the send began with.                           *)
(***************************************************************************)
KeepaliveSettles(q, done) ==
  LET h0    == [Enter(q.page) EXCEPT !.requests = @ \ {q}]
      array == HeldCache(h0, q)
      sent  == {r \in array : \E d \in done \cap q.body :
                                 Rank(array, r) = Rank(q.body, d)}
  IN  {[DropRefs(f, sent) EXCEPT !.pg.sending = @ /\ ~q.owner] :
         f \in RemoveSentRecords(h0, done \cap q.list)}

CompleteKeepalive(q) ==
  /\ q.keepalive
  /\ \E done \in SUBSET (q.list \cup q.body) :
       /\ \E h \in KeepaliveSettles(q, done) : Leave(h)
       /\ acked' = acked \cup done
  /\ UNCHANGED <<last, opens, stored, cached, gone, adrift>>

(***************************************************************************)
(* The page is hidden, shown, or left.  The recorder hands over what it    *)
(* has collected, if anything; then the first of visibilitychange and      *)
(* pagehide reports LIFECYCLE with a keepalive send.                       *)
(***************************************************************************)
Collect(h, r) == IF r \in Track /\ ~h.pg.stopped THEN Accept(h, r, Memory) ELSE {h}

Silent(p) == page[p].hiddenReported \/ page[p].stopped

LeavePage(p, visible) ==
  LET h0      == [Enter(p) EXCEPT !.pg.visible = visible, !.pg.hiddenReported = TRUE]
      silent  == Silent(p)
      t       == last + 1
      collect == t \in Track /\ ~page[p].stopped
      l       == IF collect THEN last + 2 ELSE last + 1
  IN  /\ ~silent => l <= NumRecords /\ l \notin Track \cup Info
      /\ last' = IF silent THEN (IF collect THEN t ELSE last) ELSE l
      /\ cached' = IF collect THEN cached \cup {t} ELSE cached
      /\ stored' = IF silent THEN stored ELSE stored \cup {l}
      /\ \E c \in Collect(h0, t) :
           \E h \in IF silent THEN {c} ELSE Accept(c, l, Leaving) : Leave(h)
      /\ UNCHANGED <<opens, acked, gone, adrift>>

Hide(p) ==
  /\ Lifecycle /\ page[p].open /\ page[p].visible
  /\ IF page[p].hiddenReported
     THEN /\ page' = [page EXCEPT ![p].visible = FALSE]
          /\ UNCHANGED <<queue, requests, last, opens, stored, cached, acked,
                         handed, cut, unsaved, gone, adrift>>
     ELSE LeavePage(p, FALSE)

PageHide(p) ==
  /\ Lifecycle /\ page[p].open
  /\ LeavePage(p, page[p].visible)

Show(p) ==
  /\ Lifecycle /\ page[p].open /\ ~page[p].visible
  /\ page' = [page EXCEPT ![p].visible = TRUE, ![p].hiddenReported = FALSE,
                          ![p].episode = IF page[p].stopped THEN @ ELSE @ + 1]
  /\ UNCHANGED <<queue, requests, last, opens, stored, cached, acked, handed,
                 cut, unsaved, gone, adrift>>

\* worker.onmessage: the worker reports that it has ended ...
WorkerException(p) ==
  /\ WorkerFails /\ page[p].open /\ page[p].worker
  /\ page' = [page EXCEPT ![p].worker = FALSE]
  /\ UNCHANGED <<queue, requests, last, opens, stored, cached, acked, handed,
                 cut, unsaved, gone, adrift>>

\* ... or that its own retries are exhausted.
WorkerExhausted(p) ==
  /\ page[p].open /\ page[p].worker
  /\ page[p].mine \cap handed # {}
  /\ Leave(Abort(Enter(p)))
  /\ UNCHANGED <<last, opens, stored, cached, acked, gone, adrift>>

-----------------------------------------------------------------------------
Complete(p) == \E q \in {x \in requests : x.page = p} :
                 CompleteNormal(q) \/ CompleteKeepalive(q)

Next ==
  \/ \E p \in Page :
       \/ Open(p) \/ Close(p)
       \/ Report(p) \/ SendTimer(p) \/ FlushTimer(p)
       \/ Hide(p) \/ PageHide(p) \/ Show(p)
       \/ WorkerException(p) \/ WorkerExhausted(p)
  \/ Arrive
  \/ \E q \in requests : CompleteNormal(q) \/ CompleteKeepalive(q)

Spec == Init /\ [][Next]_vars

(***************************************************************************)
(* Fairness: a timer of an open page fires, and a fetch settles one way or *)
(* the other.  Nothing makes a fetch succeed.                              *)
(***************************************************************************)
Fairness == \A p \in Page : WF_vars(SendTimer(p)) /\ WF_vars(FlushTimer(p))
                            /\ WF_vars(Complete(p))

FairSpec == Spec /\ Fairness

-----------------------------------------------------------------------------
(***************************************************************************)
(* Properties.                                                             *)
(***************************************************************************)
PageState ==
  [open : BOOLEAN, memory : SUBSET Record, cache : SUBSET Record,
   flushSet : BOOLEAN, flushDue : BOOLEAN, sendTimer : BOOLEAN,
   sending : BOOLEAN, pending : BOOLEAN, failStreak : Nat, stopped : BOOLEAN,
   worker : BOOLEAN, visible : BOOLEAN, hiddenReported : BOOLEAN,
   episode : Nat, mine : SUBSET Record]

Request ==
  [page : Page, keepalive : BOOLEAN, owner : BOOLEAN, list : SUBSET Record,
   body : SUBSET Record, alias : BOOLEAN, array : SUBSET Record,
   worker : BOOLEAN, by : Nat, episode : Nat]

\* The types of the variables.
TypeOK ==
  /\ page \in [Page -> PageState]
  /\ queue \in SUBSET Record
  /\ requests \in SUBSET Request
  /\ last \in 0 .. NumRecords
  /\ opens \in Nat
  /\ \A S \in {stored, cached, acked, handed, cut, unsaved, gone, late, outlived} : S \subseteq Record

InMemory == UNION {page[p].memory : p \in Page}
InCache  == UNION {page[p].cache : p \in Page}
Requests(p) == {q \in requests : q.page = p}
Owners(p) == {q \in Requests(p) : q.owner}

(***************************************************************************)
(* The records of the stored queue are delivered as Delivery promises, by  *)
(* all pages together and however sends, keepalive sends, failed writes    *)
(* and closing pages interleave: none is lost unless a limit drops it or   *)
(* its page dies with it, and none that has left the queue comes back to   *)
(* it from another page or an older reading of it.                         *)
(***************************************************************************)
D == INSTANCE Delivery WITH
       held <- InMemory \cup queue, delivered <- acked \cap stored,
       dropped <- (cut \cup gone) \cap stored

Delivers == D!Spec

(***************************************************************************)
(* The same for the store:false cache, which leaves for the worker or,     *)
(* without one, with the requests of the main thread.                      *)
(***************************************************************************)
NoCacheLoss == cached \subseteq InCache \cup acked \cup handed \cup cut \cup gone

(***************************************************************************)
(* The flag "sending" is a lock: it is set exactly while one request that  *)
(* took it is in flight, and every normal send takes it, so that no two    *)
(* normal sends of a page overlap and none leaves the lock behind.  And    *)
(* the keepalive sends, which overlap it, do not overlap each other for    *)
(* one departure: visibilitychange and pagehide start one between them.    *)
(***************************************************************************)
OneKeepalivePerHide ==
  \A q, r \in requests :
    q.keepalive /\ r.keepalive /\ q.page = r.page /\ q.episode = r.episode
      => q.by = r.by

SendsDoNotOverlap ==
  /\ TypeOK
  /\ \A p \in Page :
       /\ Cardinality(Owners(p)) = (IF page[p].sending THEN 1 ELSE 0)
       /\ \A q \in Requests(p) : q.keepalive \/ q.owner
  /\ OneKeepalivePerHide

(***************************************************************************)
(* A buffered record is written to the stored queue by a timer that runs,  *)
(* one second after it was buffered at the latest, unless a write of it    *)
(* has failed.  Meanwhile the limits on what the SDK keeps hold; only      *)
(* device information may exceed them.                                     *)
(***************************************************************************)
WithinLimit(S) == Cardinality(S) > MaxPersist => S \subseteq Info

LimitsHold ==
  /\ WithinLimit(queue)
  /\ Bytes(queue) > MaxQueueBytes => queue \subseteq Info
  /\ \A p \in Page : /\ WithinLimit(page[p].memory)
                      /\ Cardinality(page[p].cache) <= MaxCache

BuffersAreTimed ==
  /\ \A p \in Page : page[p].memory \subseteq unsaved \/ page[p].flushDue
  /\ LimitsHold

(***************************************************************************)
(* Once the retries are exhausted the page is silent for good: nothing is  *)
(* accepted, no timer is armed, no send is started or waits to be; and     *)
(* maxRetry failures in a row do exhaust them.                             *)
(***************************************************************************)
StoppedIsFinal ==
  [][\A p \in Page :
       /\ page[p].failStreak > MaxRetry => page[p].stopped
       /\ page[p].stopped /\ page'[p].open =>
            /\ page'[p].stopped /\ ~page'[p].sendTimer /\ ~page'[p].pending
            /\ page'[p].mine = page[p].mine
            /\ Cardinality(Requests(p)') <= Cardinality(Requests(p))]_vars

(***************************************************************************)
(* A send never starts with a record that a fulfilled request has already  *)
(* delivered, keepalive sends that overlap a normal one included, unless   *)
(* the queue without it could not be written, or the record arrived when   *)
(* its page was gone: then the next page sends it again.                   *)
(***************************************************************************)
Started(q) == ~\E o \in requests : /\ o.page = q.page /\ o.by = q.by
                                   /\ o.list = q.list /\ o.body = q.body

AckedNotResent ==
  [][\A q \in requests' :
       Started(q) => (q.list \cup q.body) \cap acked' \subseteq unsaved' \cup outlived']_vars

(***************************************************************************)
(* Every record is delivered, handed to the worker or dropped by a limit,  *)
(* unless its page closes, the retries are exhausted or it could not be    *)
(* written.  Of the store:false cache that is so only with a worker: the   *)
(* main thread drops the array it holds, later records included.           *)
(***************************************************************************)
EventuallyDelivered ==
  \A p \in Page, r \in Record :
    r \in page[p].mine ~> \/ r \in acked \cup handed \cup cut \cup unsaved
                          \/ r \in cached /\ ~page[p].worker
                          \/ page[p].stopped \/ ~page[p].open
=============================================================================
