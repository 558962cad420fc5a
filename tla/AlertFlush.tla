---------------------------- MODULE AlertFlush ----------------------------
(***************************************************************************)
(* The alert aggregation of the log service (packages/logs/src/alert.rs,   *)
(* alert/notify.rs, alert/gc.rs): every error that is reported updates the *)
(* alert fact and the occurrence count of its fingerprint in memory, and a *)
(* loop writes both to MongoDB.                                            *)
(*                                                                         *)
(* Requests run on other threads than the flush and never wait for it: the *)
(* flush copies the maps, then awaits one write after the other, and goes  *)
(* back to the maps after each.  One application is modelled, the maps of  *)
(* different applications being independent.                               *)
(*                                                                         *)
(* A fact or a count of 0 is one that is not in its map: an entry of the   *)
(* fact map has been seen at least once, and an entry of the summary map   *)
(* whose count is 0 behaves as a missing one, since an occurrence makes a  *)
(* count of 1 of either.                                                   *)
(***************************************************************************)
EXTENDS Integers

CONSTANTS
  Fp,          \* the fingerprints
  Rules,       \* the rules (with a url) that the rule set may hold
  OnceTtl,     \* how long a fact of the strategy once is kept: 7 days
  MaxReports,  \* bound: occurrences of each fingerprint
  MaxClock,    \* bound: the clock
  MaxStops,    \* bound: ends of the process
  Shutdown     \* whether the process may be told to shut down

Never == -1  \* last_notify: None
NoTtl == -1  \* ttl: None

Strategy == {"once", "window", "limit"}
RuleType == [strategy : Strategy, window : Nat, limit : Nat]

ASSUME FlushAssumption ==
  /\ Fp # {}
  /\ Rules \subseteq RuleType
  /\ OnceTtl \in Nat
  /\ MaxReports \in Nat
  /\ MaxClock \in Nat
  /\ MaxStops \in Nat
  /\ Shutdown \in BOOLEAN

\* A fingerprint that hits no enabled rule, or one without a url.
NoRule == [strategy |-> "none", window |-> 0, limit |-> 0]

\* The loop of run_flush and the final flush of a shutdown.
Flusher == {"loop", "shutdown"}
Free == "free"

Absent ==
  [count |-> 0, seen |-> 0, notified |-> Never, ttl |-> NoTtl,
   strategy |-> "once", dirty |-> FALSE, hits |-> 0]

VARIABLES
  clock,
  rule,      \* RULE_MAP: the rule a fingerprint hits
  fact,      \* ALERT_MAP
  count,     \* SUMMARY_MAP: the counts
  factDb,    \* the collection alert_fact
  countDb,   \* the counts in the collection history_error
  lock,      \* the holder of FLUSH_LOCK
  pc,        \* where a flusher is
  started,   \* its "now"
  facts,     \* its copies of the facts it still has to write
  counts,    \* its copies of the counts it still has to write
  cur,       \* the fingerprint it is at
  ok,        \* whether its last write of a fact succeeded
  stops,
  \* What has happened so far: occurrences, counts given up by a failed
  \* write or lost with the process, and the latest alert.
  reported, givenUp, died,
  sentAt, seenAt, since, forgot, steady

memory == <<fact, count>>
database == <<factDb, countDb>>
flusher == <<lock, pc, started, facts, counts, cur, ok>>
ledger == <<reported, givenUp, died>>
alerts == <<sentAt, seenAt, since, forgot, steady>>
vars == <<clock, rule, memory, database, flusher, stops, ledger, alerts>>

NoFacts  == [w \in Flusher |-> [f \in Fp |-> Absent]]
NoCounts == [w \in Flusher |-> [f \in Fp |-> 0]]
Some     == CHOOSE f \in Fp : TRUE

Init ==
  /\ clock = 0
  /\ rule \in [Fp -> Rules \cup {NoRule}]
  /\ fact = [f \in Fp |-> Absent]
  /\ count = [f \in Fp |-> 0]
  /\ factDb = [f \in Fp |-> Absent]
  /\ countDb = [f \in Fp |-> 0]
  /\ lock = Free
  /\ pc = [w \in Flusher |-> "idle"]
  /\ started = [w \in Flusher |-> 0]
  /\ facts = NoFacts
  /\ counts = NoCounts
  /\ cur = [w \in Flusher |-> Some]
  /\ ok = [w \in Flusher |-> FALSE]
  /\ stops = 0
  /\ reported = [f \in Fp |-> 0]
  /\ givenUp = [f \in Fp |-> 0]
  /\ died = [f \in Fp |-> 0]
  /\ sentAt = [f \in Fp |-> Never]
  /\ seenAt = [f \in Fp |-> Never]
  /\ since = [f \in Fp |-> 0]
  /\ forgot = [f \in Fp |-> FALSE]
  /\ steady = [f \in Fp |-> TRUE]

-----------------------------------------------------------------------------
(***************************************************************************)
(* check_notify: the fact that an occurrence makes of the current one, and *)
(* whether it sends an alert.                                              *)
(***************************************************************************)
TtlOf(r) == IF r.strategy = "once" THEN NoTtl ELSE r.window

\* Mutant: a fact expires one moment early.
IsExpiredEarly(time, ttl, now) == now - time >= ttl

IsExpired(time, ttl, now) == now - time > ttl

Touched(x, r) ==
  IF x.count = 0
  THEN [count |-> 1, seen |-> clock, notified |-> Never, ttl |-> TtlOf(r),
        strategy |-> r.strategy, dirty |-> TRUE, hits |-> 1]
  ELSE [x EXCEPT !.count = @ + 1, !.hits = @ + 1, !.seen = clock,
                 !.dirty = TRUE, !.strategy = r.strategy,
                 !.ttl = IF TtlOf(r) = NoTtl THEN @ ELSE TtlOf(r)]

NeedNotify(x, r) ==
  \/ r.strategy = "once" /\ x.notified = Never
  \/ r.strategy = "window" /\ \/ x.notified = Never
                              \/ x.ttl = NoTtl
                              \/ IsExpired(x.seen, x.ttl, clock)
  \/ r.strategy = "limit" /\ x.hits = r.limit

Notified(x, r) ==
  [x EXCEPT !.notified = clock,
            !.ttl = IF r.strategy = "once" THEN OnceTtl ELSE @]

Hit(r) == r # NoRule

\* Whether an occurrence of f sends an alert now.
Alerting(f) ==
  Hit(rule[f]) /\ NeedNotify(Touched(fact[f], rule[f]), rule[f])

(***************************************************************************)
(* alert_error: check_rule, check_notify and the summary.  The facts and   *)
(* the counts are locked one after the other; nothing relates the two maps *)
(* and a flush reads them at different times, so one step stands for both. *)
(***************************************************************************)
AlertError(f) ==
  LET r == rule[f]
      x == Touched(fact[f], r)
  IN  /\ reported[f] < MaxReports
      /\ reported' = [reported EXCEPT ![f] = @ + 1]
      /\ count' = [count EXCEPT ![f] = @ + 1]
      /\ IF ~Hit(r)
         THEN UNCHANGED <<fact, alerts>>
         ELSE /\ fact' = [fact EXCEPT ![f] = IF Alerting(f)
                                             THEN Notified(x, r) ELSE x]
              /\ seenAt' = [seenAt EXCEPT ![f] = clock]
              /\ IF Alerting(f)
                 THEN /\ sentAt' = [sentAt EXCEPT ![f] = clock]
                      /\ since' = [since EXCEPT ![f] = 0]
                      /\ forgot' = [forgot EXCEPT ![f] = FALSE]
                      /\ steady' = [steady EXCEPT ![f] = TRUE]
                 ELSE /\ since' = [since EXCEPT ![f] = @ + 1]
                      /\ UNCHANGED <<sentAt, forgot, steady>>
      /\ UNCHANGED <<clock, rule, database, flusher, stops, givenUp, died>>

\* sync_alert_rule replaces the rules of the application.
SyncAlertRule ==
  /\ rule' \in [Fp -> Rules \cup {NoRule}]
  /\ steady' = [f \in Fp |-> steady[f] /\ rule'[f] = rule[f]]
  /\ UNCHANGED <<clock, memory, database, flusher, stops, ledger, sentAt,
                 seenAt, since, forgot>>

Tick ==
  /\ clock < MaxClock
  /\ clock' = clock + 1
  /\ UNCHANGED <<rule, memory, database, flusher, stops, ledger, alerts>>

-----------------------------------------------------------------------------
(***************************************************************************)
(* gc.rs: one flush.  The loop asks for the lock every ten seconds, the    *)
(* shutdown once.                                                          *)
(***************************************************************************)
AlertFlush(w) ==
  /\ pc[w] = "idle"
  /\ w = "shutdown" => Shutdown
  /\ pc' = [pc EXCEPT ![w] = "waiting"]
  /\ UNCHANGED <<clock, rule, memory, database, lock, started, facts, counts,
                 cur, ok, stops, ledger, alerts>>

\* Mutant: the flush does not wait for the lock.
FlushAtOnce(w) ==
  /\ pc[w] = "waiting"
  /\ lock' = w
  /\ pc' = [pc EXCEPT ![w] = "facts"]
  /\ started' = [started EXCEPT ![w] = clock]
  /\ facts' = [facts EXCEPT ![w] =
                 [f \in Fp |-> IF fact[f].dirty THEN fact[f] ELSE Absent]]
  /\ UNCHANGED <<clock, rule, memory, database, counts, cur, ok, stops,
                 ledger, alerts>>

\* FLUSH_LOCK is taken, and the facts to write are copied.
CollectFacts(w) ==
  /\ pc[w] = "waiting"
  /\ lock = Free
  /\ lock' = w
  /\ pc' = [pc EXCEPT ![w] = "facts"]
  /\ started' = [started EXCEPT ![w] = clock]
  /\ facts' = [facts EXCEPT ![w] =
                 [f \in Fp |-> IF fact[f].dirty THEN fact[f] ELSE Absent]]
  /\ UNCHANGED <<clock, rule, memory, database, counts, cur, ok, stops,
                 ledger, alerts>>

\* What the collection alert_fact keeps of a fact.
Stored(x) == [x EXCEPT !.dirty = FALSE, !.hits = 0]

\* An update that fails may have been applied all the same.
WriteFact(w, f, applied, success) ==
  /\ pc[w] = "facts"
  /\ facts[w][f].count > 0
  /\ success => applied
  /\ factDb' = IF applied THEN [factDb EXCEPT ![f] = Stored(facts[w][f])]
                          ELSE factDb
  /\ pc' = [pc EXCEPT ![w] = "fact_written"]
  /\ cur' = [cur EXCEPT ![w] = f]
  /\ ok' = [ok EXCEPT ![w] = success]
  /\ UNCHANGED <<clock, rule, memory, countDb, lock, started, facts, counts,
                 stops, ledger, alerts>>

\* Mutants: a fact is marked as written whatever happened to it meanwhile;
\* it is never marked as written.
AlwaysUnchanged(x, v) == TRUE
NeverUnchanged(x, v) == FALSE

Unchanged(x, v) ==
  x.count = v.count /\ x.seen = v.seen /\ x.notified = v.notified

FactWritten(w) ==
  LET f == cur[w]
  IN  /\ pc[w] = "fact_written"
      /\ pc' = [pc EXCEPT ![w] = "facts"]
      /\ fact' = IF ok[w] /\ fact[f].count > 0 /\ Unchanged(fact[f], facts[w][f])
                 THEN [fact EXCEPT ![f].dirty = FALSE]
                 ELSE fact
      /\ facts' = [facts EXCEPT ![w][f] = Absent]
      /\ ok' = [ok EXCEPT ![w] = FALSE]
      /\ UNCHANGED <<clock, rule, count, database, lock, started, counts, cur,
                     stops, ledger, alerts>>

(***************************************************************************)
(* All facts are written: the expired ones leave the map.                  *)
(***************************************************************************)
Expired(x, now) ==
  /\ x.ttl # NoTtl
  /\ IF x.strategy = "once"
     THEN x.notified # Never /\ IsExpired(x.notified, x.ttl, now)
     ELSE IsExpired(x.seen, x.ttl, now)

Retain(w) ==
  /\ pc[w] = "facts"
  /\ \A f \in Fp : facts[w][f].count = 0
  /\ pc' = [pc EXCEPT ![w] = "retained"]
  /\ fact' = [f \in Fp |-> IF Expired(fact[f], started[w]) THEN Absent
                                                           ELSE fact[f]]
  /\ started' = [started EXCEPT ![w] = 0]
  /\ UNCHANGED <<clock, rule, count, database, lock, facts, counts, cur, ok,
                 stops, ledger, alerts>>

CollectSummary(w) ==
  /\ pc[w] = "retained"
  /\ pc' = [pc EXCEPT ![w] = "counts"]
  /\ counts' = [counts EXCEPT ![w] = count]
  /\ UNCHANGED <<clock, rule, memory, database, lock, started, facts, cur, ok,
                 stops, ledger, alerts>>

\* $inc.  Whether it is applied and whether it fails is not known together.
WriteCount(w, f, applied) ==
  /\ pc[w] = "counts"
  /\ counts[w][f] > 0
  /\ countDb' = IF applied THEN [countDb EXCEPT ![f] = @ + counts[w][f]]
                           ELSE countDb
  /\ givenUp' = IF applied THEN givenUp
                           ELSE [givenUp EXCEPT ![f] = @ + counts[w][f]]
  /\ pc' = [pc EXCEPT ![w] = "subtract"]
  /\ cur' = [cur EXCEPT ![w] = f]
  /\ UNCHANGED <<clock, rule, memory, factDb, lock, started, facts, counts, ok,
                 stops, reported, died, alerts>>

(***************************************************************************)
(* The count that was written, or given up, is subtracted; an entry that   *)
(* is 0 is let go of, and then removed by its key, whatever it has become. *)
(***************************************************************************)
Subtract(w) ==
  LET f    == cur[w]
      left == IF count[f] > counts[w][f] THEN count[f] - counts[w][f] ELSE 0
  IN  /\ pc[w] = "subtract"
      /\ count' = [count EXCEPT ![f] = left]
      /\ pc' = [pc EXCEPT ![w] = IF left = 0 THEN "remove" ELSE "counts"]
      /\ counts' = [counts EXCEPT ![w][f] = 0]
      /\ UNCHANGED <<clock, rule, fact, database, lock, started, facts, cur,
                     ok, stops, ledger, alerts>>

Remove(w) ==
  /\ pc[w] = "remove"
  /\ count' = [count EXCEPT ![cur[w]] = 0]
  /\ pc' = [pc EXCEPT ![w] = "counts"]
  /\ UNCHANGED <<clock, rule, fact, database, lock, started, facts, counts,
                 cur, ok, stops, ledger, alerts>>

Finish(w) ==
  /\ pc[w] = "counts"
  /\ \A f \in Fp : counts[w][f] = 0
  /\ lock' = Free
  /\ pc' = [pc EXCEPT ![w] = IF w = "loop" THEN "idle" ELSE "ended"]
  /\ UNCHANGED <<clock, rule, memory, database, started, facts, counts, cur,
                 ok, stops, ledger, alerts>>

-----------------------------------------------------------------------------
(***************************************************************************)
(* The process ends, by a crash or after the shutdown, and starts again.   *)
(* init loads the facts and the rules, or neither when it fails.           *)
(***************************************************************************)
\* What flusher w has written, or given up, and not yet subtracted.
InFlight(w, f) == IF pc[w] = "subtract" /\ cur[w] = f THEN counts[w][f] ELSE 0

Unsaved(f) == count[f] - InFlight("loop", f) - InFlight("shutdown", f)

Restart(loaded) ==
  /\ stops < MaxStops
  /\ stops' = stops + 1
  /\ fact' = IF loaded THEN factDb ELSE [f \in Fp |-> Absent]
  /\ rule' \in [Fp -> IF loaded THEN Rules \cup {NoRule} ELSE {NoRule}]
  /\ count' = [f \in Fp |-> 0]
  /\ lock' = Free
  /\ pc' = [w \in Flusher |-> "idle"]
  /\ started' = [w \in Flusher |-> 0]
  /\ facts' = NoFacts
  /\ counts' = NoCounts
  /\ cur' = [w \in Flusher |-> Some]
  /\ ok' = [w \in Flusher |-> FALSE]
  /\ died' = [f \in Fp |-> died[f] + Unsaved(f)]
  /\ forgot' = [f \in Fp |-> \/ forgot[f]
                             \/ fact[f].count > 0 /\ (fact[f].dirty \/ ~loaded)]
  /\ steady' = [f \in Fp |-> steady[f] /\ rule'[f] = rule[f]]
  /\ UNCHANGED <<clock, database, reported, givenUp, sentAt, seenAt, since>>

Flush(w) ==
  \/ CollectFacts(w)
  \/ \E f \in Fp, applied, success \in BOOLEAN : WriteFact(w, f, applied, success)
  \/ FactWritten(w)
  \/ Retain(w)
  \/ CollectSummary(w)
  \/ \E f \in Fp, applied \in BOOLEAN : WriteCount(w, f, applied)
  \/ Subtract(w)
  \/ Remove(w)
  \/ Finish(w)

Next ==
  \/ \E f \in Fp : AlertError(f)
  \/ SyncAlertRule
  \/ Tick
  \/ \E w \in Flusher : AlertFlush(w) \/ Flush(w)
  \/ \E loaded \in BOOLEAN : Restart(loaded)

Spec == Init /\ [][Next]_vars

(***************************************************************************)
(* Fairness: the loop comes round again, a flush goes on, and a fact that  *)
(* is written again and again is written successfully some time.           *)
(***************************************************************************)
Fairness ==
  /\ WF_vars(AlertFlush("loop"))
  /\ \A w \in Flusher : WF_vars(Flush(w))
  /\ \A w \in Flusher, f \in Fp : SF_vars(WriteFact(w, f, TRUE, TRUE))

FairSpec == Spec /\ Fairness

-----------------------------------------------------------------------------
(***************************************************************************)
(* Properties.                                                             *)
(***************************************************************************)
Time == Nat \cup {Never}

Fact ==
  [count : Nat, seen : Nat, notified : Time, ttl : Nat \cup {NoTtl},
   strategy : Strategy, dirty : BOOLEAN, hits : Nat]

PC == {"idle", "waiting", "facts", "fact_written", "retained", "counts",
       "subtract", "remove", "ended"}

\* The types of the variables.
TypeOK ==
  /\ clock \in Nat
  /\ rule \in [Fp -> Rules \cup {NoRule}]
  /\ fact \in [Fp -> Fact]
  /\ count \in [Fp -> Nat]
  /\ factDb \in [Fp -> Fact]
  /\ countDb \in [Fp -> Nat]
  /\ lock \in Flusher \cup {Free}
  /\ pc \in [Flusher -> PC]
  /\ started \in [Flusher -> Nat]
  /\ facts \in [Flusher -> [Fp -> Fact]]
  /\ counts \in [Flusher -> [Fp -> Nat]]
  /\ cur \in [Flusher -> Fp]
  /\ ok \in [Flusher -> BOOLEAN]
  /\ stops \in Nat
  /\ reported \in [Fp -> Nat]
  /\ givenUp \in [Fp -> Nat]
  /\ died \in [Fp -> Int]
  /\ sentAt \in [Fp -> Time]
  /\ seenAt \in [Fp -> Time]
  /\ since \in [Fp -> Nat]
  /\ forgot \in [Fp -> BOOLEAN]
  /\ steady \in [Fp -> BOOLEAN]

(***************************************************************************)
(* At most once: what a fingerprint counts in the database has occurred.   *)
(* No failed write, no overlap of the loop with the final flush, no        *)
(* occurrence during a write and no crash makes an occurrence count twice. *)
(***************************************************************************)
NeverCountedTwice == \A f \in Fp : countDb[f] <= reported[f]

(***************************************************************************)
(* A fact that is not marked for writing is in the database as it is in    *)
(* memory, however requests and failed writes interleave with the flush:   *)
(* a restart finds every alert that was sent and marked as written.        *)
(***************************************************************************)
CleanIsStored ==
  \A f \in Fp : fact[f].count > 0 /\ ~fact[f].dirty
                   => factDb[f] = Stored(fact[f])

(***************************************************************************)
(* An alert is followed by another one of the same rule only once the      *)
(* seven days are over (once), after a silence of the whole window         *)
(* (window), or after as many occurrences as the limit says (limit),       *)
(* whatever the flush expires and a restart reloads; unless a restart      *)
(* forgot the alert, before it was written or because init failed.         *)
(***************************************************************************)
Quiet(f) ==
  LET r == rule[f]
  IN  /\ r.strategy = "once" /\ ~forgot[f] => clock - sentAt[f] > OnceTtl
      /\ r.strategy = "window" /\ ~forgot[f] => clock - seenAt[f] > r.window
      /\ r.strategy = "limit" => since[f] + 1 >= r.limit

AlertsAreSpaced ==
  \A f \in Fp : Alerting(f) /\ sentAt[f] # Never /\ steady[f] => Quiet(f)

(***************************************************************************)
(* A changed fact is written, or expires, and a count leaves the cache.    *)
(***************************************************************************)
ChangesAreFlushed ==
  \A f \in Fp : /\ fact[f].dirty ~> (~fact[f].dirty)
                /\ (count[f] > 0) ~> (count[f] = 0)
=============================================================================
