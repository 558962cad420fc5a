------------------------- MODULE AlertFlushProofs -------------------------
(***************************************************************************)
(* Theorems about AlertFlush.                                              *)
(***************************************************************************)
EXTENDS AlertFlush, TLAPS

LEMMA SomeIsFp == Some \in Fp
BY FlushAssumption DEF Some

(***************************************************************************)
(* Type correctness.                                                       *)
(***************************************************************************)
LEMMA AbsentType == Absent \in Fact
BY DEF Absent, Fact, Time, Never, NoTtl, Strategy

LEMMA TouchedType ==
  ASSUME NEW x \in Fact, NEW r \in Rules, clock \in Nat
  PROVE  /\ Touched(x, r) \in Fact
         /\ Notified(Touched(x, r), r) \in Fact
<1>1. /\ r.strategy \in Strategy /\ r.window \in Nat
      /\ TtlOf(r) \in Nat \cup {NoTtl}
  BY FlushAssumption DEF RuleType, TtlOf
<1> DEFINE t == Touched(x, r)
<1>2. t \in Fact
  <2>1. CASE x.count = 0
    BY <1>1, <2>1 DEF Touched, Fact, Time
  <2>2. CASE x.count # 0
    <3>1. t = [count |-> x.count + 1, seen |-> clock, notified |-> x.notified,
               ttl |-> IF TtlOf(r) = NoTtl THEN x.ttl ELSE TtlOf(r),
               strategy |-> r.strategy, dirty |-> TRUE, hits |-> x.hits + 1]
      BY <2>2 DEF Touched, Fact
    <3> HIDE DEF t
    <3>2. QED
      BY <1>1, <3>1 DEF Fact
  <2>3. QED
    BY <2>1, <2>2
<1>3. Notified(t, r) \in Fact
  <2>1. clock \in Time /\ OnceTtl \in Nat
    BY FlushAssumption DEF Time
  <2> HIDE DEF t
  <2>2. QED
    BY <1>2, <2>1 DEF Notified, Fact
<1>4. QED
  BY <1>2, <1>3

LEMMA StoredType == ASSUME NEW x \in Fact PROVE Stored(x) \in Fact
BY DEF Stored, Fact

LEMMA CleanType ==
  ASSUME NEW x \in Fact PROVE [x EXCEPT !.dirty = FALSE] \in Fact
BY DEF Fact

LEMMA TypeInit == Init => TypeOK
BY SomeIsFp, AbsentType
DEF Init, TypeOK, Time, Never, PC, Flusher, Free, NoFacts, NoCounts

LEMMA TypeStep == TypeOK /\ [Next]_vars => TypeOK'
<1> SUFFICES ASSUME TypeOK, [Next]_vars PROVE TypeOK'
  OBVIOUS
<1> USE DEF vars, memory, database, flusher, ledger, alerts
<1>1. ASSUME NEW f \in Fp, AlertError(f) PROVE TypeOK'
  <2>1. CASE ~Hit(rule[f])
    BY <1>1, <2>1 DEF TypeOK, AlertError
  <2>2. CASE Hit(rule[f])
    <3>1. rule[f] \in Rules /\ fact[f] \in Fact
      BY <2>2 DEF TypeOK, Hit
    <3> DEFINE x == Touched(fact[f], rule[f])
               v == IF Alerting(f) THEN Notified(x, rule[f]) ELSE x
    <3>2. v \in Fact
      BY <3>1, TouchedType DEF TypeOK
    <3>3. fact' = [fact EXCEPT ![f] = v]
      BY <1>1, <2>2 DEF AlertError
    <3>4. fact' \in [Fp -> Fact]
      <4> HIDE DEF v
      <4>1. QED
        BY <3>2, <3>3 DEF TypeOK
    <3>5. /\ seenAt' \in [Fp -> Time] /\ sentAt' \in [Fp -> Time]
          /\ since' \in [Fp -> Nat]
          /\ forgot' \in [Fp -> BOOLEAN] /\ steady' \in [Fp -> BOOLEAN]
      <4>1. clock \in Time
        BY DEF TypeOK, Time
      <4>2. CASE Alerting(f)
        <5>1. /\ seenAt' = [seenAt EXCEPT ![f] = clock]
              /\ sentAt' = [sentAt EXCEPT ![f] = clock]
              /\ since' = [since EXCEPT ![f] = 0]
              /\ forgot' = [forgot EXCEPT ![f] = FALSE]
              /\ steady' = [steady EXCEPT ![f] = TRUE]
          BY <1>1, <2>2, <4>2 DEF AlertError
        <5>2. QED
          BY <4>1, <5>1 DEF TypeOK
      <4>3. CASE ~Alerting(f)
        <5>1. /\ seenAt' = [seenAt EXCEPT ![f] = clock]
              /\ since' = [since EXCEPT ![f] = @ + 1]
              /\ UNCHANGED <<sentAt, forgot, steady>>
          BY <1>1, <2>2, <4>3 DEF AlertError
        <5>2. QED
          BY <4>1, <5>1 DEF TypeOK
      <4>4. QED
        BY <4>2, <4>3
    <3>6. /\ reported' = [reported EXCEPT ![f] = @ + 1]
          /\ count' = [count EXCEPT ![f] = @ + 1]
          /\ UNCHANGED <<clock, rule, database, flusher, stops, givenUp, died>>
      BY <1>1 DEF AlertError
    <3>7. QED
      BY <3>4, <3>5, <3>6 DEF TypeOK
  <2>3. QED
    BY <2>1, <2>2
<1>2. CASE SyncAlertRule
  BY <1>2 DEF TypeOK, SyncAlertRule
<1>3. CASE Tick
  BY <1>3 DEF TypeOK, Tick
<1>4. ASSUME NEW w \in Flusher, AlertFlush(w) PROVE TypeOK'
  BY <1>4 DEF TypeOK, AlertFlush, PC
<1>5. ASSUME NEW w \in Flusher, Flush(w) PROVE TypeOK'
  <2>1. CASE CollectFacts(w)
    BY <2>1, AbsentType DEF TypeOK, CollectFacts, PC
  <2>2. ASSUME NEW f \in Fp, NEW applied \in BOOLEAN, NEW success \in BOOLEAN,
               WriteFact(w, f, applied, success)
        PROVE  TypeOK'
    BY <2>2, StoredType DEF TypeOK, WriteFact, PC
  <2>3. CASE FactWritten(w)
    <3>1. fact' \in [Fp -> Fact]
      <4> DEFINE f == cur[w]
                 v == [fact[f] EXCEPT !.dirty = FALSE]
      <4>1. f \in Fp /\ fact[f] \in Fact
        BY DEF TypeOK
      <4>2. v \in Fact
        BY <4>1, CleanType
      <4>3. fact' = fact \/ fact' = [fact EXCEPT ![f] = v]
        BY <2>3 DEF FactWritten
      <4> HIDE DEF v
      <4>4. QED
        BY <4>1, <4>2, <4>3 DEF TypeOK
    <3>2. facts' \in [Flusher -> [Fp -> Fact]]
      BY <2>3, AbsentType DEF TypeOK, FactWritten
    <3>3. QED
      BY <2>3, <3>1, <3>2 DEF TypeOK, FactWritten, PC
  <2>4. CASE Retain(w)
    BY <2>4, AbsentType DEF TypeOK, Retain, PC
  <2>5. CASE CollectSummary(w)
    BY <2>5 DEF TypeOK, CollectSummary, PC
  <2>6. ASSUME NEW f \in Fp, NEW applied \in BOOLEAN, WriteCount(w, f, applied)
        PROVE  TypeOK'
    BY <2>6 DEF TypeOK, WriteCount, PC
  <2>7. CASE Subtract(w)
    BY <2>7 DEF TypeOK, Subtract, PC
  <2>8. CASE Remove(w)
    BY <2>8 DEF TypeOK, Remove, PC
  <2>9. CASE Finish(w)
    BY <2>9 DEF TypeOK, Finish, PC
  <2>10. QED
    BY <1>5, <2>1, <2>2, <2>3, <2>4, <2>5, <2>6, <2>7, <2>8, <2>9 DEF Flush
<1>6. ASSUME NEW loaded \in BOOLEAN, Restart(loaded) PROVE TypeOK'
  <2>1. fact' \in [Fp -> Fact] /\ rule' \in [Fp -> Rules \cup {NoRule}]
    BY <1>6, AbsentType DEF TypeOK, Restart
  <2>2. died' \in [Fp -> Int]
    BY <1>6 DEF TypeOK, Restart, Unsaved, InFlight, Flusher
  <2>3. facts' \in [Flusher -> [Fp -> Fact]] /\ cur' \in [Flusher -> Fp]
    BY <1>6, AbsentType, SomeIsFp DEF Restart, NoFacts
  <2>4. counts' \in [Flusher -> [Fp -> Nat]] /\ count' \in [Fp -> Nat]
    BY <1>6 DEF Restart, NoCounts
  <2>5. QED
    BY <1>6, <2>1, <2>2, <2>3, <2>4 DEF TypeOK, Restart, PC
<1>7. CASE UNCHANGED vars
  BY <1>7 DEF TypeOK
<1>8. QED
  BY <1>1, <1>2, <1>3, <1>4, <1>5, <1>6, <1>7 DEF Next

\* Every reachable state has the types that TypeOK gives the variables.
THEOREM TypeCorrect == Spec => []TypeOK
BY TypeInit, TypeStep, PTL DEF Spec

-----------------------------------------------------------------------------
(***************************************************************************)
(* The lock.  A flusher is in the middle of a flush exactly while it holds *)
(* FLUSH_LOCK, so there is never more than one.                            *)
(***************************************************************************)
Flushing == {"facts", "fact_written", "retained", "counts", "subtract", "remove"}

LockInv == \A w \in Flusher : pc[w] \in Flushing <=> lock = w

LEMMA LockInit == Init => LockInv
BY DEF Init, LockInv, Flushing, Flusher, Free

LEMMA LockStep == TypeOK /\ LockInv /\ [Next]_vars => LockInv'
<1> SUFFICES ASSUME TypeOK, LockInv, [Next]_vars PROVE LockInv'
  OBVIOUS
<1> USE DEF vars, memory, database, flusher, ledger, alerts, LockInv
<1>1. ASSUME NEW f \in Fp, AlertError(f) PROVE LockInv'
  BY <1>1 DEF AlertError
<1>2. CASE SyncAlertRule
  BY <1>2 DEF SyncAlertRule
<1>3. CASE Tick
  BY <1>3 DEF Tick
<1>4. ASSUME NEW w \in Flusher, AlertFlush(w) PROVE LockInv'
  BY <1>4 DEF TypeOK, AlertFlush, Flushing
<1>5. ASSUME NEW w \in Flusher, Flush(w) PROVE LockInv'
  <2> USE DEF TypeOK, Flushing, Flusher, Free
  <2>1. CASE CollectFacts(w)
    BY <2>1 DEF CollectFacts
  <2>2. ASSUME NEW f \in Fp, NEW applied \in BOOLEAN, NEW success \in BOOLEAN,
               WriteFact(w, f, applied, success)
        PROVE  LockInv'
    BY <2>2 DEF WriteFact
  <2>3. CASE FactWritten(w)
    BY <2>3 DEF FactWritten
  <2>4. CASE Retain(w)
    BY <2>4 DEF Retain
  <2>5. CASE CollectSummary(w)
    BY <2>5 DEF CollectSummary
  <2>6. ASSUME NEW f \in Fp, NEW applied \in BOOLEAN, WriteCount(w, f, applied)
        PROVE  LockInv'
    BY <2>6 DEF WriteCount
  <2>7. CASE Subtract(w)
    BY <2>7 DEF Subtract
  <2>8. CASE Remove(w)
    BY <2>8 DEF Remove
  <2>9. CASE Finish(w)
    BY <2>9 DEF Finish
  <2>10. QED
    BY <1>5, <2>1, <2>2, <2>3, <2>4, <2>5, <2>6, <2>7, <2>8, <2>9 DEF Flush
<1>6. ASSUME NEW loaded \in BOOLEAN, Restart(loaded) PROVE LockInv'
  BY <1>6 DEF Restart, Flushing, Flusher, Free
<1>7. CASE UNCHANGED vars
  BY <1>7
<1>8. QED
  BY <1>1, <1>2, <1>3, <1>4, <1>5, <1>6, <1>7 DEF Next

-----------------------------------------------------------------------------
(***************************************************************************)
(* The facts.  While a flusher still holds the copy of a fact, the fact in *)
(* memory is marked for writing and at least as recent as the copy, and    *)
(* the same if its count is: only an occurrence changes a fact, and every  *)
(* occurrence counts.  A write that succeeded has left the copy in the     *)
(* database.                                                               *)
(***************************************************************************)
CopyInv ==
  \A w \in Flusher, f \in Fp :
    facts[w][f].count > 0 =>
      /\ pc[w] \in {"facts", "fact_written"}
      /\ fact[f].dirty
      /\ fact[f].count >= facts[w][f].count
      /\ fact[f].count = facts[w][f].count
           => Stored(fact[f]) = Stored(facts[w][f])

WrittenInv ==
  \A w \in Flusher :
    pc[w] = "fact_written" =>
      /\ facts[w][cur[w]].count > 0
      /\ ok[w] => factDb[cur[w]] = Stored(facts[w][cur[w]])

DbInv == \A f \in Fp : factDb[f] = Stored(factDb[f])

FactInv == CopyInv /\ WrittenInv /\ DbInv /\ CleanIsStored

LEMMA StoredTwice ==
  ASSUME NEW x \in Fact
  PROVE  /\ Stored(Stored(x)) = Stored(x)
         /\ Stored([x EXCEPT !.dirty = FALSE]) = Stored(x)
BY DEF Stored, Fact

LEMMA AbsentFacts == Absent.count = 0 /\ Stored(Absent) = Absent
<1>1. /\ Absent.count = 0 /\ Absent.dirty = FALSE /\ Absent.hits = 0
  BY DEF Absent
<1>2. Absent \in Fact
  BY AbsentType
<1>3. \A x \in Fact : x.dirty = FALSE /\ x.hits = 0 => Stored(x) = x
  BY DEF Stored, Fact
<1>4. QED
  BY <1>1, <1>2, <1>3

LEMMA TouchedFacts ==
  ASSUME NEW x \in Fact, NEW r \in Rules, clock \in Nat
  PROVE  /\ Touched(x, r).count = x.count + 1
         /\ Touched(x, r).dirty
         /\ Notified(Touched(x, r), r).count = x.count + 1
         /\ Notified(Touched(x, r), r).dirty
<1> DEFINE t == Touched(x, r)
<1>1. t.count = x.count + 1 /\ t.dirty = TRUE
  BY DEF Touched, Fact
<1>2. t \in Fact
  BY TouchedType
<1> HIDE DEF t
<1>3. Notified(t, r).count = t.count /\ Notified(t, r).dirty = t.dirty
  BY <1>2 DEF Notified, Fact
<1>4. QED
  BY <1>1, <1>3 DEF t

\* What an occurrence does to the facts.
LEMMA AlertErrorFacts ==
  ASSUME TypeOK, NEW f \in Fp, AlertError(f)
  PROVE  /\ \A g \in Fp : g # f => fact'[g] = fact[g]
         /\ \/ fact'[f] = fact[f]
            \/ fact'[f].dirty /\ fact'[f].count = fact[f].count + 1
         /\ UNCHANGED <<factDb, facts, pc, cur, ok>>
<1>1. UNCHANGED <<factDb, facts, pc, cur, ok>>
  BY DEF AlertError, database, flusher
<1>2. CASE ~Hit(rule[f])
  BY <1>1, <1>2 DEF AlertError
<1>3. CASE Hit(rule[f])
  <2>1. rule[f] \in Rules /\ fact[f] \in Fact /\ clock \in Nat
    BY <1>3 DEF TypeOK, Hit
  <2> DEFINE x == Touched(fact[f], rule[f])
             v == IF Alerting(f) THEN Notified(x, rule[f]) ELSE x
  <2>2. v.dirty /\ v.count = fact[f].count + 1
    BY <2>1, TouchedFacts
  <2>3. fact' = [fact EXCEPT ![f] = v]
    BY <1>3 DEF AlertError
  <2> HIDE DEF v
  <2>4. QED
    BY <1>1, <2>2, <2>3 DEF TypeOK
<1>4. QED
  BY <1>2, <1>3

LEMMA FactInit == Init => FactInv
BY AbsentFacts
DEF Init, FactInv, CopyInv, WrittenInv, DbInv, CleanIsStored, NoFacts, Flusher

LEMMA FactStep ==
  TypeOK /\ TypeOK' /\ LockInv /\ FactInv /\ [Next]_vars => FactInv'
<1> SUFFICES ASSUME TypeOK, TypeOK', LockInv, FactInv, [Next]_vars PROVE FactInv'
  OBVIOUS
<1> USE DEF FactInv, CopyInv, WrittenInv, DbInv, CleanIsStored
<1>a. ASSUME UNCHANGED <<fact, factDb, facts, pc, cur, ok>> PROVE FactInv'
  BY <1>a
\* A flusher that does not hold the lock has no copies.
<1>b. ASSUME NEW w \in Flusher, NEW v \in Flusher, pc[w] \in Flushing, v # w
      PROVE  pc[v] \notin Flushing /\ \A f \in Fp : ~(facts[v][f].count > 0)
  BY <1>b DEF LockInv, Flushing
<1>1. ASSUME NEW f \in Fp, AlertError(f) PROVE FactInv'
  <2>1. fact[f] \in Fact /\ \A w \in Flusher : facts[w][f] \in Fact
    BY DEF TypeOK
  <2>2. QED
    BY <1>1, <2>1, AlertErrorFacts DEF Fact
<1>2. CASE SyncAlertRule
  BY <1>2, <1>a DEF SyncAlertRule, memory, database, flusher
<1>3. CASE Tick
  BY <1>3, <1>a DEF Tick, memory, database, flusher
<1>4. ASSUME NEW w \in Flusher, AlertFlush(w) PROVE FactInv'
  BY <1>4 DEF TypeOK, AlertFlush, memory, database
<1>5. ASSUME NEW w \in Flusher, Flush(w) PROVE FactInv'
  <2> USE DEF memory, database
  <2>1. CASE CollectFacts(w)
    BY <2>1, AbsentFacts DEF TypeOK, Fact, CollectFacts
  <2>2. ASSUME NEW f \in Fp, NEW applied \in BOOLEAN, NEW success \in BOOLEAN,
               WriteFact(w, f, applied, success)
        PROVE  FactInv'
    <3>1. facts[w][f] \in Fact
      BY DEF TypeOK
    <3>2. fact[f].dirty
      BY <2>2 DEF WriteFact
    <3>3. \A v \in Flusher : v # w => pc[v] # "fact_written"
      BY <2>2, <1>b DEF WriteFact, Flushing
    <3>4. /\ factDb' = factDb \/ factDb' = [factDb EXCEPT ![f] = Stored(facts[w][f])]
          /\ success => factDb' = [factDb EXCEPT ![f] = Stored(facts[w][f])]
          /\ UNCHANGED <<fact, facts>>
          /\ pc[w] = "facts" /\ facts[w][f].count > 0
          /\ pc' = [pc EXCEPT ![w] = "fact_written"]
          /\ cur' = [cur EXCEPT ![w] = f]
          /\ ok' = [ok EXCEPT ![w] = success]
      BY <2>2 DEF WriteFact
    <3>5. DbInv' /\ CleanIsStored'
      <4> DEFINE v == Stored(facts[w][f])
      <4>1. Stored(v) = v
        BY <3>1, StoredTwice
      <4>2. factDb' = factDb \/ factDb' = [factDb EXCEPT ![f] = v]
        BY <3>4
      <4> HIDE DEF v
      <4>3. \A g \in Fp : factDb'[g] = factDb[g] \/ (g = f /\ factDb'[g] = v)
        BY <4>2 DEF TypeOK
      <4>4. QED
        BY <3>2, <3>4, <4>1, <4>3
    <3>6. CopyInv'
      BY <3>4 DEF TypeOK
    <3>7. WrittenInv'
      BY <3>3, <3>4 DEF TypeOK
    <3>8. QED
      BY <3>5, <3>6, <3>7
  <2>3. CASE FactWritten(w)
    <3> DEFINE f == cur[w]
    <3>1. /\ f \in Fp /\ fact[f] \in Fact /\ facts[w][f] \in Fact
          /\ pc[w] = "fact_written"
      BY <2>3 DEF TypeOK, FactWritten
    <3>2. fact' = fact \/ /\ fact' = [fact EXCEPT ![f] = [@ EXCEPT !.dirty = FALSE]]
                          /\ factDb[f] = Stored(fact[f])
      BY <2>3, <3>1 DEF FactWritten, Unchanged
    <3>3. CleanIsStored'
      BY <2>3, <3>1, <3>2, StoredTwice DEF FactWritten, TypeOK
    <3>4. CopyInv'
      BY <2>3, <3>1, <3>2, <1>b, AbsentFacts DEF FactWritten, TypeOK, Flushing
    <3>5. WrittenInv' /\ DbInv'
      BY <2>3, <3>1, <1>b DEF FactWritten, TypeOK, Flushing
    <3>6. QED
      BY <3>3, <3>4, <3>5
  <2>4. CASE Retain(w)
    <3>1. \A v \in Flusher, f \in Fp : ~(facts[v][f].count > 0)
      BY <2>4, <1>b DEF Retain, Flushing
    <3>2. QED
      BY <2>4, <3>1, AbsentFacts DEF Retain, TypeOK
  <2>5. CASE CollectSummary(w)
    BY <2>5, <1>b DEF CollectSummary, TypeOK
  <2>6. ASSUME NEW f \in Fp, NEW applied \in BOOLEAN, WriteCount(w, f, applied)
        PROVE  FactInv'
    BY <2>6, <1>b DEF WriteCount, TypeOK, Flushing
  <2>7. CASE Subtract(w)
    BY <2>7 DEF Subtract, TypeOK
  <2>8. CASE Remove(w)
    BY <2>8 DEF Remove, TypeOK
  <2>9. CASE Finish(w)
    BY <2>9 DEF Finish, TypeOK
  <2>10. QED
    BY <1>5, <2>1, <2>2, <2>3, <2>4, <2>5, <2>6, <2>7, <2>8, <2>9 DEF Flush
<1>6. ASSUME NEW loaded \in BOOLEAN, Restart(loaded) PROVE FactInv'
  BY <1>6, AbsentFacts DEF Restart, database, NoFacts, TypeOK, Flusher
<1>7. CASE UNCHANGED vars
  BY <1>7, <1>a DEF vars, memory, database, flusher
<1>8. QED
  BY <1>1, <1>2, <1>3, <1>4, <1>5, <1>6, <1>7 DEF Next

-----------------------------------------------------------------------------
(***************************************************************************)
(* The counts.  A flusher has copied no more than the cache still holds,   *)
(* so the subtraction never saturates; and what is in the database, given  *)
(* up, lost with the process or unsaved does not exceed what has occurred. *)
(* It can fall short of it: Remove throws away what was counted since the  *)
(* subtraction.                                                            *)
(***************************************************************************)
CountInv ==
  \A w \in Flusher, f \in Fp :
    counts[w][f] > 0 => /\ pc[w] \in {"counts", "subtract", "remove"}
                        /\ pc[w] = "remove" => f # cur[w]
                        /\ counts[w][f] <= count[f]

LedgerInv ==
  \A f \in Fp :
    /\ died[f] >= 0
    /\ countDb[f] + givenUp[f] + died[f] + Unsaved(f) <= reported[f]

LEMMA InFlightType ==
  ASSUME TypeOK, NEW w \in Flusher, NEW f \in Fp
  PROVE  InFlight(w, f) \in Nat
BY DEF TypeOK, InFlight

\* Only the flusher that holds the lock has something in flight.
LEMMA UnsavedAlone ==
  ASSUME TypeOK, LockInv, NEW w \in Flusher, NEW f \in Fp,
         \A v \in Flusher : v # w => pc[v] \notin Flushing
  PROVE  Unsaved(f) = count[f] - InFlight(w, f)
<1>1. \A v \in Flusher : v # w => InFlight(v, f) = 0
  BY DEF InFlight, Flushing
<1>2. InFlight("loop", f) \in Nat /\ InFlight("shutdown", f) \in Nat /\ count[f] \in Nat
  BY InFlightType DEF Flusher, TypeOK
<1>3. CASE w = "loop"
  BY <1>1, <1>2, <1>3 DEF Unsaved, Flusher
<1>4. CASE w = "shutdown"
  BY <1>1, <1>2, <1>4 DEF Unsaved, Flusher
<1>5. QED
  BY <1>3, <1>4 DEF Flusher

LEMMA UnsavedIsNat ==
  ASSUME TypeOK, LockInv, CountInv, NEW f \in Fp
  PROVE  Unsaved(f) \in Nat
<1>1. PICK w \in Flusher : \A v \in Flusher : v # w => pc[v] \notin Flushing
  BY DEF LockInv, Flusher
<1>2. Unsaved(f) = count[f] - InFlight(w, f)
  BY <1>1, UnsavedAlone
<1>3. InFlight(w, f) \in Nat /\ InFlight(w, f) <= count[f]
  BY InFlightType DEF InFlight, CountInv, TypeOK
<1>4. QED
  BY <1>2, <1>3 DEF TypeOK

LEMMA CountInit == Init => CountInv /\ LedgerInv
BY DEF Init, CountInv, LedgerInv, NoCounts, Flusher, Unsaved, InFlight

LEMMA CountStep ==
  TypeOK /\ LockInv /\ CountInv /\ [Next]_vars => CountInv'
<1> SUFFICES ASSUME TypeOK, LockInv, CountInv, [Next]_vars PROVE CountInv'
  OBVIOUS
<1> USE DEF CountInv, memory, flusher
<1>a. ASSUME UNCHANGED <<count, counts, pc, cur>> PROVE CountInv'
  BY <1>a
<1>b. ASSUME NEW w \in Flusher, NEW v \in Flusher, pc[w] \in Flushing, v # w
      PROVE  \A f \in Fp : ~(counts[v][f] > 0)
  BY <1>b DEF LockInv, Flushing
<1>1. ASSUME NEW f \in Fp, AlertError(f) PROVE CountInv'
  BY <1>1 DEF AlertError, TypeOK
<1>2. CASE SyncAlertRule
  BY <1>2, <1>a DEF SyncAlertRule
<1>3. CASE Tick
  BY <1>3, <1>a DEF Tick
<1>4. ASSUME NEW w \in Flusher, AlertFlush(w) PROVE CountInv'
  BY <1>4 DEF AlertFlush, TypeOK
<1>5. ASSUME NEW w \in Flusher, Flush(w) PROVE CountInv'
  <2>1. CASE CollectFacts(w)
    BY <2>1 DEF CollectFacts, TypeOK
  <2>2. ASSUME NEW f \in Fp, NEW applied \in BOOLEAN, NEW success \in BOOLEAN,
               WriteFact(w, f, applied, success)
        PROVE  CountInv'
    BY <2>2 DEF WriteFact, TypeOK
  <2>3. CASE FactWritten(w)
    BY <2>3 DEF FactWritten, TypeOK
  <2>4. CASE Retain(w)
    BY <2>4 DEF Retain, TypeOK
  <2>5. CASE CollectSummary(w)
    BY <2>5 DEF CollectSummary, TypeOK
  <2>6. ASSUME NEW f \in Fp, NEW applied \in BOOLEAN, WriteCount(w, f, applied)
        PROVE  CountInv'
    BY <2>6 DEF WriteCount, TypeOK
  <2>7. CASE Subtract(w)
    <3>1. \A v \in Flusher, f \in Fp : v # w => ~(counts[v][f] > 0)
      BY <2>7, <1>b DEF Subtract, Flushing
    <3>2. counts' = [counts EXCEPT ![w] = [@ EXCEPT ![cur[w]] = 0]]
      BY <2>7 DEF Subtract
    <3>3. \A f \in Fp : f # cur[w] => count'[f] = count[f]
      BY <2>7 DEF Subtract, TypeOK
    <3>4. /\ pc[w] = "subtract" /\ UNCHANGED cur
          /\ \E p \in {"remove", "counts"} : pc' = [pc EXCEPT ![w] = p]
      BY <2>7 DEF Subtract
    <3>5. QED
      BY <3>1, <3>2, <3>3, <3>4 DEF TypeOK
  <2>8. CASE Remove(w)
    BY <2>8, <1>b DEF Remove, TypeOK, Flushing
  <2>9. CASE Finish(w)
    BY <2>9 DEF Finish, TypeOK
  <2>10. QED
    BY <1>5, <2>1, <2>2, <2>3, <2>4, <2>5, <2>6, <2>7, <2>8, <2>9 DEF Flush
<1>6. ASSUME NEW loaded \in BOOLEAN, Restart(loaded) PROVE CountInv'
  BY <1>6 DEF Restart, NoCounts, Flusher
<1>7. CASE UNCHANGED vars
  BY <1>7, <1>a DEF vars
<1>8. QED
  BY <1>1, <1>2, <1>3, <1>4, <1>5, <1>6, <1>7 DEF Next

LEMMA LedgerStep ==
  TypeOK /\ TypeOK' /\ LockInv /\ LockInv' /\ CountInv /\ LedgerInv /\ [Next]_vars
    => LedgerInv'
<1> SUFFICES ASSUME TypeOK, TypeOK', LockInv, LockInv', CountInv, LedgerInv,
                    [Next]_vars, NEW f \in Fp
             PROVE  /\ died'[f] >= 0
                    /\ countDb'[f] + givenUp'[f] + died'[f] + Unsaved(f)'
                         <= reported'[f]
  BY DEF LedgerInv
<1> DEFINE Goal == /\ died'[f] >= 0
                   /\ countDb'[f] + givenUp'[f] + died'[f] + Unsaved(f)'
                        <= reported'[f]
<1>t. /\ count[f] \in Nat /\ countDb[f] \in Nat /\ givenUp[f] \in Nat
      /\ died[f] \in Int /\ reported[f] \in Nat
      /\ \A w \in Flusher : InFlight(w, f) \in Nat
      /\ died[f] >= 0
      /\ countDb[f] + givenUp[f] + died[f] + Unsaved(f) <= reported[f]
      /\ Unsaved(f) \in Int
  BY InFlightType, UnsavedIsNat DEF TypeOK, LedgerInv
<1>a. ASSUME UNCHANGED <<count, counts, countDb, ledger>>,
             \A w \in Flusher : UNCHANGED InFlight(w, f)
      PROVE  Goal
  BY <1>a, <1>t DEF ledger, Unsaved, Flusher
<1>1. ASSUME NEW g \in Fp, AlertError(g) PROVE Goal
  <2>1. /\ UNCHANGED <<countDb, givenUp, died, counts, pc, cur>>
        /\ reported' = [reported EXCEPT ![g] = @ + 1]
        /\ count' = [count EXCEPT ![g] = @ + 1]
    BY <1>1 DEF AlertError, database, flusher
  <2>2. \A w \in Flusher : UNCHANGED InFlight(w, f)
    BY <2>1 DEF InFlight
  <2>3. count'[f] - count[f] = reported'[f] - reported[f]
    BY <2>1 DEF TypeOK
  <2>4. Unsaved(f)' - Unsaved(f) = count'[f] - count[f]
    BY <2>2, <1>t DEF Unsaved, Flusher, TypeOK
  <2>5. count'[f] \in Nat /\ reported'[f] \in Nat /\ Unsaved(f)' \in Int
    BY <2>2, <1>t DEF TypeOK, Unsaved, Flusher
  <2>6. QED
    BY <1>t, <2>1, <2>3, <2>4, <2>5
<1>2. CASE SyncAlertRule
  BY <1>2, <1>a DEF SyncAlertRule, memory, database, flusher, InFlight
<1>3. CASE Tick
  BY <1>3, <1>a DEF Tick, memory, database, flusher, InFlight
<1>4. ASSUME NEW w \in Flusher, AlertFlush(w) PROVE Goal
  BY <1>4, <1>a DEF AlertFlush, memory, database, TypeOK, InFlight
<1>5. ASSUME NEW w \in Flusher, Flush(w) PROVE Goal
  <2> USE DEF memory, database
  <2>1. CASE CollectFacts(w)
    BY <2>1, <1>a DEF CollectFacts, TypeOK, InFlight
  <2>2. ASSUME NEW g \in Fp, NEW applied \in BOOLEAN, NEW success \in BOOLEAN,
               WriteFact(w, g, applied, success)
        PROVE  Goal
    BY <2>2, <1>a DEF WriteFact, TypeOK, InFlight
  <2>3. CASE FactWritten(w)
    BY <2>3, <1>a DEF FactWritten, TypeOK, InFlight
  <2>4. CASE Retain(w)
    BY <2>4, <1>a DEF Retain, TypeOK, InFlight
  <2>5. CASE CollectSummary(w)
    <3>1. \A v \in Flusher : UNCHANGED InFlight(v, f)
      BY <2>5 DEF CollectSummary, TypeOK, InFlight
    <3>2. UNCHANGED Unsaved(f)
      BY <2>5, <3>1 DEF CollectSummary, Unsaved, Flusher
    <3>3. QED
      BY <2>5, <1>t, <3>2 DEF CollectSummary, ledger
  <2>a. ASSUME pc[w] \in Flushing
        PROVE  /\ \A v \in Flusher : v # w => pc[v] \notin Flushing
               /\ Unsaved(f) = count[f] - InFlight(w, f)
    BY <2>a, UnsavedAlone DEF LockInv
  <2>b. ASSUME pc[w] \in Flushing, \A v \in Flusher : v # w => pc'[v] = pc[v]
        PROVE  Unsaved(f)' = count'[f] - InFlight(w, f)'
    <3>1. \A v \in Flusher : v # w => pc'[v] \notin Flushing
      BY <2>b, <2>a
    <3>2. \A v \in Flusher : v # w => InFlight(v, f)' = 0
      BY <3>1 DEF InFlight, Flushing
    <3>3. InFlight(w, f)' \in Nat /\ count'[f] \in Nat
      BY DEF TypeOK, InFlight
    <3>4. QED
      BY <3>2, <3>3 DEF Unsaved, Flusher
  <2>6. ASSUME NEW g \in Fp, NEW applied \in BOOLEAN, WriteCount(w, g, applied)
        PROVE  Goal
    <3>1. /\ pc[w] = "counts" /\ pc' = [pc EXCEPT ![w] = "subtract"]
          /\ cur' = [cur EXCEPT ![w] = g]
          /\ UNCHANGED <<count, counts, died, reported>>
      BY <2>6 DEF WriteCount
    <3>2. /\ Unsaved(f) = count[f] - InFlight(w, f)
          /\ Unsaved(f)' = count'[f] - InFlight(w, f)'
      BY <3>1, <2>a, <2>b DEF Flushing, TypeOK
    <3>3. InFlight(w, f) = 0 /\ InFlight(w, f)' = IF f = g THEN counts[w][f] ELSE 0
      BY <3>1 DEF InFlight, TypeOK
    <3>4. countDb'[f] + givenUp'[f] =
            countDb[f] + givenUp[f] + (IF f = g THEN counts[w][f] ELSE 0)
      BY <2>6 DEF WriteCount, TypeOK
    <3>5. counts[w][f] \in Nat /\ countDb'[f] \in Nat /\ givenUp'[f] \in Nat
      BY DEF TypeOK
    <3>6. QED
      BY <1>t, <3>1, <3>2, <3>3, <3>4, <3>5
  <2>7. CASE Subtract(w)
    <3>1. /\ pc[w] = "subtract" /\ \A v \in Flusher : v # w => pc'[v] = pc[v]
          /\ pc'[w] # "subtract"
          /\ UNCHANGED <<countDb, givenUp, died, reported>>
      BY <2>7 DEF Subtract, TypeOK, ledger
    <3>2. /\ Unsaved(f) = count[f] - InFlight(w, f)
          /\ Unsaved(f)' = count'[f] - InFlight(w, f)'
      BY <3>1, <2>a, <2>b DEF Flushing
    <3>3. InFlight(w, f)' = 0
      BY <3>1 DEF InFlight
    <3>4. counts[w][f] \in Nat /\ counts[w][f] <= count[f]
      BY <1>t DEF CountInv, TypeOK
    <3>5. count'[f] = count[f] - InFlight(w, f)
      <4>1. CASE cur[w] = f
        <5>1. InFlight(w, f) = counts[w][f]
          BY <3>1, <4>1 DEF InFlight
        <5>2. count'[f] = IF count[f] > counts[w][f]
                          THEN count[f] - counts[w][f] ELSE 0
          BY <2>7, <4>1 DEF Subtract, TypeOK
        <5>3. QED
          BY <5>1, <5>2, <3>4, <1>t
      <4>2. CASE cur[w] # f
        <5>1. InFlight(w, f) = 0
          BY <4>2 DEF InFlight
        <5>2. count'[f] = count[f]
          BY <2>7, <4>2 DEF Subtract, TypeOK
        <5>3. QED
          BY <5>1, <5>2, <1>t
      <4>3. QED
        BY <4>1, <4>2
    <3>6. QED
      BY <1>t, <3>1, <3>2, <3>3, <3>5
  <2>8. CASE Remove(w)
    <3>1. /\ pc[w] = "remove" /\ \A v \in Flusher : v # w => pc'[v] = pc[v]
          /\ pc'[w] # "subtract"
          /\ UNCHANGED <<countDb, givenUp, died, reported>>
      BY <2>8 DEF Remove, TypeOK, ledger
    <3>2. /\ Unsaved(f) = count[f] - InFlight(w, f)
          /\ Unsaved(f)' = count'[f] - InFlight(w, f)'
      BY <3>1, <2>a, <2>b DEF Flushing
    <3>3. InFlight(w, f) = 0 /\ InFlight(w, f)' = 0
      BY <3>1 DEF InFlight
    <3>4. count'[f] \in Nat /\ count'[f] <= count[f]
      BY <2>8, <1>t DEF Remove, TypeOK
    <3>5. QED
      BY <1>t, <3>1, <3>2, <3>3, <3>4
  <2>9. CASE Finish(w)
    BY <2>9, <1>a DEF Finish, TypeOK, InFlight
  <2>10. QED
    BY <1>5, <2>1, <2>2, <2>3, <2>4, <2>5, <2>6, <2>7, <2>8, <2>9 DEF Flush
<1>6. ASSUME NEW loaded \in BOOLEAN, Restart(loaded) PROVE Goal
  <2>1. died'[f] = died[f] + Unsaved(f) /\ UNCHANGED <<countDb, givenUp, reported>>
    BY <1>6 DEF Restart, database
  <2>2. Unsaved(f)' = 0
    BY <1>6 DEF Restart, Unsaved, InFlight, Flusher
  <2>3. Unsaved(f) \in Nat
    BY UnsavedIsNat
  <2>4. QED
    BY <1>t, <2>1, <2>2, <2>3
<1>7. CASE UNCHANGED vars
  BY <1>7, <1>a DEF vars, memory, database, flusher, InFlight
<1>8. QED
  BY <1>1, <1>2, <1>3, <1>4, <1>5, <1>6, <1>7 DEF Next

-----------------------------------------------------------------------------
(***************************************************************************)
(* The inductive invariant, and what follows from it.                      *)
(***************************************************************************)
IInv == TypeOK /\ LockInv /\ FactInv /\ CountInv /\ LedgerInv

THEOREM Invariant == Spec => []IInv
<1>1. Init => IInv
  BY TypeInit, LockInit, FactInit, CountInit DEF IInv
<1>2. IInv /\ [Next]_vars => IInv'
  BY TypeStep, LockStep, FactStep, CountStep, LedgerStep DEF IInv
<1>3. QED
  BY <1>1, <1>2, PTL DEF Spec

\* Two flushes never overlap: the loop of run_flush and the shutdown exclude
\* each other.
THEOREM FlushesExclude ==
  Spec => [](\A v, w \in Flusher :
               pc[v] \in Flushing /\ pc[w] \in Flushing => v = w)
<1>1. IInv => \A v, w \in Flusher :
                pc[v] \in Flushing /\ pc[w] \in Flushing => v = w
  BY DEF IInv, LockInv
<1>2. QED
  BY <1>1, Invariant, PTL

\* No occurrence counts twice in the database (gc.rs: at most once).
THEOREM AtMostOnce == Spec => []NeverCountedTwice
<1>1. IInv => NeverCountedTwice
  <2> SUFFICES ASSUME IInv, NEW f \in Fp PROVE countDb[f] <= reported[f]
    BY DEF NeverCountedTwice
  <2>1. Unsaved(f) \in Nat
    BY UnsavedIsNat DEF IInv
  <2>2. QED
    BY <2>1 DEF IInv, TypeOK, LedgerInv
<1>2. QED
  BY <1>1, Invariant, PTL

\* A fact that is not marked for writing is stored as it is.
THEOREM CleanFactsAreStored == Spec => []CleanIsStored
<1>1. IInv => CleanIsStored
  BY DEF IInv, FactInv
<1>2. QED
  BY <1>1, Invariant, PTL

-----------------------------------------------------------------------------
(***************************************************************************)
(* The alerts.  While the rule of an alert stays and nothing has forgotten *)
(* it, the fact remembers it (once) and the latest occurrence (window), or *)
(* it has expired; and the hits of a fact are no more than the occurrences *)
(* since the alert or are past the limit (limit).                          *)
(***************************************************************************)
OnceInv(f) ==
  \/ clock - sentAt[f] > OnceTtl
  \/ /\ fact[f].count > 0 /\ fact[f].notified = sentAt[f]
     /\ fact[f].ttl = OnceTtl /\ fact[f].strategy = "once"

WindowInv(f) ==
  \/ clock - seenAt[f] > rule[f].window
  \/ /\ fact[f].count > 0 /\ fact[f].notified # Never /\ fact[f].seen = seenAt[f]
     /\ fact[f].ttl = rule[f].window /\ fact[f].strategy = "window"

LimitInv(f) == fact[f].hits <= since[f] \/ fact[f].hits >= rule[f].limit

Spaced(f) ==
  /\ rule[f].strategy = "once" /\ ~forgot[f] => OnceInv(f)
  /\ rule[f].strategy = "window" /\ ~forgot[f] => WindowInv(f)
  /\ rule[f].strategy = "limit" => LimitInv(f)

StartedInv == \A w \in Flusher : started[w] <= clock

SpacedInv ==
  /\ StartedInv
  /\ \A f \in Fp : sentAt[f] # Never /\ steady[f] => Spaced(f)

SpacedFor(f) == sentAt[f] # Never /\ steady[f] => Spaced(f)

\* What the spacing of the alerts of f depends on stays, or time passes.
SameAlerts(f) ==
  /\ fact'[f].count = fact[f].count /\ fact'[f].seen = fact[f].seen
  /\ fact'[f].notified = fact[f].notified /\ fact'[f].ttl = fact[f].ttl
  /\ fact'[f].strategy = fact[f].strategy /\ fact'[f].hits = fact[f].hits
  /\ clock <= clock'
  /\ sentAt'[f] = sentAt[f] /\ seenAt'[f] = seenAt[f] /\ since'[f] = since[f]
  /\ forgot[f] => forgot'[f]
  /\ steady'[f] => steady[f] /\ rule'[f] = rule[f]

LEMMA TimeFacts ==
  ASSUME TypeOK, NEW f \in Fp
  PROVE  /\ clock \in Nat /\ sentAt[f] \in Int /\ seenAt[f] \in Int /\ since[f] \in Nat
         /\ OnceTtl \in Nat /\ fact[f] \in Fact
         /\ rule[f].strategy \in Strategy => rule[f] \in Rules /\ rule[f].window \in Nat
         /\ rule[f].window \in Nat /\ rule[f].limit \in Nat
<1>1. sentAt[f] \in Time /\ seenAt[f] \in Time
  BY DEF TypeOK
<1>2. rule[f] \in Rules \/ rule[f] = NoRule
  BY DEF TypeOK
<1>3. /\ NoRule.strategy = "none" /\ NoRule.window = 0 /\ NoRule.limit = 0
      /\ "none" \notin Strategy
  BY DEF NoRule, Strategy
<1>4. rule[f].window \in Nat /\ rule[f].limit \in Nat
  BY <1>2, <1>3, FlushAssumption DEF RuleType
<1> QED BY <1>1, <1>2, <1>3, <1>4, FlushAssumption DEF TypeOK, Time, Never

LEMMA SpacedStays ==
  ASSUME TypeOK, TypeOK', NEW f \in Fp, SameAlerts(f), SpacedFor(f)
  PROVE  SpacedFor(f)'
<1> SUFFICES ASSUME sentAt'[f] # Never, steady'[f] PROVE Spaced(f)'
  BY DEF SpacedFor
<1>1. Spaced(f) /\ rule'[f] = rule[f]
  BY DEF SpacedFor, SameAlerts
<1>2. /\ clock \in Nat /\ clock' \in Nat /\ sentAt[f] \in Int /\ seenAt[f] \in Int
      /\ OnceTtl \in Nat /\ rule[f].window \in Nat
  BY TimeFacts DEF TypeOK
<1>3. OnceInv(f) => OnceInv(f)'
  BY <1>2 DEF OnceInv, SameAlerts
<1>4. WindowInv(f) => WindowInv(f)'
  BY <1>1, <1>2 DEF WindowInv, SameAlerts
<1>5. LimitInv(f) => LimitInv(f)'
  BY <1>1 DEF LimitInv, SameAlerts
<1> QED BY <1>1, <1>3, <1>4, <1>5 DEF Spaced, SameAlerts

\* What an occurrence makes of a fact, whether or not it sends an alert.
LEMMA TouchedFields ==
  ASSUME NEW x \in Fact, NEW r \in Rules, clock \in Nat
  PROVE  LET t == Touched(x, r)
             n == Notified(t, r)
         IN  /\ t.count > 0 /\ t.seen = clock /\ t.strategy = r.strategy
             /\ t.notified = IF x.count = 0 THEN Never ELSE x.notified
             /\ t.hits = IF x.count = 0 THEN 1 ELSE x.hits + 1
             /\ r.strategy # "once" => t.ttl = r.window
             /\ r.strategy = "once" /\ x.count > 0 => t.ttl = x.ttl
             /\ n.count = t.count /\ n.seen = t.seen /\ n.strategy = t.strategy
             /\ n.hits = t.hits /\ n.notified = clock
             /\ n.ttl = IF r.strategy = "once" THEN OnceTtl ELSE t.ttl
<1> DEFINE t == Touched(x, r)
<1>1. /\ r.strategy \in Strategy /\ r.window \in Nat /\ r.window # NoTtl
  BY FlushAssumption DEF RuleType, NoTtl
<1>2. /\ t.count > 0 /\ t.seen = clock /\ t.strategy = r.strategy
      /\ t.notified = IF x.count = 0 THEN Never ELSE x.notified
      /\ t.hits = IF x.count = 0 THEN 1 ELSE x.hits + 1
      /\ r.strategy # "once" => t.ttl = r.window
      /\ r.strategy = "once" /\ x.count > 0 => t.ttl = x.ttl
  <2>1. CASE x.count = 0
    BY <1>1, <2>1 DEF Touched, TtlOf
  <2>2. CASE x.count # 0
    <3>1. t = [count |-> x.count + 1, seen |-> clock, notified |-> x.notified,
               ttl |-> IF TtlOf(r) = NoTtl THEN x.ttl ELSE TtlOf(r),
               strategy |-> r.strategy, dirty |-> TRUE, hits |-> x.hits + 1]
      BY <2>2 DEF Touched, Fact
    <3>2. x.count \in Nat
      BY DEF Fact
    <3> HIDE DEF t
    <3> QED BY <1>1, <2>2, <3>1, <3>2 DEF TtlOf
  <2> QED BY <2>1, <2>2
<1>3. t \in Fact
  BY TouchedType
<1> HIDE DEF t
<1>4. /\ Notified(t, r).count = t.count /\ Notified(t, r).seen = t.seen
      /\ Notified(t, r).strategy = t.strategy
      /\ Notified(t, r).hits = t.hits /\ Notified(t, r).notified = clock
      /\ Notified(t, r).ttl = IF r.strategy = "once" THEN OnceTtl ELSE t.ttl
  BY <1>3 DEF Notified, Fact
<1> QED BY <1>2, <1>4 DEF t

\* When an occurrence of f sends an alert.
LEMMA NotifyFacts ==
  ASSUME TypeOK, NEW f \in Fp, rule[f] \in Rules
  PROVE  LET x == fact[f]
             r == rule[f]
         IN  /\ r.strategy \in {"once", "window"} =>
                  (Alerting(f) <=> x.count = 0 \/ x.notified = Never)
             /\ r.strategy = "limit" =>
                  (Alerting(f) <=> (IF x.count = 0 THEN 1 ELSE x.hits + 1) = r.limit)
<1> DEFINE x == fact[f]
           r == rule[f]
           t == Touched(x, r)
<1>1. x \in Fact /\ clock \in Nat /\ r.window \in Nat /\ rule[f].strategy \in Strategy
  BY TimeFacts, FlushAssumption DEF RuleType
<1>2. /\ t.seen = clock
      /\ t.notified = IF x.count = 0 THEN Never ELSE x.notified
      /\ t.hits = IF x.count = 0 THEN 1 ELSE x.hits + 1
      /\ r.strategy # "once" => t.ttl = r.window
  BY <1>1, TouchedFields
<1>3. Hit(r) /\ (Alerting(f) <=> NeedNotify(t, r))
  <2>1. r # NoRule
    BY <1>1 DEF NoRule, Strategy
  <2> QED BY <2>1 DEF Hit, Alerting
<1> HIDE DEF t, r, x
<1>4. r.strategy = "window" => ~IsExpired(t.seen, t.ttl, clock) /\ t.ttl # NoTtl
  BY <1>1, <1>2 DEF IsExpired, NoTtl, r
<1> QED BY <1>2, <1>3, <1>4 DEF NeedNotify, r, x

LEMMA AlertErrorSpaced ==
  ASSUME TypeOK, TypeOK', NEW f \in Fp, AlertError(f), SpacedFor(f)
  PROVE  SpacedFor(f)'
<1> DEFINE x == fact[f]
           r == rule[f]
           t == Touched(x, r)
           n == Notified(t, r)
<1>0. /\ clock \in Nat /\ sentAt[f] \in Int /\ seenAt[f] \in Int /\ since[f] \in Nat
      /\ OnceTtl \in Nat /\ x \in Fact /\ r.window \in Nat /\ r.limit \in Nat
  BY TimeFacts
<1>1. UNCHANGED <<clock, rule>>
  BY DEF AlertError
<1>2. CASE ~Hit(r)
  <2>1. SameAlerts(f)
    BY <1>0, <1>1, <1>2 DEF AlertError, SameAlerts, alerts
  <2> QED BY <2>1, SpacedStays
<1>3. CASE Hit(r)
  <2>1. r \in Rules /\ r.strategy \in Strategy
    BY <1>3, FlushAssumption DEF Hit, TypeOK, RuleType
  <2>2. /\ t.count > 0 /\ t.seen = clock /\ t.strategy = r.strategy
        /\ t.notified = IF x.count = 0 THEN Never ELSE x.notified
        /\ t.hits = IF x.count = 0 THEN 1 ELSE x.hits + 1
        /\ r.strategy # "once" => t.ttl = r.window
        /\ r.strategy = "once" /\ x.count > 0 => t.ttl = x.ttl
        /\ n.count = t.count /\ n.seen = t.seen /\ n.strategy = t.strategy
        /\ n.hits = t.hits /\ n.notified = clock
        /\ n.ttl = IF r.strategy = "once" THEN OnceTtl ELSE t.ttl
    BY <1>0, <2>1, TouchedFields
  <2>3. /\ r.strategy \in {"once", "window"} =>
             (Alerting(f) <=> x.count = 0 \/ x.notified = Never)
        /\ r.strategy = "limit" =>
             (Alerting(f) <=> (IF x.count = 0 THEN 1 ELSE x.hits + 1) = r.limit)
    BY <2>1, NotifyFacts
  <2>4. x.count \in Nat /\ x.hits \in Nat
    BY <1>0 DEF Fact
  <2>5. CASE Alerting(f)
    <3>1. /\ fact' = [fact EXCEPT ![f] = n]
          /\ seenAt' = [seenAt EXCEPT ![f] = clock] /\ sentAt' = [sentAt EXCEPT ![f] = clock]
      BY <1>3, <2>5 DEF AlertError
    <3> HIDE DEF t, n
    <3>2. fact'[f] = n /\ seenAt'[f] = clock /\ sentAt'[f] = clock
      BY <3>1 DEF TypeOK
    <3>3. clock # Never
      BY <1>0 DEF Never
    <3> HIDE DEF x, r
    <3>4. r.strategy = "once" => OnceInv(f)'
      BY <1>1, <2>2, <3>2 DEF OnceInv
    <3>5. r.strategy = "window" => WindowInv(f)'
      BY <1>1, <2>2, <3>2, <3>3 DEF WindowInv, r
    <3>6. r.strategy = "limit" => LimitInv(f)'
      BY <1>0, <1>1, <2>2, <2>3, <2>5, <3>2 DEF LimitInv, r
    <3> QED BY <1>1, <3>4, <3>5, <3>6 DEF SpacedFor, Spaced, r
  <2>6. CASE ~Alerting(f)
    <3>1. /\ fact' = [fact EXCEPT ![f] = t]
          /\ seenAt' = [seenAt EXCEPT ![f] = clock]
          /\ since' = [since EXCEPT ![f] = @ + 1]
          /\ UNCHANGED <<sentAt, forgot, steady>>
      BY <1>3, <2>6 DEF AlertError
    <3> HIDE DEF t, n
    <3>2. fact'[f] = t /\ seenAt'[f] = clock /\ since'[f] = since[f] + 1
      BY <3>1 DEF TypeOK
    <3> SUFFICES ASSUME Spaced(f) PROVE Spaced(f)'
      BY <3>1 DEF SpacedFor
    <3> HIDE DEF x, r
    <3>3. r.strategy = "once" /\ OnceInv(f) => OnceInv(f)'
      BY <1>0, <1>1, <2>2, <2>3, <2>4, <2>6, <3>1, <3>2 DEF OnceInv, r, x
    <3>4. r.strategy = "window" => WindowInv(f)'
      BY <1>1, <2>2, <2>3, <2>6, <3>2 DEF WindowInv, r
    <3>5. r.strategy = "limit" /\ LimitInv(f) => LimitInv(f)'
      BY <1>0, <1>1, <2>2, <2>3, <2>4, <2>6, <3>2 DEF LimitInv, r, x
    <3> QED BY <1>1, <3>1, <3>3, <3>4, <3>5 DEF Spaced, r
  <2> QED BY <2>5, <2>6
<1> QED BY <1>2, <1>3

LEMMA RetainSpaced ==
  ASSUME TypeOK, TypeOK', StartedInv, NEW w \in Flusher, Retain(w), NEW f \in Fp,
         SpacedFor(f)
  PROVE  SpacedFor(f)'
<1>1. /\ UNCHANGED <<clock, rule, sentAt, seenAt, since, forgot, steady>>
      /\ fact' = [g \in Fp |-> IF Expired(fact[g], started[w]) THEN Absent ELSE fact[g]]
  BY DEF Retain, alerts
<1>2. /\ clock \in Nat /\ sentAt[f] \in Int /\ seenAt[f] \in Int /\ since[f] \in Nat
      /\ OnceTtl \in Nat /\ rule[f].window \in Nat
      /\ started[w] \in Nat /\ started[w] <= clock
  BY TimeFacts DEF TypeOK, StartedInv
<1>3. CASE ~Expired(fact[f], started[w])
  <2>1. fact'[f] = fact[f]
    BY <1>1, <1>3
  <2>2. SameAlerts(f)
    BY <1>1, <1>2, <2>1 DEF SameAlerts
  <2> QED BY <2>2, SpacedStays
<1>4. CASE Expired(fact[f], started[w])
  <2>1. fact'[f] = Absent /\ Absent.hits = 0
    BY <1>1, <1>4 DEF Absent
  <2> SUFFICES ASSUME Spaced(f) PROVE Spaced(f)'
    BY <1>1 DEF SpacedFor
  <2>2. OnceInv(f) => OnceInv(f)'
    BY <1>1, <1>2, <1>4 DEF OnceInv, Expired, IsExpired
  <2>3. WindowInv(f) => WindowInv(f)'
    BY <1>1, <1>2, <1>4 DEF WindowInv, Expired, IsExpired
  <2>4. LimitInv(f)'
    BY <1>1, <1>2, <2>1 DEF LimitInv
  <2> QED BY <1>1, <2>2, <2>3, <2>4 DEF Spaced
<1> QED BY <1>3, <1>4

LEMMA RestartSpaced ==
  ASSUME TypeOK, TypeOK', FactInv, NEW loaded \in BOOLEAN, Restart(loaded), NEW f \in Fp,
         SpacedFor(f)
  PROVE  SpacedFor(f)'
<1>1. /\ UNCHANGED <<clock, sentAt, seenAt, since>>
      /\ fact' = IF loaded THEN factDb ELSE [g \in Fp |-> Absent]
      /\ steady'[f] = (steady[f] /\ rule'[f] = rule[f])
      /\ forgot'[f] = (forgot[f] \/ (fact[f].count > 0 /\ (fact[f].dirty \/ ~loaded)))
  BY DEF Restart
<1> SUFFICES ASSUME Spaced(f), rule'[f] = rule[f] PROVE Spaced(f)'
  BY <1>1 DEF SpacedFor
<1>2. /\ since[f] \in Nat /\ fact[f] \in Fact /\ factDb[f] \in Fact
  BY TimeFacts DEF TypeOK
<1>3. fact'[f].hits = 0
  <2>1. factDb[f] = Stored(factDb[f])
    BY DEF FactInv, DbInv
  <2>2. Stored(factDb[f]).hits = 0
    BY <1>2 DEF Stored, Fact
  <2>3. Absent.hits = 0
    BY DEF Absent
  <2> QED BY <1>1, <2>1, <2>2, <2>3
<1>4. LimitInv(f)'
  BY <1>1, <1>2, <1>3 DEF LimitInv
<1>5. CASE fact[f].count > 0 /\ ~forgot'[f]
  <2>1. loaded /\ factDb[f] = Stored(fact[f])
    BY <1>1, <1>5 DEF FactInv, CleanIsStored
  <2>2. /\ fact'[f].count = fact[f].count /\ fact'[f].seen = fact[f].seen
        /\ fact'[f].notified = fact[f].notified /\ fact'[f].ttl = fact[f].ttl
        /\ fact'[f].strategy = fact[f].strategy
    BY <1>1, <1>2, <2>1 DEF Stored, Fact
  <2>3. (OnceInv(f) => OnceInv(f)') /\ (WindowInv(f) => WindowInv(f)')
    BY <1>1, <2>2 DEF OnceInv, WindowInv
  <2> QED BY <1>1, <1>4, <2>3 DEF Spaced
<1>6. CASE ~(fact[f].count > 0)
  <2>1. (OnceInv(f) => OnceInv(f)') /\ (WindowInv(f) => WindowInv(f)')
    BY <1>1, <1>6 DEF OnceInv, WindowInv
  <2> QED BY <1>1, <1>4, <2>1 DEF Spaced
<1>7. CASE forgot'[f]
  BY <1>4, <1>7 DEF Spaced
<1> QED BY <1>5, <1>6, <1>7

LEMMA StartedStep ==
  ASSUME TypeOK, TypeOK', StartedInv, [Next]_vars
  PROVE  StartedInv'
<1> USE DEF vars, memory, database, flusher, ledger, alerts
<1>a. ASSUME UNCHANGED <<clock, started>> PROVE StartedInv'
  BY <1>a DEF StartedInv
<1>1. ASSUME NEW f \in Fp, AlertError(f) PROVE StartedInv'
  BY <1>1, <1>a DEF AlertError
<1>2. CASE SyncAlertRule
  BY <1>2, <1>a DEF SyncAlertRule
<1>3. CASE Tick
  BY <1>3 DEF Tick, StartedInv, TypeOK
<1>4. ASSUME NEW w \in Flusher, AlertFlush(w) PROVE StartedInv'
  BY <1>4, <1>a DEF AlertFlush
<1>5. ASSUME NEW w \in Flusher, Flush(w) PROVE StartedInv'
  <2>1. \/ UNCHANGED <<clock, started>>
        \/ UNCHANGED clock /\ started' = [started EXCEPT ![w] = clock]
        \/ UNCHANGED clock /\ started' = [started EXCEPT ![w] = 0]
    BY <1>5 DEF Flush, CollectFacts, WriteFact, FactWritten, Retain, CollectSummary,
                WriteCount, Subtract, Remove, Finish
  <2>2. CASE \/ UNCHANGED clock /\ started' = [started EXCEPT ![w] = clock]
             \/ UNCHANGED clock /\ started' = [started EXCEPT ![w] = 0]
    <3> SUFFICES ASSUME NEW v \in Flusher PROVE started'[v] <= clock'
      BY DEF StartedInv
    <3>1. clock \in Nat /\ started[v] \in Nat /\ started[v] <= clock /\ started \in [Flusher -> Nat]
      BY DEF StartedInv, TypeOK
    <3>2. started'[v] \in {started[v], clock, 0}
      BY <2>2, <3>1
    <3> QED BY <2>2, <3>1, <3>2
  <2> QED BY <1>a, <2>1, <2>2
<1>6. ASSUME NEW loaded \in BOOLEAN, Restart(loaded) PROVE StartedInv'
  BY <1>6 DEF Restart, StartedInv, TypeOK
<1> QED BY <1>1, <1>2, <1>3, <1>4, <1>5, <1>6, <1>a DEF Next

LEMMA SpacedStep ==
  ASSUME IInv, IInv', SpacedInv, [Next]_vars
  PROVE  SpacedInv'
<1>0. TypeOK /\ TypeOK' /\ FactInv /\ StartedInv /\ StartedInv'
  BY StartedStep DEF IInv, SpacedInv
<1> SUFFICES ASSUME NEW f \in Fp PROVE SpacedFor(f)'
  BY <1>0 DEF SpacedInv, SpacedFor
<1>t. SpacedFor(f) /\ clock \in Nat
  BY <1>0 DEF SpacedInv, SpacedFor, TypeOK
<1>a. ASSUME fact'[f] = fact[f], clock <= clock', rule'[f] = rule[f] \/ ~steady'[f],
             UNCHANGED <<sentAt, seenAt, since, forgot>>, steady'[f] => steady[f]
      PROVE  SpacedFor(f)'
  <2>1. SameAlerts(f)
    BY <1>a DEF SameAlerts
  <2> QED BY <1>0, <1>t, <2>1, SpacedStays
<1>1. ASSUME NEW g \in Fp, AlertError(g) PROVE SpacedFor(f)'
  <2>1. CASE g = f
    BY <1>0, <1>1, <1>t, <2>1, AlertErrorSpaced
  <2>2. CASE g # f
    <3>1. /\ fact'[f] = fact[f] /\ UNCHANGED <<clock, rule>>
      BY <1>0, <1>1, <2>2, AlertErrorFacts DEF AlertError
    <3>2. /\ sentAt'[f] = sentAt[f] /\ seenAt'[f] = seenAt[f] /\ since'[f] = since[f]
          /\ forgot'[f] = forgot[f] /\ steady'[f] = steady[f]
      BY <1>0, <1>1, <2>2 DEF AlertError, alerts, TypeOK
    <3>3. SameAlerts(f)
      BY <1>t, <3>1, <3>2 DEF SameAlerts
    <3> QED BY <1>0, <1>t, <3>3, SpacedStays
  <2> QED BY <2>1, <2>2
<1>2. CASE SyncAlertRule
  <2>1. /\ UNCHANGED <<clock, fact, sentAt, seenAt, since, forgot>>
        /\ steady' = [g \in Fp |-> steady[g] /\ rule'[g] = rule[g]]
    BY <1>2 DEF SyncAlertRule, memory
  <2>2. steady'[f] = (steady[f] /\ rule'[f] = rule[f])
    BY <2>1
  <2>3. (rule'[f] = rule[f] \/ ~steady'[f]) /\ (steady'[f] => steady[f])
    BY <2>2
  <2>4. fact'[f] = fact[f] /\ clock <= clock'
    BY <1>t, <2>1
  <2> QED BY <1>a, <2>1, <2>3, <2>4
<1>3. CASE Tick
  BY <1>0, <1>3, <1>a, <1>t DEF Tick, memory, alerts
<1>4. ASSUME NEW w \in Flusher, AlertFlush(w) PROVE SpacedFor(f)'
  BY <1>0, <1>4, <1>a, <1>t DEF AlertFlush, memory, alerts
<1>5. ASSUME NEW w \in Flusher, Flush(w) PROVE SpacedFor(f)'
  <2>1. CASE Retain(w)
    BY <1>0, <1>t, <2>1, RetainSpaced
  <2>2. CASE FactWritten(w)
    <3> DEFINE y == [fact[cur[w]] EXCEPT !.dirty = FALSE]
    <3>1. fact' = fact \/ fact' = [fact EXCEPT ![cur[w]] = y]
      BY <2>2 DEF FactWritten
    <3>2. /\ cur[w] \in Fp /\ fact[cur[w]] \in Fact
      BY <1>0 DEF TypeOK
    <3>3. LET z == fact[cur[w]]
          IN  /\ y.count = z.count /\ y.seen = z.seen /\ y.notified = z.notified
              /\ y.ttl = z.ttl /\ y.strategy = z.strategy /\ y.hits = z.hits
      BY <3>2 DEF Fact
    <3> HIDE DEF y
    <3>4. fact'[f] = fact[f] \/ (f = cur[w] /\ fact'[f] = y)
      BY <1>0, <3>1 DEF TypeOK
    <3>5. UNCHANGED <<clock, rule, sentAt, seenAt, since, forgot, steady>>
      BY <2>2 DEF FactWritten, alerts
    <3>6. SameAlerts(f)
      BY <1>t, <3>3, <3>4, <3>5 DEF SameAlerts
    <3> QED BY <1>0, <1>t, <3>6, SpacedStays
  <2>3. CASE ~Retain(w) /\ ~FactWritten(w)
    <3>1. UNCHANGED <<fact, clock, rule, sentAt, seenAt, since, forgot, steady>>
      BY <1>5, <2>3 DEF Flush, CollectFacts, WriteFact, CollectSummary, WriteCount,
                        Subtract, Remove, Finish, memory, alerts
    <3> QED BY <1>a, <1>t, <3>1
  <2> QED BY <2>1, <2>2, <2>3
<1>6. ASSUME NEW loaded \in BOOLEAN, Restart(loaded) PROVE SpacedFor(f)'
  BY <1>0, <1>6, <1>t, RestartSpaced
<1>7. CASE UNCHANGED vars
  BY <1>7, <1>a, <1>t DEF vars, memory, alerts
<1> QED BY <1>1, <1>2, <1>3, <1>4, <1>5, <1>6, <1>7 DEF Next

(***************************************************************************)
(* Alerts are spaced as their rule says: once within the seven days        *)
(* (once), after a silence of the window (window) or every so many         *)
(* occurrences (limit), for any rules, clock and fingerprints, whatever    *)
(* flushes expire and restarts reload.                                     *)
(***************************************************************************)
THEOREM AlertsKeepTheirDistance == Spec => []AlertsAreSpaced
<1>1. Init => SpacedInv
  BY DEF Init, SpacedInv, StartedInv, Flusher
<1>2. IInv /\ IInv' /\ SpacedInv /\ [Next]_vars => SpacedInv'
  BY SpacedStep
<1>3. ASSUME IInv, SpacedInv PROVE AlertsAreSpaced
  <2> SUFFICES ASSUME NEW f \in Fp, Alerting(f), sentAt[f] # Never, steady[f]
               PROVE  Quiet(f)
    BY DEF AlertsAreSpaced
  <2>1. Spaced(f)
    BY <1>3 DEF SpacedInv
  <2>2. rule[f] \in Rules
    BY <1>3 DEF Alerting, Hit, IInv, TypeOK
  <2>3. /\ rule[f].strategy \in {"once", "window"} =>
             fact[f].count = 0 \/ fact[f].notified = Never
        /\ rule[f].strategy = "limit" =>
             (IF fact[f].count = 0 THEN 1 ELSE fact[f].hits + 1) = rule[f].limit
    BY <1>3, <2>2, NotifyFacts DEF IInv
  <2>4. /\ clock \in Nat /\ sentAt[f] \in Int /\ seenAt[f] \in Int /\ since[f] \in Nat
        /\ fact[f].hits \in Nat /\ fact[f].count \in Nat
    BY <1>3, TimeFacts DEF IInv, Fact
  <2>5. rule[f].strategy = "once" /\ ~forgot[f] => clock - sentAt[f] > OnceTtl
    BY <2>1, <2>3, <2>4 DEF Spaced, OnceInv
  <2>6. rule[f].strategy = "window" /\ ~forgot[f] => clock - seenAt[f] > rule[f].window
    BY <2>1, <2>3, <2>4 DEF Spaced, WindowInv
  <2>7. rule[f].strategy = "limit" => since[f] + 1 >= rule[f].limit
    BY <2>1, <2>3, <2>4 DEF Spaced, LimitInv
  <2> QED BY <2>5, <2>6, <2>7 DEF Quiet
<1> QED BY <1>1, <1>2, <1>3, Invariant, PTL DEF Spec
=============================================================================
