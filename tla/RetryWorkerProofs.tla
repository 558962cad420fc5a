------------------------- MODULE RetryWorkerProofs -------------------------
(***************************************************************************)
(* Theorems about RetryWorker.                                             *)
(***************************************************************************)
EXTENDS RetryWorker, FiniteSetTheorems, SequenceTheorems, WellFoundedInduction,
        TLAPS

BusyRuns == {r \in Runs : Busy(r)}

(***************************************************************************)
(* The inductive invariant.  Once the streak is above the limit no timer   *)
(* is set and no run begins, so that each further failure is that of a run *)
(* that was under way.                                                     *)
(***************************************************************************)
Shape ==
  /\ streak \in Nat
  /\ todo = [r \in Runs |-> todo[r]]

WornOut ==
  streak > MaxRetry => /\ exhausted
                       /\ ~timer
                       /\ streak + Cardinality(BusyRuns) <= MaxRetry + MaxRuns

IInv == Shape /\ WornOut

LEMMA BusyRunsFinite ==
  IsFiniteSet(BusyRuns) /\ Cardinality(BusyRuns) \in 0 .. MaxRuns
<1>1. IsFiniteSet(Runs) /\ Cardinality(Runs) = MaxRuns
  BY FS_Interval, WorkerAssumption DEF Runs
<1>2. BusyRuns \in SUBSET Runs
  BY DEF BusyRuns
<1>3. IsFiniteSet(BusyRuns) /\ Cardinality(BusyRuns) <= MaxRuns
  BY <1>1, <1>2, FS_Subset
<1>4. QED
  BY <1>3, FS_CardinalityType, WorkerAssumption

LEMMA InitInv == Init => IInv
BY WorkerAssumption DEF Init, IInv, Shape, WornOut

-----------------------------------------------------------------------------
\* A step that leaves the streak at most at the limit keeps the invariant.
LEMMA BelowTheLimit ==
  ASSUME Shape', streak' <= MaxRetry
  PROVE  IInv'
BY WorkerAssumption DEF IInv, Shape, WornOut

\* A run begins: the other runs stay as they are.
LEMMA SendShape ==
  ASSUME Shape, NEW data, SendWithRetry(data)
  PROVE  todo' = [r \in Runs |-> todo'[r]]
<1>1. PICK r \in FreeRuns : todo' = [todo EXCEPT ![r] = Requests(data)]
  BY DEF SendWithRetry
<1> HIDE DEF Requests
<1>2. QED
  BY <1>1 DEF Shape

LEMMA ReportStep ==
  ASSUME IInv, NEW store, NEW keepalive \in BOOLEAN, Report(store, keepalive)
  PROVE  IInv'
<1>1. streak' = streak /\ timer' = timer /\ exhausted' = exhausted
  BY DEF Report
<1>2. CASE exhausted
  <2>1. todo' = todo
    BY <1>2 DEF Report, runs
  <2>2. QED
    BY <1>1, <2>1 DEF IInv, Shape, WornOut, BusyRuns, Busy
<1>3. CASE ~exhausted
  <2>1. streak \in Nat /\ streak <= MaxRetry
    BY <1>3, WorkerAssumption DEF IInv, Shape, WornOut
  <2>2. todo' = todo \/ SendWithRetry(buffer \o Incoming(store))
    BY <1>3 DEF Report, runs
  <2>3. todo' = [r \in Runs |-> todo'[r]]
    BY <2>2, SendShape DEF IInv, Shape
  <2>4. QED
    BY <1>1, <2>1, <2>3, BelowTheLimit DEF Shape
<1>4. QED
  BY <1>2, <1>3

\* A timer that fires was set below the limit.
LEMMA RetryTimerStep ==
  ASSUME IInv, RetryTimer
  PROVE  IInv'
<1>1. streak' = streak /\ timer
  BY DEF RetryTimer
<1>2. streak \in Nat /\ streak <= MaxRetry
  BY <1>1, WorkerAssumption DEF IInv, Shape, WornOut
<1>3. todo' = todo \/ SendWithRetry(buffer)
  BY DEF RetryTimer, runs
<1>4. todo' = [r \in Runs |-> todo'[r]]
  BY <1>3, SendShape DEF IInv, Shape
<1>5. QED
  BY <1>1, <1>2, <1>4, BelowTheLimit DEF Shape

LEMMA RequestEndsStep ==
  ASSUME IInv, NEW r \in Runs, NEW success \in BOOLEAN, RequestEnds(r, success)
  PROVE  IInv'
<1> DEFINE rest == IF success THEN failed[r] ELSE failed[r] \o Head(todo[r])
<1>1. /\ r \in BusyRuns
      /\ todo' = [todo EXCEPT ![r] = Tail(@)]
  BY DEF RequestEnds, BusyRuns
<1>2. todo' = [q \in Runs |-> todo'[q]] /\ streak \in Nat
  BY <1>1 DEF IInv, Shape
<1>3. BusyRuns' \in SUBSET BusyRuns
  BY <1>1 DEF IInv, Shape, BusyRuns, Busy
<1>4. CASE Tail(todo[r]) # <<>>
  <2>1. UNCHANGED <<streak, timer, exhausted>>
    BY <1>4 DEF RequestEnds
  <2>2. /\ Cardinality(BusyRuns') <= Cardinality(BusyRuns)
        /\ Cardinality(BusyRuns) \in Nat /\ Cardinality(BusyRuns') \in Nat
    BY <1>3, BusyRunsFinite, FS_Subset, FS_CardinalityType
  <2>3. QED
    BY <1>2, <2>1, <2>2, WorkerAssumption DEF IInv, Shape, WornOut
<1>5. CASE Tail(todo[r]) = <<>>
  <2>1. r \notin BusyRuns'
    BY <1>1, <1>5 DEF IInv, Shape, BusyRuns, Busy
  <2>2. BusyRuns' \in SUBSET (BusyRuns \ {r})
    BY <1>3, <2>1
  <2>3. /\ Cardinality(BusyRuns') <= Cardinality(BusyRuns) - 1
        /\ Cardinality(BusyRuns) \in 0 .. MaxRuns
        /\ Cardinality(BusyRuns') \in Nat
    BY <1>1, <2>2, BusyRunsFinite, FS_Subset, FS_RemoveElement,
       FS_CardinalityType
  <2>4. HandleSendResult(rest)
    BY <1>5 DEF RequestEnds
  <2>5. CASE rest = <<>>
    <3>1. streak' = 0
      BY <2>4, <2>5 DEF HandleSendResult, Succeeded
    <3>2. QED
      BY <1>2, <3>1, WorkerAssumption, BelowTheLimit DEF Shape
  <2>6. CASE rest # <<>>
    <3>1. /\ streak' = streak + 1
          /\ streak' > MaxRetry => exhausted' /\ ~timer'
      BY <2>4, <2>6 DEF HandleSendResult, Failed
    <3>2. QED
      BY <1>2, <2>3, <3>1, WorkerAssumption DEF IInv, Shape, WornOut
  <2>7. QED
    BY <2>5, <2>6
<1>6. QED
  BY <1>4, <1>5

LEMMA NextStep == IInv /\ [Next]_vars => IInv'
<1> SUFFICES ASSUME IInv, [Next]_vars PROVE IInv'
  OBVIOUS
<1>1. ASSUME NEW store \in SUBSET fresh \ {{}}, NEW keepalive \in BOOLEAN,
             Report(store, keepalive)
      PROVE  IInv'
  BY <1>1, ReportStep
<1>2. ASSUME NEW r \in Runs, NEW success \in BOOLEAN, RequestEnds(r, success)
      PROVE  IInv'
  BY <1>2, RequestEndsStep
<1>3. CASE RetryTimer
  BY <1>3, RetryTimerStep
<1>4. CASE Terminate \/ UNCHANGED vars
  <2>1. UNCHANGED <<streak, timer, exhausted, todo>>
    BY <1>4 DEF Terminate, vars, runs
  <2>2. QED
    BY <2>1 DEF IInv, Shape, WornOut, BusyRuns, Busy
<1>5. QED
  BY <1>1, <1>2, <1>3, <1>4 DEF Next

\* However many runs there are and however they interleave with reports and
\* the timer, the worker leaves a server that does not answer alone.
THEOREM DeadServerIsLeftAlone == Spec => []RetriesAreBounded
<1>1. IInv => RetriesAreBounded
  <2> SUFFICES ASSUME IInv PROVE RetriesAreBounded
    OBVIOUS
  <2>1. Cardinality(BusyRuns) \in Nat
    BY BusyRunsFinite
  <2>2. QED
    BY <2>1, WorkerAssumption DEF IInv, Shape, WornOut, RetriesAreBounded
<1>2. QED
  BY <1>1, InitInv, NextStep, PTL DEF Spec

-----------------------------------------------------------------------------
(***************************************************************************)
(* Sequences without repetition, and how the code puts them together.      *)
(***************************************************************************)
Distinct(s) == \A i, j \in DOMAIN s : s[i] = s[j] => i = j

LEMMA LeastMember ==
  ASSUME NEW T \in SUBSET Nat, T # {}
  PROVE  \E x \in T : \A y \in T : x <= y
<1>1. PICK x \in T : \A y \in T : ~ (<<y, x>> \in OpToRel(<, Nat))
  BY NatLessThanWellFounded, WFMin
<1>2. \A y \in T : ~(y < x)
  BY <1>1 DEF OpToRel
<1> QED BY <1>2

LEMMA NothingInIt ==
  /\ ToSet(<<>>) = {} /\ Distinct(<<>>)
  /\ \A A : <<>> \in Seq(A)
  /\ \A A : \A s \in Seq(A) : (s = <<>> <=> ToSet(s) = {}) /\ ToSet(s) \subseteq A
<1>1. ToSet(<<>>) = {} /\ Distinct(<<>>)
  BY DEF ToSet, Distinct
<1>2. ASSUME NEW A, NEW s \in Seq(A) PROVE (s = <<>> <=> ToSet(s) = {}) /\ ToSet(s) \subseteq A
  <2>1. ToSet(s) \subseteq A
    BY DEF ToSet
  <2>2. ASSUME s # <<>> PROVE ToSet(s) # {}
    <3>1. 1 \in DOMAIN s
      BY <2>2, EmptySeq
    <3> QED BY <3>1 DEF ToSet
  <2> QED BY <1>1, <2>1, <2>2
<1>3. \A A : <<>> \in Seq(A)
  OBVIOUS
<1> QED BY <1>1, <1>2, <1>3

LEMMA Joined ==
  ASSUME NEW A, NEW s \in Seq(A), NEW t \in Seq(A)
  PROVE  /\ s \o t \in Seq(A) /\ ToSet(s \o t) = ToSet(s) \cup ToSet(t)
         /\ Distinct(s) /\ Distinct(t) /\ ToSet(s) \cap ToSet(t) = {} => Distinct(s \o t)
<1>1. /\ s \o t \in Seq(A) /\ DOMAIN (s \o t) = 1 .. Len(s) + Len(t)
      /\ DOMAIN s = 1 .. Len(s) /\ DOMAIN t = 1 .. Len(t) /\ Len(s) \in Nat /\ Len(t) \in Nat
      /\ \A i \in 1 .. Len(s) + Len(t) :
           (s \o t)[i] = IF i <= Len(s) THEN s[i] ELSE t[i - Len(s)]
  BY ConcatProperties
<1>2. \A i \in 1 .. Len(s) + Len(t) :
        /\ i <= Len(s) => i \in DOMAIN s
        /\ ~(i <= Len(s)) => i - Len(s) \in DOMAIN t
  BY <1>1
<1>3. /\ \A i \in DOMAIN s : i \in 1 .. Len(s) + Len(t) /\ (s \o t)[i] = s[i]
      /\ \A i \in DOMAIN t : /\ i + Len(s) \in 1 .. Len(s) + Len(t)
                             /\ (s \o t)[i + Len(s)] = t[i]
  BY <1>1
<1> DEFINE u == s \o t
<1>4. ToSet(u) \subseteq ToSet(s) \cup ToSet(t)
  <2>1. \A i \in DOMAIN u : u[i] \in ToSet(s) \/ u[i] \in ToSet(t)
    BY <1>1, <1>2 DEF ToSet
  <2> HIDE DEF u
  <2> QED BY <2>1 DEF ToSet
<1>5. ToSet(s) \cup ToSet(t) \subseteq ToSet(u)
  <2>1. \A i \in DOMAIN s : s[i] \in ToSet(u)
    BY <1>1, <1>3 DEF ToSet
  <2>2. \A i \in DOMAIN t : t[i] \in ToSet(u)
    BY <1>1, <1>3 DEF ToSet
  <2> HIDE DEF u
  <2> QED BY <2>1, <2>2 DEF ToSet
<1>6. ASSUME Distinct(s), Distinct(t), ToSet(s) \cap ToSet(t) = {} PROVE Distinct(u)
  <2> SUFFICES ASSUME NEW i \in DOMAIN u, NEW j \in DOMAIN u, u[i] = u[j] PROVE i = j
    BY DEF Distinct
  <2>1. i \in 1 .. Len(s) + Len(t) /\ j \in 1 .. Len(s) + Len(t)
    BY <1>1
  <2>2. CASE i <= Len(s) /\ j <= Len(s)
    <3>1. u[i] = s[i] /\ u[j] = s[j] /\ i \in DOMAIN s /\ j \in DOMAIN s
      BY <1>1, <1>2, <2>1, <2>2
    <3> HIDE DEF u
    <3> QED BY <1>6, <3>1 DEF Distinct
  <2>3. CASE ~(i <= Len(s)) /\ ~(j <= Len(s))
    <3>1. u[i] = t[i - Len(s)] /\ u[j] = t[j - Len(s)] /\ i - Len(s) \in DOMAIN t /\ j - Len(s) \in DOMAIN t
      BY <1>1, <1>2, <2>1, <2>3
    <3>2. i - Len(s) = j - Len(s)
      <4> HIDE DEF u
      <4> QED BY <1>6, <3>1 DEF Distinct
    <3> QED BY <1>1, <2>1, <3>2
  <2>4. CASE i <= Len(s) /\ ~(j <= Len(s))
    <3>1. u[i] = s[i] /\ u[j] = t[j - Len(s)] /\ i \in DOMAIN s /\ j - Len(s) \in DOMAIN t
      BY <1>1, <1>2, <2>1, <2>4
    <3> HIDE DEF u
    <3> QED BY <1>6, <3>1 DEF ToSet
  <2>5. CASE ~(i <= Len(s)) /\ j <= Len(s)
    <3>1. u[j] = s[j] /\ u[i] = t[i - Len(s)] /\ j \in DOMAIN s /\ i - Len(s) \in DOMAIN t
      BY <1>1, <1>2, <2>1, <2>5
    <3> HIDE DEF u
    <3> QED BY <1>6, <3>1 DEF ToSet
  <2> QED BY <2>2, <2>3, <2>4, <2>5
<1> QED BY <1>1, <1>4, <1>5, <1>6

LEMMA Appended ==
  ASSUME NEW A, NEW s \in Seq(A), NEW x \in A
  PROVE  /\ Append(s, x) \in Seq(A) /\ ToSet(Append(s, x)) = ToSet(s) \cup {x}
         /\ Distinct(s) /\ x \notin ToSet(s) => Distinct(Append(s, x))
         /\ Append(s, x) # <<>>
<1>1. /\ Append(s, x) \in Seq(A) /\ Append(s, x) # <<>>
      /\ DOMAIN Append(s, x) = 1 .. Len(s) + 1 /\ DOMAIN s = 1 .. Len(s) /\ Len(s) \in Nat
      /\ \A k \in 1 .. Len(s) : Append(s, x)[k] = s[k]
      /\ Append(s, x)[Len(s) + 1] = x
  BY AppendProperties
<1> DEFINE u == Append(s, x)
<1>2. \A k \in 1 .. Len(s) + 1 : k \in 1 .. Len(s) \/ k = Len(s) + 1
  BY <1>1
<1>3. 1 .. Len(s) \subseteq 1 .. Len(s) + 1 /\ Len(s) + 1 \in 1 .. Len(s) + 1
  BY <1>1
<1> HIDE DEF u
<1>4. ToSet(u) = ToSet(s) \cup {x}
  BY <1>1, <1>2, <1>3 DEF ToSet, u
<1>5. Distinct(s) /\ x \notin ToSet(s) => Distinct(u)
  BY <1>1, <1>2, <1>3 DEF ToSet, Distinct, u
<1> QED BY <1>1, <1>4, <1>5 DEF u

\* A list and how it is cut in two.
LEMMA CutInTwo ==
  ASSUME NEW A, NEW s \in Seq(A), NEW n \in 0 .. Len(s), Distinct(s)
  PROVE  LET a == SubSeq(s, 1, n)
             b == SubSeq(s, n + 1, Len(s))
         IN  /\ a \in Seq(A) /\ Distinct(a) /\ Len(a) = n
             /\ ToSet(a) \cup ToSet(b) = ToSet(s) /\ ToSet(a) \cap ToSet(b) = {}
<1> DEFINE a == SubSeq(s, 1, n)
           b == SubSeq(s, n + 1, Len(s))
<1>1. Len(s) \in Nat /\ DOMAIN s = 1 .. Len(s)
  OBVIOUS
<1>2. /\ a \in Seq(A) /\ Len(a) = n /\ DOMAIN a = 1 .. n /\ \A i \in 1 .. n : a[i] = s[i]
  BY <1>1, SubSeqProperties
<1>3. /\ DOMAIN b = 1 .. (Len(s) - n)
      /\ \A i \in 1 .. (Len(s) - n) : b[i] = s[n + i]
  BY <1>1, SubSeqProperties
<1> HIDE DEF a, b
<1>4. ToSet(a) = {s[i] : i \in 1 .. n}
  BY <1>2 DEF ToSet
<1>5. ToSet(b) = {s[i] : i \in (n + 1) .. Len(s)}
  <2>1. \A i \in 1 .. (Len(s) - n) : n + i \in (n + 1) .. Len(s)
    BY <1>1
  <2>2. \A i \in (n + 1) .. Len(s) : i - n \in 1 .. (Len(s) - n) /\ b[i - n] = s[i]
    BY <1>1, <1>3
  <2>3. \A i \in (n + 1) .. Len(s) : s[i] \in ToSet(b)
    BY <1>3, <2>2 DEF ToSet
  <2>4. \A x \in ToSet(b) : x \in {s[i] : i \in (n + 1) .. Len(s)}
    BY <1>3, <2>1 DEF ToSet
  <2> QED BY <2>3, <2>4
<1>6. \A i \in 1 .. Len(s) : i \in 1 .. n \/ i \in (n + 1) .. Len(s)
  BY <1>1
<1>7. 1 .. n \subseteq 1 .. Len(s) /\ (n + 1) .. Len(s) \subseteq 1 .. Len(s)
      /\ \A i \in 1 .. n, j \in (n + 1) .. Len(s) : i # j
  BY <1>1
<1>8. ToSet(a) \cup ToSet(b) = ToSet(s)
  BY <1>1, <1>4, <1>5, <1>6, <1>7 DEF ToSet
<1>9. ToSet(a) \cap ToSet(b) = {}
  BY <1>1, <1>4, <1>5, <1>7 DEF Distinct
<1>10. Distinct(a)
  BY <1>1, <1>2, <1>7 DEF Distinct
<1> QED BY <1>2, <1>8, <1>9, <1>10 DEF a, b

-----------------------------------------------------------------------------
(***************************************************************************)
(* sliceDataForKeepalive and packTrackPayloads.                            *)
(***************************************************************************)
Slices(f, m, data, kind) ==
  f = [n \in 0 .. m |->
         IF n = 0 THEN <<>>
         ELSE IF data[n] \in kind THEN Append(f[n - 1], data[n]) ELSE f[n - 1]]

LEMMA SliceDef ==
  ASSUME NEW data, NEW kind
  PROVE  Slice(data, kind) = (CHOOSE f : Slices(f, Len(data), data, kind))[Len(data)]
BY DEF Slice, Slices

LEMMA SlicesExist ==
  ASSUME NEW data \in Seq(Records), NEW kind
  PROVE  \E f : Slices(f, Len(data), data, kind)
<1> DEFINE Bad == {m \in 0 .. Len(data) : ~ \E f : Slices(f, m, data, kind)}
<1>0. Len(data) \in 0 .. Len(data)
  OBVIOUS
<1> SUFFICES ASSUME Bad # {} PROVE FALSE
  BY <1>0
<1>1. PICK m \in Bad : \A n \in Bad : m <= n
  <2>1. Bad \in SUBSET Nat
    OBVIOUS
  <2> HIDE DEF Bad
  <2> QED BY <2>1, LeastMember
<1>2. m # 0
  <2> SUFFICES ASSUME m = 0 PROVE FALSE
    OBVIOUS
  <2> DEFINE f == [n \in 0 .. 0 |-> <<>>]
  <2>1. Slices(f, 0, data, kind)
    BY DEF Slices
  <2> QED BY <2>1
<1>3. m \in Nat /\ m - 1 \in 0 .. Len(data)
  BY <1>2
<1>4. m - 1 \notin Bad
  BY <1>1, <1>3
<1>5. PICK f : Slices(f, m - 1, data, kind)
  BY <1>3, <1>4
<1> DEFINE h == [n \in 0 .. m |->
                   IF n = m
                   THEN IF data[n] \in kind THEN Append(f[n - 1], data[n]) ELSE f[n - 1]
                   ELSE f[n]]
<1>6. \A n \in 0 .. (m - 1) : h[n] = f[n]
  BY <1>3
<1>7. \A n \in 0 .. (m - 1) :
        f[n] = IF n = 0 THEN <<>>
               ELSE IF data[n] \in kind THEN Append(f[n - 1], data[n]) ELSE f[n - 1]
  BY <1>5 DEF Slices
<1>8. \A n \in 0 .. m :
        h[n] = IF n = 0 THEN <<>>
               ELSE IF data[n] \in kind THEN Append(h[n - 1], data[n]) ELSE h[n - 1]
  <2> TAKE n \in 0 .. m
  <2>1. CASE n = m
    BY <2>1, <1>2, <1>3, <1>6
  <2>2. CASE n # m
    <3>1. n \in 0 .. (m - 1)
      BY <2>2, <1>3
    <3>2. n # 0 => h[n - 1] = f[n - 1]
      BY <3>1, <1>3, <1>6
    <3>3. h[n] = f[n]
      BY <3>1, <1>6
    <3> HIDE DEF h
    <3> QED BY <1>7, <3>1, <3>2, <3>3
  <2> QED BY <2>1, <2>2
<1>9. Slices(h, m, data, kind)
  <2>1. h = [n \in 0 .. m |-> h[n]]
    OBVIOUS
  <2> HIDE DEF h
  <2> QED BY <2>1, <1>8 DEF Slices
<1> QED BY <1>9

LEMMA SliceIsKind ==
  ASSUME NEW data \in Seq(Records), Distinct(data), NEW kind
  PROVE  /\ Slice(data, kind) \in Seq(Records) /\ Distinct(Slice(data, kind))
         /\ ToSet(Slice(data, kind)) = ToSet(data) \cap kind
<1>1. PICK f : Slices(f, Len(data), data, kind) /\ Slice(data, kind) = f[Len(data)]
  BY SlicesExist, SliceDef
<1> DEFINE Part(n) == {data[j] : j \in {j \in 1 .. n : data[j] \in kind}}
           Good(n) == f[n] \in Seq(Records) /\ ToSet(f[n]) = Part(n) /\ Distinct(f[n])
           Bad == {n \in 0 .. Len(data) : ~Good(n)}
<1>2. \A n \in 0 .. Len(data) :
        f[n] = IF n = 0 THEN <<>>
               ELSE IF data[n] \in kind THEN Append(f[n - 1], data[n]) ELSE f[n - 1]
  BY <1>1 DEF Slices
<1>3. Bad = {}
  <2> SUFFICES ASSUME Bad # {} PROVE FALSE
    OBVIOUS
  <2>1. PICK n \in Bad : \A k \in Bad : n <= k
    <3>1. Bad \in SUBSET Nat
      OBVIOUS
    <3> HIDE DEF Bad
    <3> QED BY <3>1, LeastMember
  <2>2. n # 0
    <3> SUFFICES ASSUME n = 0 PROVE FALSE
      OBVIOUS
    <3>1. f[0] = <<>>
      BY <1>2
    <3>2. Part(0) = {}
      OBVIOUS
    <3>3. Good(0)
      BY <3>1, <3>2, NothingInIt
    <3> QED BY <3>3
  <2>3. n \in 1 .. Len(data) /\ n - 1 \in 0 .. Len(data) /\ data[n] \in Records /\ n \in 0 .. Len(data)
    BY <2>2
  <2>4. ~Good(n)
    OBVIOUS
  <2>5. Good(n - 1)
    <3>1. n - 1 \notin Bad
      <4> HIDE DEF Bad
      <4> QED BY <2>1, <2>3
    <3> HIDE DEF Good
    <3> QED BY <3>1, <2>3
  <2>6. \A j \in 1 .. n : j \in 1 .. (n - 1) \/ j = n
    BY <2>3
  <2>7. 1 .. (n - 1) \subseteq 1 .. n /\ n \in 1 .. n /\ n \notin 1 .. (n - 1)
        /\ 1 .. n \subseteq DOMAIN data
    BY <2>3
  <2>8. CASE data[n] \in kind
    <3>1. f[n] = Append(f[n - 1], data[n])
      <4> HIDE DEF Bad, Good, Part
      <4> QED BY <1>2, <2>2, <2>3, <2>8
    <3>2. data[n] \notin Part(n - 1)
      BY <2>7 DEF Distinct
    <3>3. f[n] \in Seq(Records) /\ ToSet(f[n]) = ToSet(f[n - 1]) \cup {data[n]} /\ Distinct(f[n])
      <4> HIDE DEF Part
      <4> QED BY <3>1, <3>2, <2>3, <2>5, Appended
    <3>4. Part(n) = Part(n - 1) \cup {data[n]}
      BY <2>6, <2>7, <2>8
    <3>5. Good(n)
      BY <3>3, <3>4, <2>5
    <3> QED BY <3>5, <2>4
  <2>9. CASE data[n] \notin kind
    <3>1. f[n] = f[n - 1]
      <4> HIDE DEF Bad, Good, Part
      <4> QED BY <1>2, <2>2, <2>3, <2>9
    <3>2. Part(n) = Part(n - 1)
      BY <2>6, <2>7, <2>9
    <3>3. Good(n)
      BY <3>1, <3>2, <2>5
    <3> QED BY <3>3, <2>4
  <2> QED BY <2>8, <2>9
<1>4. Len(data) \in 0 .. Len(data) /\ DOMAIN data = 1 .. Len(data)
  OBVIOUS
<1>5. Good(Len(data))
  <2> HIDE DEF Good
  <2> QED BY <1>3, <1>4
<1>6. Part(Len(data)) = ToSet(data) \cap kind
  BY <1>4 DEF ToSet
<1> QED BY <1>1, <1>5, <1>6

\* A list of requests that hold the records of R, each of them once.
Split(S, R) ==
  /\ S \in Seq(Request)
  /\ \A k \in DOMAIN S : Distinct(S[k])
  /\ \A k, l \in DOMAIN S : k # l => ToSet(S[k]) \cap ToSet(S[l]) = {}
  /\ \A x : x \in R <=> \E k \in DOMAIN S : x \in ToSet(S[k])

LEMMA SplitNothing == \A R : Split(<<>>, R) <=> R = {}
<1>1. <<>> \in Seq(Request) /\ DOMAIN <<>> = {}
  OBVIOUS
<1> QED BY <1>1 DEF Split

LEMMA SplitAppend ==
  ASSUME NEW S, NEW R, Split(S, R), NEW d \in Request, Distinct(d), ToSet(d) \cap R = {}
  PROVE  Split(Append(S, d), R \cup ToSet(d))
<1> DEFINE T == Append(S, d)
<1>0. S \in Seq(Request)
  BY DEF Split
<1>1. /\ T \in Seq(Request) /\ Len(S) \in Nat
      /\ DOMAIN T = 1 .. Len(S) + 1 /\ DOMAIN S = 1 .. Len(S)
      /\ \A k \in 1 .. Len(S) : T[k] = S[k]
      /\ T[Len(S) + 1] = d
  BY <1>0, AppendProperties
<1>2. \A k \in 1 .. Len(S) + 1 : k \in 1 .. Len(S) \/ k = Len(S) + 1
  BY <1>1
<1>3. 1 .. Len(S) \subseteq 1 .. Len(S) + 1 /\ Len(S) + 1 \in 1 .. Len(S) + 1
  BY <1>1
<1>4. \A k \in 1 .. Len(S) : ToSet(S[k]) \subseteq R
  BY <1>1 DEF Split
<1> HIDE DEF T
<1>5. \A k \in DOMAIN T : Distinct(T[k])
  BY <1>1, <1>2 DEF Split
<1>6. ASSUME NEW k \in DOMAIN T, NEW l \in DOMAIN T, k # l PROVE ToSet(T[k]) \cap ToSet(T[l]) = {}
  <2>1. CASE k \in 1 .. Len(S) /\ l \in 1 .. Len(S)
    BY <1>1, <1>6, <2>1 DEF Split
  <2>2. CASE k \in 1 .. Len(S) /\ l = Len(S) + 1
    BY <1>1, <1>4, <2>2
  <2>3. CASE k = Len(S) + 1 /\ l \in 1 .. Len(S)
    BY <1>1, <1>4, <2>3
  <2> QED BY <1>1, <1>2, <1>6, <2>1, <2>2, <2>3
<1>7. ASSUME NEW x PROVE x \in R \cup ToSet(d) <=> \E k \in DOMAIN T : x \in ToSet(T[k])
  <2>1. x \in R => \E k \in DOMAIN T : x \in ToSet(T[k])
    BY <1>1, <1>3 DEF Split
  <2>2. x \in ToSet(d) => \E k \in DOMAIN T : x \in ToSet(T[k])
    BY <1>1, <1>3
  <2>3. ASSUME NEW k \in DOMAIN T, x \in ToSet(T[k]) PROVE x \in R \cup ToSet(d)
    BY <1>1, <1>2, <1>4, <2>3
  <2> QED BY <2>1, <2>2, <2>3
<1> QED BY <1>1, <1>5, <1>6, <1>7 DEF Split, T

\* The part of the list from one request to another.
LEMMA SplitPart ==
  ASSUME NEW S, NEW R, Split(S, R), NEW d \in Nat, NEW T \in Seq(Request),
         \A k \in DOMAIN T : k + d \in DOMAIN S /\ T[k] = S[k + d],
         NEW l \in DOMAIN S, \A k \in DOMAIN T : k + d # l,
         \A k \in DOMAIN S : k # l => k - d \in DOMAIN T
  PROVE  /\ Split(T, R \ ToSet(S[l]))
         /\ S[l] \in Request /\ Distinct(S[l]) /\ ToSet(S[l]) \subseteq R
<1>0. \A k \in DOMAIN S : k \in Nat
  BY DEF Split
<1>0a. \A k \in DOMAIN T : k \in Nat
  OBVIOUS
<1>1. S[l] \in Request /\ Distinct(S[l]) /\ ToSet(S[l]) \subseteq R
  BY DEF Split
<1>2. \A k \in DOMAIN T : Distinct(T[k])
  BY DEF Split
<1>3. ASSUME NEW k \in DOMAIN T, NEW m \in DOMAIN T, k # m PROVE ToSet(T[k]) \cap ToSet(T[m]) = {}
  <2>1. k + d # m + d
    BY <1>0a, <1>3
  <2> QED BY <2>1 DEF Split
<1>4. ASSUME NEW x PROVE x \in R \ ToSet(S[l]) <=> \E k \in DOMAIN T : x \in ToSet(T[k])
  <2>1. ASSUME x \in R \ ToSet(S[l]) PROVE \E k \in DOMAIN T : x \in ToSet(T[k])
    <3>1. PICK k \in DOMAIN S : x \in ToSet(S[k])
      BY <2>1 DEF Split
    <3>2. k # l
      BY <2>1, <3>1
    <3>3. k - d \in DOMAIN T /\ T[k - d] = S[(k - d) + d]
      BY <3>2
    <3>4. (k - d) + d = k
      BY <1>0
    <3> QED BY <3>1, <3>3, <3>4
  <2>2. ASSUME NEW k \in DOMAIN T, x \in ToSet(T[k]) PROVE x \in R \ ToSet(S[l])
    <3>1. k + d \in DOMAIN S /\ T[k] = S[k + d] /\ k + d # l
      OBVIOUS
    <3> QED BY <2>2, <3>1 DEF Split
  <2> QED BY <2>1, <2>2
<1> QED BY <1>1, <1>2, <1>3, <1>4 DEF Split

LEMMA SplitTail ==
  ASSUME NEW S, NEW R, Split(S, R), S # <<>>
  PROVE  /\ Split(Tail(S), R \ ToSet(Head(S)))
         /\ Head(S) \in Request /\ Distinct(Head(S)) /\ ToSet(Head(S)) \subseteq R
<1>1. S \in Seq(Request)
  BY DEF Split
<1> DEFINE T == Tail(S)
<1>2. /\ T \in Seq(Request) /\ Len(T) = Len(S) - 1 /\ \A k \in 1 .. Len(T) : T[k] = S[k + 1]
      /\ Len(S) \in Nat \ {0} /\ DOMAIN S = 1 .. Len(S) /\ DOMAIN T = 1 .. Len(T)
      /\ Head(S) = S[1]
  BY <1>1, HeadTailProperties, EmptySeq
<1> HIDE DEF T
<1>3. /\ \A k \in DOMAIN T : k + 1 \in DOMAIN S /\ T[k] = S[k + 1] /\ k + 1 # 1
      /\ 1 \in DOMAIN S /\ \A k \in DOMAIN S : k # 1 => k - 1 \in DOMAIN T
  BY <1>2
<1>4. /\ Split(T, R \ ToSet(S[1]))
      /\ S[1] \in Request /\ Distinct(S[1]) /\ ToSet(S[1]) \subseteq R
  BY <1>2, <1>3, SplitPart
<1> QED BY <1>2, <1>4 DEF T

LEMMA SplitFront ==
  ASSUME NEW S, NEW R, Split(S, R), S # <<>>
  PROVE  /\ Split(Front(S), R \ ToSet(Last(S)))
         /\ Last(S) \in Request /\ Distinct(Last(S)) /\ ToSet(Last(S)) \subseteq R
<1>1. S \in Seq(Request)
  BY DEF Split
<1> DEFINE T == SubSeq(S, 1, Len(S) - 1)
           n == Len(S)
<1>2. n \in Nat \ {0} /\ DOMAIN S = 1 .. n
  BY <1>1, EmptySeq
<1>3. /\ T \in Seq(Request) /\ DOMAIN T = 1 .. (n - 1) /\ \A k \in 1 .. (n - 1) : T[k] = S[k]
  BY <1>1, <1>2, SubSeqProperties
<1> HIDE DEF T, n
<1>4. /\ \A k \in DOMAIN T : k + 0 \in DOMAIN S /\ T[k] = S[k + 0] /\ k + 0 # n
      /\ n \in DOMAIN S /\ \A k \in DOMAIN S : k # n => k - 0 \in DOMAIN T
  BY <1>2, <1>3
<1>5. /\ Split(T, R \ ToSet(S[n]))
      /\ S[n] \in Request /\ Distinct(S[n]) /\ ToSet(S[n]) \subseteq R
  BY <1>2, <1>3, <1>4, SplitPart
<1> QED BY <1>5 DEF T, n, Front, Last

-----------------------------------------------------------------------------
\* The requests of one list follow those of another.
LEMMA SplitPrepend ==
  ASSUME NEW S, NEW R, Split(S, R), NEW d \in Request, Distinct(d), ToSet(d) \cap R = {}
  PROVE  Split(<<d>> \o S, R \cup ToSet(d))
<1> DEFINE T == <<d>> \o S
<1>0. S \in Seq(Request) /\ <<d>> \in Seq(Request) /\ Len(<<d>>) = 1 /\ <<d>>[1] = d
  BY DEF Split
<1>1. /\ T \in Seq(Request) /\ Len(S) \in Nat
      /\ DOMAIN T = 1 .. 1 + Len(S) /\ DOMAIN S = 1 .. Len(S)
      /\ \A k \in 1 .. 1 + Len(S) : T[k] = IF k <= 1 THEN <<d>>[k] ELSE S[k - 1]
  BY <1>0, ConcatProperties
<1>2. \A k \in 1 .. 1 + Len(S) : k = 1 \/ (k - 1 \in 1 .. Len(S) /\ ~(k <= 1))
  BY <1>1
<1>3. /\ 1 \in 1 .. 1 + Len(S) /\ 1 <= 1
      /\ \A k \in 1 .. Len(S) : k + 1 \in 1 .. 1 + Len(S) /\ ~(k + 1 <= 1) /\ (k + 1) - 1 = k
      /\ \A k, l \in 1 .. 1 + Len(S) : k # l => k - 1 # l - 1
  BY <1>1
<1>4. \A k \in 1 .. Len(S) : ToSet(S[k]) \subseteq R
  BY <1>1 DEF Split
<1> HIDE DEF T
<1>5. /\ T[1] = d /\ \A k \in 1 .. 1 + Len(S) : k # 1 => T[k] = S[k - 1] /\ k - 1 \in 1 .. Len(S)
      /\ \A k \in 1 .. Len(S) : T[k + 1] = S[k]
  BY <1>0, <1>1, <1>2, <1>3
<1>6. \A k \in DOMAIN T : Distinct(T[k])
  <2> TAKE k \in DOMAIN T
  <2> QED BY <1>1, <1>5 DEF Split
<1>7. ASSUME NEW k \in DOMAIN T, NEW l \in DOMAIN T, k # l PROVE ToSet(T[k]) \cap ToSet(T[l]) = {}
  <2>1. CASE k # 1 /\ l # 1
    <3>1. k - 1 # l - 1 /\ k - 1 \in DOMAIN S /\ l - 1 \in DOMAIN S /\ T[k] = S[k - 1] /\ T[l] = S[l - 1]
      BY <1>1, <1>3, <1>5, <1>7, <2>1
    <3> QED BY <3>1 DEF Split
  <2>2. CASE k # 1 /\ l = 1
    BY <1>1, <1>4, <1>5, <2>2
  <2>3. CASE k = 1 /\ l # 1
    BY <1>1, <1>4, <1>5, <2>3
  <2> QED BY <1>7, <2>1, <2>2, <2>3
<1>8. ASSUME NEW x PROVE x \in R \cup ToSet(d) <=> \E k \in DOMAIN T : x \in ToSet(T[k])
  <2>1. x \in R => \E k \in DOMAIN T : x \in ToSet(T[k])
    <3> SUFFICES ASSUME x \in R PROVE \E k \in DOMAIN T : x \in ToSet(T[k])
      OBVIOUS
    <3>1. PICK k \in DOMAIN S : x \in ToSet(S[k])
      BY DEF Split
    <3>2. k + 1 \in DOMAIN T /\ T[k + 1] = S[k]
      BY <1>1, <1>3, <1>5
    <3> QED BY <3>1, <3>2
  <2>2. x \in ToSet(d) => \E k \in DOMAIN T : x \in ToSet(T[k])
    BY <1>1, <1>3, <1>5
  <2>3. ASSUME NEW k \in DOMAIN T, x \in ToSet(T[k]) PROVE x \in R \cup ToSet(d)
    BY <1>1, <1>4, <1>5, <2>3
  <2> QED BY <2>1, <2>2, <2>3
<1> QED BY <1>1, <1>6, <1>7, <1>8 DEF Split, T

LEMMA PackSplit ==
  ASSUME NEW S, NEW R, Split(S, R), NEW x \in Records, x \notin R
  PROVE  Split(Pack(S, x), R \cup {x})
<1>1. CASE S # <<>> /\ Pack(S, x) = Append(Front(S), Append(Last(S), x))
  <2> DEFINE d == Append(Last(S), x)
  <2>1. /\ Split(Front(S), R \ ToSet(Last(S)))
        /\ Last(S) \in Request /\ Distinct(Last(S)) /\ ToSet(Last(S)) \subseteq R
    BY <1>1, SplitFront
  <2>2. Last(S) \in Seq(Records)
    BY <2>1 DEF Request
  <2>3. /\ d \in Seq(Records) /\ ToSet(d) = ToSet(Last(S)) \cup {x} /\ Distinct(d) /\ d # <<>>
    BY <2>1, <2>2, Appended
  <2> HIDE DEF d
  <2>4. d \in Request /\ ToSet(d) \cap (R \ ToSet(Last(S))) = {}
    BY <2>3 DEF Request
  <2>5. Split(Append(Front(S), d), (R \ ToSet(Last(S))) \cup ToSet(d))
    BY <2>1, <2>3, <2>4, SplitAppend
  <2>6. (R \ ToSet(Last(S))) \cup ToSet(d) = R \cup {x}
    BY <2>1, <2>3
  <2> QED BY <1>1, <2>5, <2>6 DEF d
<1>2. CASE Pack(S, x) = Append(S, <<x>>)
  <2> DEFINE d == <<x>>
  <2>1. d \in Seq(Records) /\ DOMAIN d = 1 .. 1 /\ d[1] = x /\ Len(d) = 1
    OBVIOUS
  <2>2. 1 \in 1 .. 1 /\ \A i \in 1 .. 1 : i = 1
    OBVIOUS
  <2>3. d # <<>>
    BY <2>1
  <2> HIDE DEF d
  <2>4. ToSet(d) = {x} /\ Distinct(d)
    BY <2>1, <2>2 DEF ToSet, Distinct
  <2>5. Split(Append(S, d), R \cup ToSet(d))
    BY <2>1, <2>3, <2>4, SplitAppend DEF Request
  <2> QED BY <1>2, <2>4, <2>5 DEF d
<1> HIDE DEF Split
<1> QED BY <1>1, <1>2 DEF Pack

Packs(f, m, records) ==
  f = [n \in 0 .. m |-> IF n = 0 THEN <<>> ELSE Pack(f[n - 1], records[n])]

LEMMA PackDef ==
  ASSUME NEW records
  PROVE  PackTrackPayloads(records) =
           (CHOOSE f : Packs(f, Len(records), records))[Len(records)]
BY DEF PackTrackPayloads, Packs

LEMMA PacksExist ==
  ASSUME NEW records \in Seq(Records)
  PROVE  \E f : Packs(f, Len(records), records)
<1> DEFINE Bad == {m \in 0 .. Len(records) : ~ \E f : Packs(f, m, records)}
<1>0. Len(records) \in 0 .. Len(records)
  OBVIOUS
<1> SUFFICES ASSUME Bad # {} PROVE FALSE
  BY <1>0
<1>1. PICK m \in Bad : \A n \in Bad : m <= n
  <2>1. Bad \in SUBSET Nat
    OBVIOUS
  <2> HIDE DEF Bad
  <2> QED BY <2>1, LeastMember
<1>2. m # 0
  <2> SUFFICES ASSUME m = 0 PROVE FALSE
    OBVIOUS
  <2> DEFINE f == [n \in 0 .. 0 |-> <<>>]
  <2>1. Packs(f, 0, records)
    BY DEF Packs
  <2> QED BY <2>1
<1>3. m \in Nat /\ m - 1 \in 0 .. Len(records)
  BY <1>2
<1>4. m - 1 \notin Bad
  BY <1>1, <1>3
<1>5. PICK f : Packs(f, m - 1, records)
  BY <1>3, <1>4
<1> DEFINE h == [n \in 0 .. m |-> IF n = m THEN Pack(f[n - 1], records[n]) ELSE f[n]]
<1>6. \A n \in 0 .. (m - 1) : h[n] = f[n]
  BY <1>3
<1>7. \A n \in 0 .. (m - 1) :
        f[n] = IF n = 0 THEN <<>> ELSE Pack(f[n - 1], records[n])
  BY <1>5 DEF Packs
<1>8. \A n \in 0 .. m :
        h[n] = IF n = 0 THEN <<>> ELSE Pack(h[n - 1], records[n])
  <2> TAKE n \in 0 .. m
  <2>1. CASE n = m
    BY <2>1, <1>2, <1>3, <1>6
  <2>2. CASE n # m
    <3>1. n \in 0 .. (m - 1)
      BY <2>2, <1>3
    <3>2. n # 0 => h[n - 1] = f[n - 1]
      BY <3>1, <1>3, <1>6
    <3>3. h[n] = f[n]
      BY <3>1, <1>6
    <3> HIDE DEF h
    <3> QED BY <1>7, <3>1, <3>2, <3>3
  <2> QED BY <2>1, <2>2
<1>9. Packs(h, m, records)
  <2>1. h = [n \in 0 .. m |-> h[n]]
    OBVIOUS
  <2> HIDE DEF h
  <2> QED BY <2>1, <1>8 DEF Packs
<1> QED BY <1>9

LEMMA ChunksSplit ==
  ASSUME NEW records \in Seq(Records), Distinct(records)
  PROVE  Split(PackTrackPayloads(records), ToSet(records))
<1>1. PICK f : Packs(f, Len(records), records) /\ PackTrackPayloads(records) = f[Len(records)]
  BY PacksExist, PackDef
<1> DEFINE Part(n) == {records[j] : j \in 1 .. n}
           Good(n) == Split(f[n], Part(n))
           Bad == {n \in 0 .. Len(records) : ~Good(n)}
<1>2. \A n \in 0 .. Len(records) :
        f[n] = IF n = 0 THEN <<>> ELSE Pack(f[n - 1], records[n])
  BY <1>1 DEF Packs
<1>3. Bad = {}
  <2> SUFFICES ASSUME Bad # {} PROVE FALSE
    OBVIOUS
  <2>1. PICK n \in Bad : \A k \in Bad : n <= k
    <3>1. Bad \in SUBSET Nat
      OBVIOUS
    <3> HIDE DEF Bad
    <3> QED BY <3>1, LeastMember
  <2>2. n # 0
    <3> SUFFICES ASSUME n = 0 PROVE FALSE
      OBVIOUS
    <3>1. f[0] = <<>>
      BY <1>2
    <3>2. Part(0) = {}
      OBVIOUS
    <3>3. Good(0)
      BY <3>1, <3>2, SplitNothing
    <3> QED BY <3>3
  <2>3. n \in 1 .. Len(records) /\ n - 1 \in 0 .. Len(records) /\ records[n] \in Records
        /\ n \in 0 .. Len(records)
    BY <2>2
  <2>4. ~Good(n)
    OBVIOUS
  <2>5. Good(n - 1)
    <3>1. n - 1 \notin Bad
      <4> HIDE DEF Bad
      <4> QED BY <2>1, <2>3
    <3> HIDE DEF Good
    <3> QED BY <3>1, <2>3
  <2>6. \A j \in 1 .. n : j \in 1 .. (n - 1) \/ j = n
    BY <2>3
  <2>7. 1 .. (n - 1) \subseteq 1 .. n /\ n \in 1 .. n /\ n \notin 1 .. (n - 1)
        /\ 1 .. n \subseteq DOMAIN records
    BY <2>3
  <2>8. f[n] = Pack(f[n - 1], records[n])
    <3> HIDE DEF Bad, Good, Part
    <3> QED BY <1>2, <2>2, <2>3
  <2>9. records[n] \notin Part(n - 1)
    BY <2>7 DEF Distinct
  <2>10. Split(Pack(f[n - 1], records[n]), Part(n - 1) \cup {records[n]})
    <3> HIDE DEF Part
    <3> QED BY <2>3, <2>5, <2>9, PackSplit
  <2>11. Part(n) = Part(n - 1) \cup {records[n]}
    BY <2>6, <2>7
  <2> HIDE DEF Part
  <2> QED BY <2>4, <2>8, <2>10, <2>11
<1>4. Len(records) \in 0 .. Len(records) /\ DOMAIN records = 1 .. Len(records)
  OBVIOUS
<1>5. Good(Len(records))
  <2> HIDE DEF Good
  <2> QED BY <1>3, <1>4
<1>6. Part(Len(records)) = ToSet(records)
  BY <1>4 DEF ToSet
<1> QED BY <1>1, <1>5, <1>6

\* The requests of a run hold what it was begun with.
LEMMA RequestsSplit ==
  ASSUME NEW data \in Seq(Records), Distinct(data)
  PROVE  Split(Requests(data), ToSet(data))
<1> DEFINE common == Slice(data, Records \ Track)
           tracks == Slice(data, Track)
<1>1. /\ common \in Seq(Records) /\ Distinct(common)
      /\ ToSet(common) = ToSet(data) \cap (Records \ Track)
      /\ tracks \in Seq(Records) /\ Distinct(tracks)
      /\ ToSet(tracks) = ToSet(data) \cap Track
  BY SliceIsKind
<1>2. ToSet(data) \subseteq Records
  BY NothingInIt
<1> HIDE DEF common, tracks
<1>3. ToSet(common) \cap ToSet(tracks) = {} /\ ToSet(data) = ToSet(tracks) \cup ToSet(common)
  BY <1>1, <1>2
<1>4. Split(PackTrackPayloads(tracks), ToSet(tracks))
  BY <1>1, ChunksSplit
<1>5. PackTrackPayloads(tracks) \in Seq(Request)
  BY <1>4 DEF Split
<1>6. Requests(data) = (IF common = <<>> THEN <<>> ELSE <<common>>) \o PackTrackPayloads(tracks)
  BY DEF Requests, common, tracks
<1>7. CASE common = <<>>
  <2>1. Requests(data) = PackTrackPayloads(tracks)
    BY <1>5, <1>6, <1>7, ConcatEmptySeq
  <2>2. ToSet(data) = ToSet(tracks)
    BY <1>3, <1>7, NothingInIt
  <2> QED BY <1>4, <2>1, <2>2
<1>8. CASE common # <<>>
  <2>1. Requests(data) = <<common>> \o PackTrackPayloads(tracks)
    BY <1>6, <1>8
  <2>2. common \in Request
    BY <1>1, <1>8 DEF Request
  <2>3. Split(<<common>> \o PackTrackPayloads(tracks), ToSet(tracks) \cup ToSet(common))
    BY <1>1, <1>3, <1>4, <2>2, SplitPrepend
  <2> QED BY <1>3, <2>1, <2>3
<1> QED BY <1>7, <1>8

-----------------------------------------------------------------------------
(***************************************************************************)
(* Lists put one after the other.                                          *)
(***************************************************************************)
Apart(S) ==
  /\ S \in Seq(Seq(Records))
  /\ \A k \in DOMAIN S : Distinct(S[k])
  /\ \A k, l \in DOMAIN S : k # l => ToSet(S[k]) \cap ToSet(S[l]) = {}

Flattens(f, m, S) ==
  f = [i \in 1 .. m |-> IF i = 1 THEN S[i] ELSE f[i - 1] \o S[i]]

LEMMA FlattenDef ==
  ASSUME NEW S
  PROVE  FlattenSeq(S) = IF Len(S) = 0 THEN S
                         ELSE (CHOOSE f : Flattens(f, Len(S), S))[Len(S)]
BY DEF FlattenSeq, Flattens

LEMMA FlattensExist ==
  ASSUME NEW S \in Seq(Seq(Records))
  PROVE  \E f : Flattens(f, Len(S), S)
<1> DEFINE Bad == {m \in 0 .. Len(S) : ~ \E f : Flattens(f, m, S)}
<1>0. Len(S) \in 0 .. Len(S)
  OBVIOUS
<1> SUFFICES ASSUME Bad # {} PROVE FALSE
  BY <1>0
<1>1. PICK m \in Bad : \A n \in Bad : m <= n
  <2>1. Bad \in SUBSET Nat
    OBVIOUS
  <2> HIDE DEF Bad
  <2> QED BY <2>1, LeastMember
<1>2. m # 0
  <2> SUFFICES ASSUME m = 0 PROVE FALSE
    OBVIOUS
  <2> DEFINE f == [i \in 1 .. 0 |-> <<>>]
  <2>1. f = [i \in 1 .. 0 |-> IF i = 1 THEN S[i] ELSE f[i - 1] \o S[i]]
    OBVIOUS
  <2>2. Flattens(f, 0, S)
    <3> HIDE DEF f
    <3> QED BY <2>1 DEF Flattens
  <2> HIDE DEF f
  <2> QED BY <2>2
<1>3. m \in Nat /\ m - 1 \in 0 .. Len(S) /\ ~(m <= m - 1)
  BY <1>2
<1>4. m - 1 \notin Bad
  <2> HIDE DEF Bad
  <2> QED BY <1>1, <1>3
<1>5. PICK f : Flattens(f, m - 1, S)
  BY <1>3, <1>4
<1> DEFINE h == [i \in 1 .. m |-> IF i = m THEN IF i = 1 THEN S[i] ELSE f[i - 1] \o S[i]
                                  ELSE f[i]]
<1>6. \A n \in 1 .. (m - 1) : h[n] = f[n]
  BY <1>3
<1>7. \A i \in 1 .. (m - 1) :
        f[i] = IF i = 1 THEN S[i] ELSE f[i - 1] \o S[i]
  BY <1>5 DEF Flattens
<1>8. \A i \in 1 .. m : h[i] = IF i = 1 THEN S[i] ELSE h[i - 1] \o S[i]
  <2> TAKE i \in 1 .. m
  <2>1. CASE i = m
    <3>1. i # 1 => h[i - 1] = f[i - 1]
      BY <2>1, <1>3, <1>6
    <3>2. h[i] = IF i = 1 THEN S[i] ELSE f[i - 1] \o S[i]
      BY <2>1
    <3> HIDE DEF h
    <3> QED BY <3>1, <3>2
  <2>2. CASE i # m
    <3>1. i \in 1 .. (m - 1)
      BY <2>2, <1>3
    <3>2. i # 1 => h[i - 1] = f[i - 1]
      BY <3>1, <1>3, <1>6
    <3>3. h[i] = f[i]
      BY <3>1, <1>6
    <3> HIDE DEF h
    <3> QED BY <1>7, <3>1, <3>2, <3>3
  <2> QED BY <2>1, <2>2
<1>9. Flattens(h, m, S)
  <2>1. h = [i \in 1 .. m |-> h[i]]
    OBVIOUS
  <2> HIDE DEF h
  <2> QED BY <2>1, <1>8 DEF Flattens
<1> HIDE DEF h
<1> QED BY <1>9

LEMMA Flattened ==
  ASSUME NEW S, Apart(S)
  PROVE  /\ FlattenSeq(S) \in Seq(Records) /\ Distinct(FlattenSeq(S))
         /\ \A x : x \in ToSet(FlattenSeq(S)) <=> \E k \in DOMAIN S : x \in ToSet(S[k])
<1>0. S \in Seq(Seq(Records)) /\ DOMAIN S = 1 .. Len(S) /\ Len(S) \in Nat
  BY DEF Apart
<1>1. CASE Len(S) = 0
  <2>1. FlattenSeq(S) = <<>> /\ DOMAIN S = {}
    BY <1>0, <1>1, FlattenDef, EmptySeq
  <2> QED BY <2>1, NothingInIt
<1>2. CASE Len(S) # 0
  <2>1. PICK f : Flattens(f, Len(S), S) /\ FlattenSeq(S) = f[Len(S)]
    BY <1>0, <1>2, FlattensExist, FlattenDef
  <2>2. \A i \in 1 .. Len(S) : f[i] = IF i = 1 THEN S[i] ELSE f[i - 1] \o S[i]
    BY <2>1 DEF Flattens
  <2> DEFINE Holds(n) == \A x : x \in ToSet(f[n]) <=> \E k \in 1 .. n : x \in ToSet(S[k])
             Good(n) == f[n] \in Seq(Records) /\ Distinct(f[n]) /\ Holds(n)
             Bad == {n \in 1 .. Len(S) : ~Good(n)}
  <2>3. Bad = {}
    <3> SUFFICES ASSUME Bad # {} PROVE FALSE
      OBVIOUS
    <3>1. PICK n \in Bad : \A k \in Bad : n <= k
      <4>1. Bad \in SUBSET Nat
        OBVIOUS
      <4> HIDE DEF Bad
      <4> QED BY <4>1, LeastMember
    <3>0. n \in 1 .. Len(S) /\ ~Good(n)
      OBVIOUS
    <3> HIDE DEF Bad, Good
    <3>2. n \in 1 .. Len(S) /\ S[n] \in Seq(Records) /\ Distinct(S[n]) /\ ~Good(n)
      <4>1. \A k \in DOMAIN S : Distinct(S[k])
        BY DEF Apart
      <4>2. S[n] \in Seq(Records)
        BY <1>0, <3>0
      <4> QED BY <1>0, <3>0, <4>1, <4>2
    <3>3. n # 1
      <4> SUFFICES ASSUME n = 1 PROVE FALSE
        OBVIOUS
      <4>1. f[1] = S[1] /\ 1 \in 1 .. 1 /\ \A k \in 1 .. 1 : k = 1
        BY <2>2, <3>2
      <4>2. Holds(1)
        BY <4>1
      <4> QED BY <3>2, <4>1, <4>2 DEF Good
    <3>4. n - 1 \in 1 .. Len(S) /\ ~(n <= n - 1)
      BY <3>2, <3>3, <1>0
    <3>5. Good(n - 1)
      <4>1. n - 1 \notin Bad
        BY <3>1, <3>4
      <4> QED BY <3>4, <4>1 DEF Bad
    <3>6. f[n] = f[n - 1] \o S[n]
      <4> HIDE DEF Holds
      <4> QED BY <2>2, <3>2, <3>3
    <3>7. /\ \A k \in 1 .. n : k \in 1 .. (n - 1) \/ k = n
          /\ 1 .. (n - 1) \subseteq 1 .. n /\ n \in 1 .. n /\ n \notin 1 .. (n - 1)
          /\ 1 .. n \subseteq DOMAIN S
      BY <1>0, <3>2
    <3>8. ToSet(f[n - 1]) \cap ToSet(S[n]) = {}
      <4> SUFFICES ASSUME NEW x \in ToSet(f[n - 1]), x \in ToSet(S[n]) PROVE FALSE
        OBVIOUS
      <4>1. PICK k \in 1 .. (n - 1) : x \in ToSet(S[k])
        BY <3>5 DEF Good
      <4>2. k # n /\ k \in DOMAIN S /\ n \in DOMAIN S
        BY <3>7
      <4> QED BY <4>1, <4>2 DEF Apart
    <3>9. f[n] \in Seq(Records) /\ ToSet(f[n]) = ToSet(f[n - 1]) \cup ToSet(S[n]) /\ Distinct(f[n])
      <4> HIDE DEF Holds
      <4> QED BY <3>2, <3>5, <3>6, <3>8, Joined DEF Good
    <3>10. Holds(n)
      <4> TAKE x
      <4>1. x \in ToSet(f[n]) <=> x \in ToSet(f[n - 1]) \/ x \in ToSet(S[n])
        BY <3>9
      <4>2. x \in ToSet(f[n - 1]) <=> \E k \in 1 .. (n - 1) : x \in ToSet(S[k])
        BY <3>5 DEF Good
      <4> QED BY <3>7, <4>1, <4>2
    <3> QED BY <3>2, <3>9, <3>10 DEF Good
  <2>4. Good(Len(S))
    <3>1. Len(S) \in 1 .. Len(S)
      BY <1>0, <1>2
    <3> HIDE DEF Good
    <3> QED BY <2>3, <3>1
  <2> QED BY <1>0, <2>1, <2>4
<1> QED BY <1>1, <1>2

-----------------------------------------------------------------------------
(***************************************************************************)
(* The records of a report, in the order of their stamps.                  *)
(***************************************************************************)
Rises(s, T) ==
  /\ s \in [1 .. Cardinality(T) -> T]
  /\ \A i, j \in DOMAIN s : i < j => s[i] < s[j]

LEMMA RisingExists ==
  ASSUME NEW store \in SUBSET Nat, IsFiniteSet(store)
  PROVE  \E s : Rises(s, store)
<1> DEFINE Bad == {n \in Nat : \E T \in SUBSET Nat :
                     IsFiniteSet(T) /\ Cardinality(T) = n /\ ~ \E s : Rises(s, T)}
<1> SUFFICES ASSUME Bad # {} PROVE FALSE
  BY FS_CardinalityType
<1>1. PICK n \in Bad : \A k \in Bad : n <= k
  <2>1. Bad \in SUBSET Nat
    OBVIOUS
  <2> HIDE DEF Bad
  <2> QED BY <2>1, LeastMember
<1>2. PICK T \in SUBSET Nat : IsFiniteSet(T) /\ Cardinality(T) = n /\ ~ \E s : Rises(s, T)
  OBVIOUS
<1>3. T # {}
  <2> SUFFICES ASSUME T = {} PROVE FALSE
    OBVIOUS
  <2> DEFINE s == [i \in 1 .. 0 |-> 0]
  <2>1. Cardinality(T) = 0
    BY FS_EmptySet
  <2>2. s \in [1 .. 0 -> T] /\ DOMAIN s = {}
    OBVIOUS
  <2> HIDE DEF s
  <2>3. Rises(s, T)
    BY <2>1, <2>2 DEF Rises
  <2> QED BY <1>2, <2>3
<1>4. PICK m \in T : \A y \in T : m <= y
  BY <1>3, LeastMember
<1> DEFINE U == T \ {m}
<1>5. IsFiniteSet(U) /\ Cardinality(U) = n - 1 /\ n \in Nat /\ n - 1 \in Nat /\ U \in SUBSET Nat
  <2>1. IsFiniteSet(U) /\ Cardinality(U) = n - 1
    BY <1>2, FS_RemoveElement
  <2>2. Cardinality(U) \in Nat
    BY <2>1, FS_CardinalityType
  <2> QED BY <2>1, <2>2
<1>6. n - 1 \notin Bad
  <2> HIDE DEF Bad
  <2> QED BY <1>1, <1>5
<1>7. PICK t : Rises(t, U)
  <2> HIDE DEF U
  <2> QED BY <1>5, <1>6
<1> DEFINE s == [i \in 1 .. n |-> IF i = 1 THEN m ELSE t[i - 1]]
<1>8. /\ t \in [1 .. (n - 1) -> U]
      /\ \A i, j \in 1 .. (n - 1) : i < j => t[i] < t[j]
  BY <1>5, <1>7 DEF Rises
<1>9. /\ s \in [1 .. n -> T]
      /\ \A i \in 1 .. n : i # 1 => i - 1 \in 1 .. (n - 1) /\ s[i] = t[i - 1] /\ t[i - 1] \in U
      /\ 1 \in 1 .. n => s[1] = m
  BY <1>5, <1>8
<1>10. \A y \in U : m < y
  BY <1>4, <1>5
<1>11. ASSUME NEW i \in 1 .. n, NEW j \in 1 .. n, i < j PROVE s[i] < s[j]
  <2>1. j # 1
    BY <1>11, <1>5
  <2>2. s[j] = t[j - 1] /\ t[j - 1] \in U
    BY <1>9, <2>1
  <2>3. CASE i = 1
    <3>1. s[i] = m
      BY <1>9, <2>3
    <3> QED BY <1>10, <2>2, <3>1
  <2>4. CASE i # 1
    <3>1. s[i] = t[i - 1] /\ i - 1 \in 1 .. (n - 1) /\ j - 1 \in 1 .. (n - 1)
      BY <1>9, <2>1, <2>4
    <3>2. i - 1 < j - 1
      BY <1>11, <1>5
    <3> HIDE DEF s
    <3> QED BY <1>8, <2>2, <3>1, <3>2
  <2> QED BY <2>3, <2>4
<1>12. Rises(s, T)
  <2> HIDE DEF s
  <2> QED BY <1>2, <1>9, <1>11 DEF Rises
<1> QED BY <1>2, <1>12

LEMMA IncomingIsStore ==
  ASSUME NEW store \in SUBSET Records
  PROVE  /\ Incoming(store) \in Seq(Records) /\ Distinct(Incoming(store))
         /\ ToSet(Incoming(store)) = store
<1>1. store \in SUBSET Nat /\ IsFiniteSet(store)
  BY WorkerAssumption, FS_Subset
<1> DEFINE s == Incoming(store)
           n == Cardinality(store)
<1>2. Rises(s, store)
  <2>1. PICK t : Rises(t, store)
    BY <1>1, RisingExists
  <2> QED BY <2>1 DEF Incoming, Rises
<1>3. n \in Nat
  BY <1>1, FS_CardinalityType
<1>4. s \in [1 .. n -> store] /\ \A i, j \in 1 .. n : i < j => s[i] < s[j]
  BY <1>2 DEF Rises
<1> HIDE DEF s, n
<1>5. s \in Seq(Records) /\ DOMAIN s = 1 .. n
  <2>1. s \in [1 .. n -> Records]
    BY <1>4
  <2> QED BY <1>3, <2>1, SeqDef
<1>6. \A i, j \in 1 .. n : s[i] = s[j] => i = j
  <2> SUFFICES ASSUME NEW i \in 1 .. n, NEW j \in 1 .. n, s[i] = s[j], i # j PROVE FALSE
    OBVIOUS
  <2>1. i < j \/ j < i
    BY <1>3
  <2>2. s[i] \in Nat /\ s[j] \in Nat
    BY <1>1, <1>4
  <2> QED BY <1>4, <2>1, <2>2
<1>7. s \in Injection(1 .. n, store)
  BY <1>4, <1>6 DEF Injection, IsInjective
<1>8. Cardinality(1 .. n) = n
  BY <1>3, FS_Interval
<1>9. s \in Surjection(1 .. n, store)
  BY <1>1, <1>7, <1>8, FS_Injection DEF n
<1>10. ToSet(s) = store
  BY <1>4, <1>5, <1>9 DEF Surjection, ToSet
<1> QED BY <1>5, <1>6, <1>10 DEF s, Distinct

-----------------------------------------------------------------------------
(***************************************************************************)
(* The inductive invariant of EachRecordOnce.  The requests that a run has *)
(* not finished and its failed records are apart, and apart from those of  *)
(* every other run; a run that has ended holds nothing.  Each record is at *)
(* exactly one of eight places.                                            *)
(***************************************************************************)
\* The records of a list of requests, and those of a run.
Pending(T) == {x \in Records : \E k \in DOMAIN T : x \in ToSet(T[k])}
Load(T, F) == Pending(T) \cup ToSet(F)

RunOK(T, F) ==
  /\ Split(T, Pending(T))
  /\ F \in Seq(Records) /\ Distinct(F)
  /\ ToSet(F) \cap Pending(T) = {}
  /\ T = <<>> => F = <<>>

RunsOK(td, fl) ==
  /\ td = [r \in Runs |-> td[r]] /\ fl = [r \in Runs |-> fl[r]]
  /\ \A r \in Runs : RunOK(td[r], fl[r])
  /\ \A r, q \in Runs : r # q => Load(td[r], fl[r]) \cap Load(td[q], fl[q]) = {}

\* What the runs hold.
Out(td, fl) == {x \in Records : \E r \in Runs : x \in Load(td[r], fl[r])}

Kinds ==
  /\ fresh \in SUBSET Records /\ delivered \in SUBSET Records
  /\ parting \in SUBSET Records /\ cut \in SUBSET Records
  /\ givenUp \in SUBSET Records /\ ignored \in SUBSET Records

Flags ==
  /\ timer \in BOOLEAN /\ streak \in Nat /\ exhausted \in BOOLEAN
  /\ alive \in BOOLEAN /\ served \in BOOLEAN

BufferOK ==
  /\ buffer \in Seq(Records) /\ Distinct(buffer)
  /\ Len(buffer) <= MaxBuffer

Weight(b) == IF b THEN 1 ELSE 0

OnePlace(b, out) ==
  \A x \in Records :
    Weight(x \in fresh) + Weight(x \in delivered) + Weight(x \in parting) +
    Weight(x \in cut) + Weight(x \in givenUp) + Weight(x \in ignored) +
    Weight(x \in b) + Weight(x \in out) = 1

OnceInv ==
  /\ Kinds /\ Flags /\ BufferOK
  /\ RunsOK(todo, failed)
  /\ OnePlace(ToSet(buffer), Out(todo, failed))

-----------------------------------------------------------------------------
(***************************************************************************)
(* What the runs hold after one of them has changed.                       *)
(***************************************************************************)
LEMMA SplitPending ==
  ASSUME NEW T, NEW R, Split(T, R)
  PROVE  Pending(T) = R
<1>1. ASSUME NEW k \in DOMAIN T PROVE ToSet(T[k]) \subseteq Records
  <2>1. T[k] \in Seq(Records)
    BY DEF Split, Request
  <2> QED BY <2>1, NothingInIt
<1> QED BY <1>1 DEF Split, Pending

LEMMA EmptyRun == RunOK(<<>>, <<>>) /\ Load(<<>>, <<>>) = {}
<1>1. Pending(<<>>) = {}
  BY SplitNothing, SplitPending
<1>2. Split(<<>>, {})
  BY SplitNothing
<1>3. <<>> \in Seq(Records) /\ ToSet(<<>>) = {} /\ Distinct(<<>>)
  BY NothingInIt
<1> QED BY <1>1, <1>2, <1>3 DEF RunOK, Load

Changed(f2, f, r, v) == f2 = [f EXCEPT ![r] = v]

LEMMA RunChanges ==
  ASSUME NEW td, NEW fl, RunsOK(td, fl), NEW r \in Runs, NEW T, NEW F, RunOK(T, F),
         Load(T, F) \cap (Out(td, fl) \ Load(td[r], fl[r])) = {},
         NEW td2, NEW fl2,
         Changed(td2, td, r, T), Changed(fl2, fl, r, F)
  PROVE  /\ RunsOK(td2, fl2)
         /\ Out(td2, fl2) = (Out(td, fl) \ Load(td[r], fl[r])) \cup Load(T, F)
         /\ Load(td[r], fl[r]) \subseteq Out(td, fl)
<1>1. /\ td2 = [q \in Runs |-> td2[q]] /\ fl2 = [q \in Runs |-> fl2[q]]
      /\ td2[r] = T /\ fl2[r] = F
      /\ \A q \in Runs : q # r => td2[q] = td[q] /\ fl2[q] = fl[q]
  BY DEF RunsOK, Changed
<1> DEFINE L(q) == Load(td[q], fl[q])
           M(q) == Load(td2[q], fl2[q])
<1>2. \A q \in Runs : M(q) = IF q = r THEN Load(T, F) ELSE L(q)
  BY <1>1
<1>3. \A q \in Runs : RunOK(td2[q], fl2[q])
  BY <1>1 DEF RunsOK
<1>4. \A q \in Runs : L(q) \subseteq Records
  <2> SUFFICES ASSUME NEW q \in Runs PROVE Pending(td[q]) \subseteq Records /\ ToSet(fl[q]) \subseteq Records
    BY DEF Load
  <2>1. fl[q] \in Seq(Records)
    BY DEF RunsOK, RunOK
  <2> QED BY <2>1, NothingInIt DEF Pending
<1>5. Load(T, F) \subseteq Records
  <2>1. F \in Seq(Records)
    BY DEF RunOK
  <2> QED BY <2>1, NothingInIt DEF Pending, Load
<1>6. \A p, q \in Runs : p # q => L(p) \cap L(q) = {}
  BY DEF RunsOK
<1>7. /\ Out(td, fl) = {x \in Records : \E q \in Runs : x \in L(q)}
      /\ Out(td2, fl2) = {x \in Records : \E q \in Runs : x \in M(q)}
  BY DEF Out
<1> HIDE DEF L, M
<1>8. \A q \in Runs : q # r => L(q) \subseteq Out(td, fl) \ L(r)
  BY <1>4, <1>6, <1>7
<1>9. Load(T, F) \cap (Out(td, fl) \ L(r)) = {}
  BY DEF L
<1>10. \A p, q \in Runs : p # q => M(p) \cap M(q) = {}
  <2> SUFFICES ASSUME NEW p \in Runs, NEW q \in Runs, p # q PROVE M(p) \cap M(q) = {}
    OBVIOUS
  <2> QED BY <1>2, <1>6, <1>8, <1>9
<1>11. Out(td2, fl2) = (Out(td, fl) \ L(r)) \cup Load(T, F)
  <2>1. \A x \in Records : x \in Out(td2, fl2) <=> \E q \in Runs : x \in M(q)
    BY <1>7
  <2>2. ASSUME NEW x \in Records, NEW q \in Runs, x \in M(q)
        PROVE  x \in (Out(td, fl) \ L(r)) \cup Load(T, F)
    BY <1>2, <1>8, <2>2
  <2>3. ASSUME NEW x \in Load(T, F) PROVE x \in Out(td2, fl2)
    BY <1>2, <1>5, <2>1
  <2>4. ASSUME NEW x \in Out(td, fl) \ L(r) PROVE x \in Out(td2, fl2)
    <3>1. PICK q \in Runs : x \in L(q)
      BY <1>7
    <3> QED BY <1>2, <1>7, <2>1, <3>1
  <2>5. Out(td2, fl2) \subseteq Records
    BY <1>7
  <2> QED BY <2>1, <2>2, <2>3, <2>4, <2>5
<1>12. L(r) \subseteq Out(td, fl)
  BY <1>4, <1>7
<1> QED BY <1>1, <1>3, <1>10, <1>11, <1>12 DEF L, M, RunsOK

\* A run begins with records that no other run holds.
LEMMA RunBegins ==
  ASSUME RunsOK(todo, failed), NEW data \in Seq(Records), Distinct(data),
         ToSet(data) \cap Out(todo, failed) = {}, SendWithRetry(data)
  PROVE  RunsOK(todo', failed') /\ Out(todo', failed') = Out(todo, failed) \cup ToSet(data)
<1>1. PICK r \in Runs : ~Busy(r) /\ todo' = [todo EXCEPT ![r] = Requests(data)] /\ failed' = failed
  BY DEF SendWithRetry, FreeRuns
<1>2. RunOK(todo[r], failed[r]) /\ todo[r] = <<>> /\ failed = [q \in Runs |-> failed[q]]
  BY <1>1 DEF Busy, RunsOK
<1>3. failed[r] = <<>>
  BY <1>2 DEF RunOK
<1>4. failed' = [failed EXCEPT ![r] = <<>>]
  BY <1>1, <1>2, <1>3
<1>5. Load(todo[r], failed[r]) = {}
  BY <1>2, <1>3, EmptyRun
<1>6. Split(Requests(data), ToSet(data))
  BY RequestsSplit
<1>7. Pending(Requests(data)) = ToSet(data)
  BY <1>6, SplitPending
<1>8. <<>> \in Seq(Records) /\ ToSet(<<>>) = {} /\ Distinct(<<>>)
  BY NothingInIt
<1>9. RunOK(Requests(data), <<>>) /\ Load(Requests(data), <<>>) = ToSet(data)
  BY <1>6, <1>7, <1>8 DEF RunOK, Load
<1> DEFINE T == Requests(data)
           td2 == todo'
           fl2 == failed'
           F == <<>>
<1>10. Load(T, F) \cap (Out(todo, failed) \ Load(todo[r], failed[r])) = {}
  BY <1>9
<1>11. RunOK(T, F) /\ Changed(td2, todo, r, T) /\ Changed(fl2, failed, r, F)
  BY <1>1, <1>4, <1>9 DEF Changed
<1> HIDE DEF T, td2, fl2, F
<1>12. /\ RunsOK(td2, fl2)
       /\ Out(td2, fl2) = (Out(todo, failed) \ Load(todo[r], failed[r])) \cup Load(T, F)
  BY <1>10, <1>11, RunChanges
<1>13. Load(T, F) = ToSet(data)
  BY <1>9 DEF T, F
<1> QED BY <1>5, <1>12, <1>13 DEF td2, fl2

-----------------------------------------------------------------------------
LEMMA OnceInit == Init => OnceInv
<1> SUFFICES ASSUME Init PROVE OnceInv
  OBVIOUS
<1>1. Kinds /\ Flags
  BY DEF Init, Kinds, Flags
<1>2. BufferOK
  <2>1. Len(<<>>) = 0 /\ 0 <= MaxBuffer
    BY WorkerAssumption
  <2> QED BY <2>1, NothingInIt DEF Init, BufferOK
<1>3. \A r \in Runs : todo[r] = <<>> /\ failed[r] = <<>>
  BY DEF Init
<1>4. \A r \in Runs : Load(todo[r], failed[r]) = {} /\ RunOK(todo[r], failed[r])
  BY <1>3, EmptyRun
<1>5. RunsOK(todo, failed)
  <2>1. todo = [r \in Runs |-> todo[r]] /\ failed = [r \in Runs |-> failed[r]]
    BY DEF Init
  <2> QED BY <1>4, <2>1 DEF RunsOK
<1>6. Out(todo, failed) = {}
  BY <1>4 DEF Out
<1>7. OnePlace(ToSet(buffer), Out(todo, failed))
  <2>1. ToSet(buffer) = {}
    BY NothingInIt DEF Init
  <2> QED BY <1>6, <2>1 DEF Init, OnePlace, Weight
<1> QED BY <1>1, <1>2, <1>5, <1>7 DEF OnceInv

\* What is handed over has not been anywhere else.
LEMMA DataOfReport ==
  ASSUME OnceInv, NEW store \in SUBSET fresh
  PROVE  LET data == buffer \o Incoming(store)
         IN  /\ data \in Seq(Records) /\ Distinct(data)
             /\ ToSet(data) = ToSet(buffer) \cup store
             /\ ToSet(data) \cap Out(todo, failed) = {}
             /\ ToSet(buffer) \subseteq Records /\ store \subseteq Records
<1>1. store \in SUBSET Records /\ buffer \in Seq(Records) /\ Distinct(buffer)
  BY DEF OnceInv, Kinds, BufferOK
<1>2. /\ Incoming(store) \in Seq(Records) /\ Distinct(Incoming(store))
      /\ ToSet(Incoming(store)) = store
  BY <1>1, IncomingIsStore
<1>3. ToSet(buffer) \subseteq Records
  BY <1>1, NothingInIt
<1>4. \A x \in Records : /\ x \in fresh => x \notin ToSet(buffer) /\ x \notin Out(todo, failed)
                         /\ x \in ToSet(buffer) => x \notin Out(todo, failed)
  <2> TAKE x \in Records
  <2> QED BY DEF OnceInv, OnePlace, Weight
<1>5. ToSet(buffer) \cap ToSet(Incoming(store)) = {}
  BY <1>1, <1>2, <1>3, <1>4
<1>6. /\ buffer \o Incoming(store) \in Seq(Records) /\ Distinct(buffer \o Incoming(store))
      /\ ToSet(buffer \o Incoming(store)) = ToSet(buffer) \cup store
  BY <1>1, <1>2, <1>5, Joined
<1> QED BY <1>1, <1>3, <1>4, <1>6

LEMMA EmptyBuffer == buffer' = <<>> => BufferOK' /\ ToSet(buffer)' = {}
<1> SUFFICES ASSUME buffer' = <<>> PROVE BufferOK' /\ ToSet(buffer)' = {}
  OBVIOUS
<1>1. Len(<<>>) = 0 /\ 0 <= MaxBuffer
  BY WorkerAssumption
<1>2. <<>> \in Seq(Records) /\ ToSet(<<>>) = {} /\ Distinct(<<>>)
  BY NothingInIt
<1> QED BY <1>1, <1>2 DEF BufferOK

LEMMA OnceReport ==
  ASSUME OnceInv, NEW store \in SUBSET fresh, NEW keepalive \in BOOLEAN, Report(store, keepalive)
  PROVE  OnceInv'
<1> DEFINE data == buffer \o Incoming(store)
<1>1. /\ data \in Seq(Records) /\ Distinct(data)
      /\ ToSet(data) = ToSet(buffer) \cup store
      /\ ToSet(data) \cap Out(todo, failed) = {}
      /\ ToSet(buffer) \subseteq Records /\ store \subseteq Records
  BY DataOfReport
<1>2. /\ fresh' = fresh \ store /\ delivered' = delivered /\ cut' = cut /\ givenUp' = givenUp
      /\ Flags'
  BY DEF Report, OnceInv, Flags
<1>3. /\ \A x \in Records :
           Weight(x \in fresh) + Weight(x \in delivered) + Weight(x \in parting) +
           Weight(x \in cut) + Weight(x \in givenUp) + Weight(x \in ignored) +
           Weight(x \in ToSet(buffer)) + Weight(x \in Out(todo, failed)) = 1
      /\ Kinds
  BY DEF OnceInv, OnePlace
<1>4. CASE exhausted
  <2>1. ignored' = ignored \cup store /\ buffer' = buffer /\ todo' = todo /\ failed' = failed
        /\ parting' = parting
    BY <1>4 DEF Report, runs
  <2>2. Kinds'
    BY <1>1, <1>2, <1>3, <2>1 DEF Kinds
  <2>3. OnePlace(ToSet(buffer), Out(todo, failed))'
    <3>1. ToSet(buffer') = ToSet(buffer) /\ Out(todo', failed') = Out(todo, failed)
      BY <2>1
    <3> QED BY <1>1, <1>2, <1>3, <2>1, <3>1 DEF OnePlace, Weight
  <2> QED BY <1>2, <2>1, <2>2, <2>3 DEF OnceInv, BufferOK
<1>5. CASE ~exhausted /\ keepalive
  <2>1. ignored' = ignored /\ buffer' = <<>> /\ todo' = todo /\ failed' = failed
        /\ parting' = parting \cup ToSet(data)
    BY <1>5 DEF Report, runs
  <2>2. Kinds'
    BY <1>1, <1>2, <1>3, <2>1 DEF Kinds
  <2>3. OnePlace(ToSet(buffer), Out(todo, failed))'
    <3>1. ToSet(buffer') = {} /\ Out(todo', failed') = Out(todo, failed)
      BY <2>1, EmptyBuffer
    <3> HIDE DEF data
    <3> QED BY <1>1, <1>2, <1>3, <2>1, <3>1 DEF OnePlace, Weight
  <2> QED BY <1>2, <2>1, <2>2, <2>3, EmptyBuffer DEF OnceInv
<1>6. CASE ~exhausted /\ ~keepalive
  <2>1. ignored' = ignored /\ buffer' = <<>> /\ SendWithRetry(data) /\ parting' = parting
    BY <1>6 DEF Report
  <2>2. Kinds'
    BY <1>1, <1>2, <1>3, <2>1 DEF Kinds
  <2>3. RunsOK(todo', failed') /\ Out(todo', failed') = Out(todo, failed) \cup ToSet(data)
    <3> HIDE DEF data
    <3> QED BY <1>1, <2>1, RunBegins DEF OnceInv
  <2>4. OnePlace(ToSet(buffer), Out(todo, failed))'
    <3>1. ToSet(buffer') = {}
      BY <2>1, EmptyBuffer
    <3> HIDE DEF data
    <3> QED BY <1>1, <1>2, <1>3, <2>1, <2>3, <3>1 DEF OnePlace, Weight
  <2> QED BY <1>2, <2>1, <2>2, <2>3, <2>4, EmptyBuffer DEF OnceInv
<1> QED BY <1>4, <1>5, <1>6

LEMMA OnceRetryTimer ==
  ASSUME OnceInv, RetryTimer
  PROVE  OnceInv'
<1>1. /\ fresh' = fresh /\ delivered' = delivered /\ cut' = cut /\ givenUp' = givenUp
      /\ parting' = parting /\ ignored' = ignored
      /\ Flags'
  BY DEF RetryTimer, OnceInv, Flags, fate
<1>2. Kinds'
  BY <1>1 DEF Kinds, OnceInv
<1>3. CASE buffer = <<>>
  <2>1. buffer' = buffer /\ todo' = todo /\ failed' = failed
    BY <1>3 DEF RetryTimer, runs
  <2>2. OnePlace(ToSet(buffer), Out(todo, failed))'
    BY <1>1, <2>1 DEF OnceInv, OnePlace
  <2> QED BY <1>1, <1>2, <2>1, <2>2 DEF OnceInv, BufferOK
<1>4. CASE buffer # <<>>
  <2>1. buffer' = <<>> /\ SendWithRetry(buffer)
    BY <1>4 DEF RetryTimer
  <2>2. buffer \in Seq(Records) /\ Distinct(buffer)
    BY DEF OnceInv, BufferOK
  <2>3. ToSet(buffer) \subseteq Records
    BY <2>2, NothingInIt
  <2>4. ToSet(buffer) \cap Out(todo, failed) = {}
    BY <2>3 DEF OnceInv, OnePlace, Weight
  <2>5. RunsOK(todo', failed') /\ Out(todo', failed') = Out(todo, failed) \cup ToSet(buffer)
    BY <2>1, <2>2, <2>4, RunBegins DEF OnceInv
  <2>6. OnePlace(ToSet(buffer), Out(todo, failed))'
    <3>1. ToSet(buffer') = {}
      BY <2>1, EmptyBuffer
    <3> QED BY <1>1, <2>5, <3>1 DEF OnceInv, OnePlace, Weight
  <2> QED BY <1>1, <1>2, <2>1, <2>5, <2>6, EmptyBuffer DEF OnceInv
<1> QED BY <1>3, <1>4

-----------------------------------------------------------------------------
(***************************************************************************)
(* A request ends.                                                         *)
(***************************************************************************)
\* The head of a run is its own, and what it holds shrinks by it.
LEMMA HeadOfRun ==
  ASSUME OnceInv, NEW r \in Runs, Busy(r)
  PROVE  LET h == Head(todo[r])
             P == Pending(todo[r])
         IN  /\ Split(Tail(todo[r]), P \ ToSet(h)) /\ Pending(Tail(todo[r])) = P \ ToSet(h)
             /\ h \in Seq(Records) /\ h # <<>> /\ Distinct(h) /\ ToSet(h) \subseteq P
             /\ failed[r] \in Seq(Records) /\ Distinct(failed[r])
             /\ ToSet(failed[r]) \cap P = {}
             /\ P \subseteq Records /\ ToSet(failed[r]) \subseteq Records
             /\ Load(todo[r], failed[r]) \subseteq Out(todo, failed)
<1> DEFINE T == todo[r]
           F == failed[r]
<1>1. RunOK(T, F)
  BY DEF OnceInv, RunsOK
<1>2. T # <<>>
  BY DEF Busy
<1> HIDE DEF T, F
<1>3. /\ Split(Tail(T), Pending(T) \ ToSet(Head(T)))
      /\ Head(T) \in Request /\ Distinct(Head(T)) /\ ToSet(Head(T)) \subseteq Pending(T)
  BY <1>1, <1>2, SplitTail DEF RunOK
<1>4. Pending(Tail(T)) = Pending(T) \ ToSet(Head(T))
  BY <1>3, SplitPending
<1>5. ToSet(F) \subseteq Records /\ Pending(T) \subseteq Records
  <2>1. F \in Seq(Records)
    BY <1>1 DEF RunOK
  <2> QED BY <2>1, NothingInIt DEF Pending
<1>6. Load(T, F) \subseteq Out(todo, failed)
  BY <1>5 DEF Load, Out, T, F
<1> QED BY <1>1, <1>3, <1>4, <1>5, <1>6 DEF RunOK, T, F, Request

\* The run goes on, or ends and holds nothing.
LEMMA RunAfterRequest ==
  ASSUME OnceInv, NEW r \in Runs, NEW success \in BOOLEAN, RequestEnds(r, success)
  PROVE  LET h == Head(todo[r])
             rest == IF success THEN failed[r] ELSE failed[r] \o h
             last == Tail(todo[r]) = <<>>
         IN  /\ rest \in Seq(Records) /\ Distinct(rest)
             /\ ToSet(rest) = ToSet(failed[r]) \cup (IF success THEN {} ELSE ToSet(h))
             /\ RunsOK(todo', failed')
             /\ Out(todo', failed') =
                  IF last THEN Out(todo, failed) \ (ToSet(h) \cup ToSet(rest))
                  ELSE IF success THEN Out(todo, failed) \ ToSet(h) ELSE Out(todo, failed)
<1> DEFINE h == Head(todo[r])
           P == Pending(todo[r])
           rest == IF success THEN failed[r] ELSE failed[r] \o h
           last == Tail(todo[r]) = <<>>
           T == Tail(todo[r])
           F == IF last THEN <<>> ELSE rest
           td2 == todo'
           fl2 == failed'
<1>1. Busy(r)
  BY DEF RequestEnds
<1>2. /\ Split(T, P \ ToSet(h)) /\ Pending(T) = P \ ToSet(h)
      /\ h \in Seq(Records) /\ Distinct(h) /\ ToSet(h) \subseteq P
      /\ failed[r] \in Seq(Records) /\ Distinct(failed[r])
      /\ ToSet(failed[r]) \cap P = {}
      /\ P \subseteq Records /\ ToSet(failed[r]) \subseteq Records
      /\ Load(todo[r], failed[r]) \subseteq Out(todo, failed)
  BY <1>1, HeadOfRun
<1>3. Changed(td2, todo, r, T) /\ Changed(fl2, failed, r, F)
  BY DEF RequestEnds, Changed
<1> HIDE DEF h, P, T
<1>4. /\ rest \in Seq(Records) /\ Distinct(rest)
      /\ ToSet(rest) = ToSet(failed[r]) \cup (IF success THEN {} ELSE ToSet(h))
  <2>1. CASE success
    BY <1>2, <2>1
  <2>2. CASE ~success
    <3>1. ToSet(failed[r]) \cap ToSet(h) = {}
      BY <1>2
    <3>2. /\ failed[r] \o h \in Seq(Records) /\ Distinct(failed[r] \o h)
          /\ ToSet(failed[r] \o h) = ToSet(failed[r]) \cup ToSet(h)
      BY <1>2, <3>1, Joined
    <3> QED BY <2>2, <3>2
  <2> QED BY <2>1, <2>2
<1>5. Load(todo[r], failed[r]) = P \cup ToSet(failed[r])
  BY DEF Load, P
<1> HIDE DEF rest
<1>6. last => P = ToSet(h)
  <2> SUFFICES ASSUME last PROVE P = ToSet(h)
    OBVIOUS
  <2>1. Split(<<>>, P \ ToSet(h))
    BY <1>2 DEF T
  <2>2. P \ ToSet(h) = {}
    BY <2>1, SplitNothing
  <2> QED BY <1>2, <2>2
<1>7. RunOK(T, F) /\ Load(T, F) = IF last THEN {} ELSE (P \ ToSet(h)) \cup ToSet(rest)
  <2>1. CASE last
    <3>1. T = <<>> /\ F = <<>>
      BY <2>1 DEF T
    <3> HIDE DEF F, last
    <3>2. RunOK(T, F) /\ Load(T, F) = {}
      BY <3>1, EmptyRun
    <3> QED BY <2>1, <3>2
  <2>2. CASE ~last
    <3>1. T # <<>> /\ F = rest
      BY <2>2 DEF T
    <3> HIDE DEF F, last
    <3>2. Load(T, F) = (P \ ToSet(h)) \cup ToSet(rest)
      BY <1>2, <3>1 DEF Load
    <3>3. ToSet(rest) \cap (P \ ToSet(h)) = {}
      BY <1>2, <1>4
    <3>4. RunOK(T, F)
      BY <1>2, <1>4, <3>1, <3>3 DEF RunOK
    <3> QED BY <2>2, <3>2, <3>4
  <2> QED BY <2>1, <2>2
<1>8. Load(T, F) \cap (Out(todo, failed) \ Load(todo[r], failed[r])) = {}
  BY <1>2, <1>4, <1>5, <1>7
<1> HIDE DEF F, td2, fl2, last
<1>9. /\ RunsOK(td2, fl2)
      /\ Out(td2, fl2) = (Out(todo, failed) \ Load(todo[r], failed[r])) \cup Load(T, F)
  BY <1>3, <1>7, <1>8, RunChanges DEF OnceInv
<1>10. Out(td2, fl2) = IF last THEN Out(todo, failed) \ (ToSet(h) \cup ToSet(rest))
                       ELSE IF success THEN Out(todo, failed) \ ToSet(h) ELSE Out(todo, failed)
  <2>1. CASE last
    <3>1. Load(todo[r], failed[r]) = ToSet(h) \cup ToSet(rest)
      BY <1>4, <1>5, <1>6, <2>1
    <3> QED BY <1>7, <1>9, <2>1, <3>1
  <2>2. CASE ~last /\ success
    BY <1>2, <1>4, <1>5, <1>7, <1>9, <2>2
  <2>3. CASE ~last /\ ~success
    BY <1>2, <1>4, <1>5, <1>7, <1>9, <2>3
  <2> QED BY <2>1, <2>2, <2>3
<1> QED BY <1>4, <1>9, <1>10 DEF h, rest, last, td2, fl2

\* What a failed run hands back: it is kept as far as there is room.
LEMMA BufferAfterFailure ==
  ASSUME OnceInv, NEW rest \in Seq(Records), Distinct(rest), rest # <<>>,
         ToSet(rest) \cap ToSet(buffer) = {}, HandleSendResult(rest)
  PROVE  \E kept, over \in SUBSET Records :
           /\ kept \cup over = ToSet(rest) \cup ToSet(buffer) /\ kept \cap over = {}
           /\ cut' = cut \cup over /\ served' = served /\ streak' = streak + 1
           /\ BufferOK'
           /\ \/ /\ exhausted' = TRUE /\ timer' = FALSE
                 /\ ToSet(buffer') = {} /\ givenUp' = givenUp \cup kept
              \/ /\ timer' = TRUE /\ exhausted' = exhausted
                 /\ ToSet(buffer') = kept /\ givenUp' = givenUp
<1> DEFINE waiting == rest \o buffer
           n == Room(waiting)
           a == SubSeq(waiting, 1, n)
           b == SubSeq(waiting, n + 1, Len(waiting))
<1>1. buffer \in Seq(Records) /\ Distinct(buffer)
  BY DEF OnceInv, BufferOK
<1>2. /\ waiting \in Seq(Records) /\ Distinct(waiting)
      /\ ToSet(waiting) = ToSet(rest) \cup ToSet(buffer)
  BY <1>1, Joined
<1> HIDE DEF waiting
<1>3. Len(waiting) \in Nat
  BY <1>2
<1>4. n \in 0 .. Len(waiting) /\ n <= MaxBuffer
  BY <1>3, WorkerAssumption DEF Room
<1> HIDE DEF n
<1>5. /\ a \in Seq(Records) /\ Distinct(a) /\ Len(a) = n
      /\ ToSet(a) \cup ToSet(b) = ToSet(waiting) /\ ToSet(a) \cap ToSet(b) = {}
  BY <1>2, <1>4, CutInTwo
<1>6. ToSet(a) \subseteq Records /\ ToSet(b) \subseteq Records
  <2>1. ToSet(waiting) \subseteq Records
    BY <1>2, NothingInIt
  <2> QED BY <1>5, <2>1
<1>7. Failed(rest)
  BY DEF HandleSendResult
<1>8. /\ streak' = streak + 1 /\ cut' = cut \cup ToSet(b) /\ served' = served
      /\ IF streak' > MaxRetry
         THEN exhausted' = TRUE /\ buffer' = <<>> /\ timer' = FALSE /\ givenUp' = givenUp \cup ToSet(a)
         ELSE buffer' = a /\ timer' = TRUE /\ exhausted' = exhausted /\ givenUp' = givenUp
  BY <1>7 DEF Failed, ScheduleRetry, a, b, n, waiting
<1> HIDE DEF a, b
<1>9. CASE streak' > MaxRetry
  <2>1. BufferOK' /\ ToSet(buffer') = {}
    BY <1>8, <1>9, EmptyBuffer
  <2> QED BY <1>2, <1>5, <1>6, <1>8, <1>9, <2>1
<1>10. CASE ~(streak' > MaxRetry)
  <2>1. buffer' = a
    BY <1>8, <1>10
  <2>2. BufferOK' /\ ToSet(buffer') = ToSet(a)
    BY <1>4, <1>5, <2>1 DEF BufferOK
  <2> QED BY <1>2, <1>5, <1>6, <1>8, <1>10, <2>2
<1> QED BY <1>9, <1>10

LEMMA OnceRequestEnds ==
  ASSUME OnceInv, NEW r \in Runs, NEW success \in BOOLEAN, RequestEnds(r, success)
  PROVE  OnceInv'
<1> DEFINE h == Head(todo[r])
           rest == IF success THEN failed[r] ELSE failed[r] \o h
           last == Tail(todo[r]) = <<>>
           H == ToSet(h)
           F == ToSet(failed[r])
           O == Out(todo, failed)
           B == ToSet(buffer)
<1>1. /\ rest \in Seq(Records) /\ Distinct(rest)
      /\ ToSet(rest) = F \cup (IF success THEN {} ELSE H)
      /\ RunsOK(todo', failed')
      /\ Out(todo', failed') =
           IF last THEN O \ (H \cup ToSet(rest))
           ELSE IF success THEN O \ H ELSE O
  BY RunAfterRequest
<1>2. H \cap F = {} /\ H \subseteq O /\ F \subseteq O /\ H \subseteq Records /\ F \subseteq Records
  <2>1. Busy(r)
    BY DEF RequestEnds
  <2> QED BY <2>1, HeadOfRun DEF Load
<1>3. /\ fresh' = fresh /\ alive' = alive /\ parting' = parting /\ ignored' = ignored
      /\ delivered' = IF success THEN delivered \cup H ELSE delivered
      /\ last => HandleSendResult(rest)
      /\ ~last => /\ buffer' = buffer /\ timer' = timer /\ streak' = streak
                  /\ exhausted' = exhausted /\ cut' = cut /\ givenUp' = givenUp
                  /\ served' = served
  BY DEF RequestEnds
<1>4. B \subseteq Records
  <2>1. buffer \in Seq(Records)
    BY DEF OnceInv, BufferOK
  <2> QED BY <2>1, NothingInIt
<1>5. \A x \in Records :
        Weight(x \in fresh) + Weight(x \in delivered) + Weight(x \in parting) +
        Weight(x \in cut) + Weight(x \in givenUp) + Weight(x \in ignored) +
        Weight(x \in B) + Weight(x \in O) = 1
  BY DEF OnceInv, OnePlace
<1>6. Kinds /\ Flags /\ BufferOK
  BY DEF OnceInv
<1> HIDE DEF h, rest, last, H, F, O, B
<1>7. CASE ~last
  <2>1. Kinds' /\ Flags'
    BY <1>2, <1>3, <1>6, <1>7 DEF Kinds, Flags
  <2>2. BufferOK' /\ ToSet(buffer') = B
    BY <1>3, <1>6, <1>7 DEF BufferOK, B
  <2>3. Out(todo', failed') = IF success THEN O \ H ELSE O
    BY <1>1, <1>7
  <2>4. OnePlace(ToSet(buffer), Out(todo, failed))'
    BY <1>2, <1>3, <1>5, <1>7, <2>2, <2>3 DEF OnePlace, Weight
  <2> QED BY <1>1, <2>1, <2>2, <2>4 DEF OnceInv
<1>8. CASE last /\ rest = <<>>
  <2>1. Succeeded
    BY <1>3, <1>8 DEF HandleSendResult
  <2>2. Kinds' /\ Flags'
    BY <1>2, <1>3, <1>6, <2>1 DEF Succeeded, Kinds, Flags
  <2>3. BufferOK' /\ ToSet(buffer') = B /\ cut' = cut /\ givenUp' = givenUp
    BY <1>6, <2>1 DEF Succeeded, BufferOK, B
  <2>4. ToSet(rest) = {}
    BY <1>8, NothingInIt
  <2>5. Out(todo', failed') = O \ H
    BY <1>1, <1>8, <2>4
  <2>6. ~success => H = {}
    BY <1>1, <2>4
  <2>7. OnePlace(ToSet(buffer), Out(todo, failed))'
    BY <1>2, <1>3, <1>5, <2>3, <2>5, <2>6 DEF OnePlace, Weight
  <2> QED BY <1>1, <2>2, <2>3, <2>7 DEF OnceInv
<1>9. CASE last /\ rest # <<>>
  <2>1. ToSet(rest) \cap ToSet(buffer) = {}
    <3>1. \A x \in Records : x \in O => x \notin B
      BY <1>5 DEF Weight
    <3>2. ToSet(rest) \subseteq O /\ ToSet(rest) \subseteq Records
      BY <1>1, <1>2
    <3> QED BY <3>1, <3>2 DEF B
  <2>2. HandleSendResult(rest)
    BY <1>3, <1>9
  <2>3. PICK kept \in SUBSET Records, over \in SUBSET Records :
           /\ kept \cup over = ToSet(rest) \cup ToSet(buffer) /\ kept \cap over = {}
           /\ cut' = cut \cup over /\ served' = served /\ streak' = streak + 1
           /\ BufferOK'
           /\ \/ /\ exhausted' = TRUE /\ timer' = FALSE
                 /\ ToSet(buffer') = {} /\ givenUp' = givenUp \cup kept
              \/ /\ timer' = TRUE /\ exhausted' = exhausted
                 /\ ToSet(buffer') = kept /\ givenUp' = givenUp
    BY <1>1, <1>9, <2>1, <2>2, BufferAfterFailure
  <2>4. Kinds'
    BY <1>2, <1>3, <1>6, <2>3 DEF Kinds
  <2>5. Flags'
    <3>1. timer' \in BOOLEAN /\ (exhausted' = TRUE \/ exhausted' = exhausted) /\ streak' = streak + 1
          /\ served' = served /\ alive' = alive
      BY <1>3, <2>3
    <3>2. exhausted \in BOOLEAN /\ streak \in Nat /\ alive \in BOOLEAN /\ served \in BOOLEAN
      BY <1>6 DEF Flags
    <3>3. exhausted' \in BOOLEAN
      <4>1. CASE exhausted' = TRUE
        BY <4>1
      <4>2. CASE exhausted' = exhausted
        BY <3>2, <4>2
      <4> QED BY <3>1, <4>1, <4>2
    <3>4. streak' \in Nat
      <4>1. streak' = streak + 1
        BY <3>1
      <4> QED BY <3>2, <4>1
    <3>5. alive' \in BOOLEAN /\ served' \in BOOLEAN
      BY <3>1, <3>2
    <3> QED BY <3>1, <3>3, <3>4, <3>5 DEF Flags
  <2>6. Out(todo', failed') = O \ (H \cup ToSet(rest))
    BY <1>1, <1>9
  <2>7. kept \cup over = ToSet(rest) \cup B
    BY <2>3 DEF B
  <2>8. OnePlace(ToSet(buffer), Out(todo, failed))'
    BY <1>1, <1>2, <1>3, <1>5, <2>3, <2>6, <2>7 DEF OnePlace, Weight
  <2> QED BY <1>1, <2>3, <2>4, <2>5, <2>8 DEF OnceInv
<1> QED BY <1>7, <1>8, <1>9

LEMMA OnceUnchanged ==
  ASSUME OnceInv, UNCHANGED <<fresh, buffer, timer, streak, exhausted, runs, fate>>,
         alive' \in BOOLEAN
  PROVE  OnceInv'
<1>1. Kinds' /\ Flags' /\ BufferOK' /\ RunsOK(todo', failed')
  BY DEF OnceInv, Kinds, Flags, BufferOK, runs, fate
<1>2. OnePlace(ToSet(buffer), Out(todo, failed))'
  BY DEF OnceInv, OnePlace, runs, fate
<1> QED BY <1>1, <1>2 DEF OnceInv

LEMMA OnceNext ==
  ASSUME OnceInv, [Next]_vars
  PROVE  OnceInv'
<1>1. CASE \E store \in SUBSET fresh \ {{}}, keepalive \in BOOLEAN : Report(store, keepalive)
  <2>1. PICK store \in SUBSET fresh, keepalive \in BOOLEAN : Report(store, keepalive)
    BY <1>1
  <2> QED BY <2>1, OnceReport
<1>2. CASE \E r \in Runs, success \in BOOLEAN : RequestEnds(r, success)
  <2>1. PICK r \in Runs, success \in BOOLEAN : RequestEnds(r, success)
    BY <1>2
  <2> QED BY <2>1, OnceRequestEnds
<1>3. CASE RetryTimer
  BY <1>3, OnceRetryTimer
<1>4. CASE Terminate
  BY <1>4, OnceUnchanged DEF Terminate
<1>5. CASE UNCHANGED vars
  BY <1>5, OnceUnchanged DEF vars, OnceInv, Flags
<1> QED BY <1>1, <1>2, <1>3, <1>4, <1>5 DEF Next

-----------------------------------------------------------------------------
\* What the worker holds, as one list: nothing is in it twice.
LEMMA HeldIsDistinct ==
  ASSUME OnceInv
  PROVE  /\ Held \in Seq(Records) /\ Distinct(Held)
         /\ ToSet(Held) = ToSet(buffer) \cup Out(todo, failed)
<1> DEFINE part(r) == FlattenSeq(todo[r]) \o failed[r]
           S == [r \in Runs |-> part(r)]
<1>1. ASSUME NEW r \in Runs
      PROVE  part(r) \in Seq(Records) /\ Distinct(part(r)) /\ ToSet(part(r)) = Load(todo[r], failed[r])
  <2> DEFINE T == todo[r]
             F == failed[r]
  <2>1. RunOK(T, F)
    BY DEF OnceInv, RunsOK
  <2> HIDE DEF T, F
  <2>2. Apart(T)
    <3>1. T \in Seq(Request)
      BY <2>1 DEF RunOK, Split
    <3>2. T \in Seq(Seq(Records))
      BY <3>1 DEF Request
    <3> QED BY <2>1, <3>2 DEF RunOK, Split, Apart
  <2>3. /\ FlattenSeq(T) \in Seq(Records) /\ Distinct(FlattenSeq(T))
        /\ \A x : x \in ToSet(FlattenSeq(T)) <=> \E k \in DOMAIN T : x \in ToSet(T[k])
    BY <2>2, Flattened
  <2>4. ToSet(FlattenSeq(T)) \subseteq Records
    BY <2>3, NothingInIt
  <2>5. ToSet(FlattenSeq(T)) = Pending(T)
    BY <2>3, <2>4 DEF Pending
  <2>6. F \in Seq(Records) /\ Distinct(F) /\ ToSet(FlattenSeq(T)) \cap ToSet(F) = {}
    BY <2>1, <2>5 DEF RunOK
  <2>7. /\ FlattenSeq(T) \o F \in Seq(Records) /\ Distinct(FlattenSeq(T) \o F)
        /\ ToSet(FlattenSeq(T) \o F) = ToSet(FlattenSeq(T)) \cup ToSet(F)
    BY <2>3, <2>6, Joined
  <2> QED BY <2>5, <2>7 DEF T, F, Load
<1>2. DOMAIN S = Runs /\ \A r \in Runs : S[r] = part(r)
  OBVIOUS
<1> HIDE DEF part
<1>3. S \in Seq(Seq(Records))
  <2>1. S \in [1 .. MaxRuns -> Seq(Records)] /\ MaxRuns \in Nat
    BY <1>1, WorkerAssumption DEF Runs
  <2> DEFINE R == Seq(Records)
  <2>2. S \in [1 .. MaxRuns -> R]
    BY <2>1
  <2> HIDE DEF S, R
  <2>3. S \in Seq(R)
    BY <2>1, <2>2, SeqDef
  <2> QED BY <2>3 DEF R
<1> HIDE DEF S
<1>4. Apart(S)
  <2>1. \A r, q \in Runs : r # q => Load(todo[r], failed[r]) \cap Load(todo[q], failed[q]) = {}
    BY DEF OnceInv, RunsOK
  <2>2. ASSUME NEW r \in Runs PROVE Distinct(S[r]) /\ ToSet(S[r]) = Load(todo[r], failed[r])
    <3>1. S[r] = part(r)
      BY <1>2
    <3> QED BY <1>1, <3>1
  <2>3. ASSUME NEW r \in Runs, NEW q \in Runs, r # q PROVE ToSet(S[r]) \cap ToSet(S[q]) = {}
    <3>1. Load(todo[r], failed[r]) \cap Load(todo[q], failed[q]) = {}
      BY <2>1, <2>3
    <3> QED BY <2>2, <3>1
  <2> QED BY <1>2, <1>3, <2>2, <2>3 DEF Apart
<1>5. /\ FlattenSeq(S) \in Seq(Records) /\ Distinct(FlattenSeq(S))
      /\ \A x : x \in ToSet(FlattenSeq(S)) <=> \E k \in DOMAIN S : x \in ToSet(S[k])
  BY <1>4, Flattened
<1>6. ToSet(FlattenSeq(S)) = Out(todo, failed)
  <2>1. ToSet(FlattenSeq(S)) \subseteq Records
    BY <1>5, NothingInIt
  <2>2. \A k \in Runs : ToSet(S[k]) = Load(todo[k], failed[k])
    BY <1>1, <1>2
  <2> QED BY <1>2, <1>5, <2>1, <2>2 DEF Out
<1>7. buffer \in Seq(Records) /\ Distinct(buffer)
  BY DEF OnceInv, BufferOK
<1>8. ToSet(buffer) \cap ToSet(FlattenSeq(S)) = {}
  <2>1. ToSet(buffer) \subseteq Records
    BY <1>7, NothingInIt
  <2> QED BY <1>6, <2>1 DEF OnceInv, OnePlace, Weight
<1>9. /\ buffer \o FlattenSeq(S) \in Seq(Records) /\ Distinct(buffer \o FlattenSeq(S))
      /\ ToSet(buffer \o FlattenSeq(S)) = ToSet(buffer) \cup ToSet(FlattenSeq(S))
  BY <1>5, <1>7, <1>8, Joined
<1> QED BY <1>6, <1>9 DEF Held, S, part

LEMMA OnceTypes == OnceInv => TypeOK
<1> SUFFICES ASSUME OnceInv PROVE TypeOK
  OBVIOUS
<1>1. \A r \in Runs : todo[r] \in Seq(Request) /\ failed[r] \in Seq(Records)
  BY DEF OnceInv, RunsOK, RunOK, Split
<1>2. \A done \in {delivered, parting, cut, givenUp, ignored} : done \subseteq Records
  BY DEF OnceInv, Kinds
<1> QED BY <1>1, <1>2 DEF OnceInv, Kinds, Flags, BufferOK, TypeOK

LEMMA OnceHolds == OnceInv => EachRecordOnce
<1> SUFFICES ASSUME OnceInv PROVE EachRecordOnce
  OBVIOUS
<1> DEFINE ends == <<fresh, delivered, parting, cut, givenUp, ignored>>
<1> SUFFICES ASSUME NEW x \in Records
             PROVE  Cardinality({i \in DOMAIN Held : Held[i] = x}) +
                    Cardinality({i \in DOMAIN ends : x \in ends[i]}) = 1
  BY OnceTypes DEF EachRecordOnce
<1> DEFINE A == {i \in DOMAIN Held : Held[i] = x}
           E == {i \in DOMAIN ends : x \in ends[i]}
           inside == x \in ToSet(buffer) \/ x \in Out(todo, failed)
<1>1. /\ Held \in Seq(Records) /\ Distinct(Held)
      /\ ToSet(Held) = ToSet(buffer) \cup Out(todo, failed)
  BY HeldIsDistinct
<1>2. CASE inside
  <2>1. PICK k \in DOMAIN Held : Held[k] = x
    BY <1>1, <1>2 DEF ToSet
  <2>2. A = {k}
    BY <1>1, <2>1 DEF Distinct
  <2>3. x \notin fresh /\ x \notin delivered /\ x \notin parting /\ x \notin cut
        /\ x \notin givenUp /\ x \notin ignored
    BY <1>2 DEF OnceInv, OnePlace, Weight
  <2>4. E = {}
    BY <2>3
  <2>5. Cardinality(A) = 1 /\ Cardinality(E) = 0
    <3> HIDE DEF A, E
    <3> QED BY <2>2, <2>4, FS_Singleton, FS_EmptySet
  <2> QED BY <2>5
<1>3. CASE ~inside
  <2>1. A = {}
    BY <1>1, <1>3 DEF ToSet
  <2>2. \E k : E = {k}
    <3>1. Weight(x \in fresh) + Weight(x \in delivered) + Weight(x \in parting) +
          Weight(x \in cut) + Weight(x \in givenUp) + Weight(x \in ignored) = 1
      BY <1>3 DEF OnceInv, OnePlace, Weight
    <3>2. DOMAIN ends = 1 .. 6
      OBVIOUS
    <3>3. /\ 1 \in E <=> x \in fresh
          /\ 2 \in E <=> x \in delivered
          /\ 3 \in E <=> x \in parting
          /\ 4 \in E <=> x \in cut
          /\ 5 \in E <=> x \in givenUp
          /\ 6 \in E <=> x \in ignored
      OBVIOUS
    <3>4. \A k \in E : k \in {1, 2, 3, 4, 5, 6}
      BY <3>2
    <3> HIDE DEF E
    <3>5. PICK k \in E : TRUE
      BY <3>1, <3>3 DEF Weight
    <3>6. \A j \in E : j = k
      BY <3>1, <3>3, <3>4, <3>5 DEF Weight
    <3> QED BY <3>5, <3>6
  <2>3. Cardinality(A) = 0 /\ Cardinality(E) = 1
    <3>1. IsFiniteSet(E)
      <4> HIDE DEF E
      <4> QED BY <2>2, FS_Singleton
    <3> HIDE DEF A, E
    <3> QED BY <2>1, <2>2, FS_Singleton, FS_EmptySet
  <2> QED BY <2>3
<1> QED BY <1>2, <1>3

(***************************************************************************)
(* Every record is at one place and only there, for every number of runs,  *)
(* every limit and every way in which requests fail, whatever retries,     *)
(* reports and the timer do at the same time (worker.ts).                  *)
(***************************************************************************)
THEOREM RecordsStayOnce == Spec => []EachRecordOnce
<1>1. Init => OnceInv
  BY OnceInit
<1>2. OnceInv /\ [Next]_vars => OnceInv'
  BY OnceNext
<1>3. OnceInv => EachRecordOnce
  BY OnceHolds
<1> QED BY <1>1, <1>2, <1>3, PTL DEF Spec
=============================================================================
