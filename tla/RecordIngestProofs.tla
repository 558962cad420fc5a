------------------------- MODULE RecordIngestProofs -------------------------
(***************************************************************************)
(* What RecordIngest promises, for every content of the requests, every    *)
(* number of slots and every bound on the requests and the faults: what a  *)
(* client is told is stored is stored, and an error counts once.           *)
(*                                                                         *)
(* The promises speak of requests that are answered; the invariant has to  *)
(* speak of those under way.  A request that has finished a group has left *)
(* one more document of each record of it than all the answers before      *)
(* (Counts), and the documents of the devices that it is past (Sound); a   *)
(* request that looked for a document in vain will insert one, so that     *)
(* documents and seekers together are never more than the slots (Slots).   *)
(***************************************************************************)
EXTENDS RecordIngest, FiniteSetTheorems, SequenceTheorems, WellFoundedInduction, TLAPS

-----------------------------------------------------------------------------
(***************************************************************************)
(* The groups of a batch.                                                  *)
(***************************************************************************)
LEMMA LeastMember ==
  ASSUME NEW T \in SUBSET Nat, T # {}
  PROVE  \E x \in T : \A y \in T : x <= y
<1>1. PICK x \in T : \A y \in T : ~ (<<y, x>> \in OpToRel(<, Nat))
  BY NatLessThanWellFounded, WFMin
<1>2. \A y \in T : ~(y < x)
  BY <1>1 DEF OpToRel
<1> QED BY <1>2

Pushes(f, m, list, g) ==
  f = [n \in 0 .. m |->
         IF n = 0 THEN <<>>
         ELSE IF GroupOf(list[n]) = g THEN Append(f[n - 1], list[n]) ELSE f[n - 1]]

LEMMA PushedDef ==
  ASSUME NEW list, NEW g
  PROVE  Pushed(list, g) = (CHOOSE f : Pushes(f, Len(list), list, g))[Len(list)]
BY DEF Pushed, Pushes

LEMMA PushesExist ==
  ASSUME NEW list \in Seq(Item), NEW g
  PROVE  \E f : Pushes(f, Len(list), list, g)
<1> DEFINE Bad == {m \in 0 .. Len(list) : ~ \E f : Pushes(f, m, list, g)}
<1>0. Len(list) \in 0 .. Len(list)
  OBVIOUS
<1> SUFFICES ASSUME Bad # {} PROVE FALSE
  BY <1>0
<1>1. PICK m \in Bad : \A n \in Bad : m <= n
  <2>1. Bad \in SUBSET Nat
    OBVIOUS
  <2> HIDE DEF Bad
  <2> QED BY <2>1, LeastMember
<1>2. m # 0
  <2> SUFFICES ASSUME m = 0 PROVE FALSE
    OBVIOUS
  <2> DEFINE f == [n \in 0 .. 0 |-> <<>>]
  <2>1. Pushes(f, 0, list, g)
    BY DEF Pushes
  <2> QED BY <2>1
<1>3. m \in Nat /\ m - 1 \in 0 .. Len(list)
  BY <1>2
<1>4. m - 1 \notin Bad
  BY <1>1, <1>3
<1>5. PICK f : Pushes(f, m - 1, list, g)
  BY <1>3, <1>4
<1> DEFINE h == [n \in 0 .. m |->
                   IF n = m
                   THEN IF GroupOf(list[n]) = g THEN Append(f[n - 1], list[n]) ELSE f[n - 1]
                   ELSE f[n]]
<1>6. \A n \in 0 .. (m - 1) : h[n] = f[n]
  BY <1>3
<1>7. \A n \in 0 .. (m - 1) :
        f[n] = IF n = 0 THEN <<>>
               ELSE IF GroupOf(list[n]) = g THEN Append(f[n - 1], list[n]) ELSE f[n - 1]
  BY <1>5 DEF Pushes
<1>8. \A n \in 0 .. m :
        h[n] = IF n = 0 THEN <<>>
               ELSE IF GroupOf(list[n]) = g THEN Append(h[n - 1], list[n]) ELSE h[n - 1]
  <2> TAKE n \in 0 .. m
  <2>1. CASE n = m
    BY <2>1, <1>2, <1>3, <1>6
  <2>2. CASE n # m
    <3>1. n \in 0 .. (m - 1)
      BY <2>2, <1>3
    <3>2. n # 0 => h[n - 1] = f[n - 1]
      BY <3>1, <1>3, <1>6
    <3>3. h[n] = f[n]
      BY <3>1, <1>6
    <3> HIDE DEF h
    <3> QED BY <1>7, <3>1, <3>2, <3>3
  <2> QED BY <2>1, <2>2
<1>9. Pushes(h, m, list, g)
  <2>1. h = [n \in 0 .. m |-> h[n]]
    OBVIOUS
  <2> HIDE DEF h
  <2> QED BY <2>1, <1>8 DEF Pushes
<1> QED BY <1>9

LEMMA RangeOfAppend ==
  ASSUME NEW S, NEW s \in Seq(S), NEW x \in S
  PROVE  Range(Append(s, x)) = Range(s) \cup {x}
<1>1. /\ DOMAIN Append(s, x) = 1 .. Len(s) + 1
      /\ \A k \in 1 .. Len(s) : Append(s, x)[k] = s[k]
      /\ Append(s, x)[Len(s) + 1] = x
  BY AppendProperties
<1>2. DOMAIN s = 1 .. Len(s) /\ Len(s) \in Nat
  OBVIOUS
<1>3. \A k \in 1 .. Len(s) + 1 : k \in 1 .. Len(s) \/ k = Len(s) + 1
  BY <1>2
<1>4. 1 .. Len(s) \subseteq 1 .. Len(s) + 1 /\ Len(s) + 1 \in 1 .. Len(s) + 1
  BY <1>2
<1> QED BY <1>1, <1>2, <1>3, <1>4 DEF Range

(***************************************************************************)
(* What is pushed for a group is all that belongs to it.                   *)
(***************************************************************************)
LEMMA PushedIsGroup ==
  ASSUME NEW list \in Seq(Item), NEW g
  PROVE  /\ Pushed(list, g) \in Seq(Item)
         /\ Range(Pushed(list, g)) = {i \in Range(list) : GroupOf(i) = g}
<1>1. PICK f : Pushes(f, Len(list), list, g) /\ Pushed(list, g) = f[Len(list)]
  BY PushesExist, PushedDef
<1> DEFINE Part(n) == {list[j] : j \in {j \in 1 .. n : GroupOf(list[j]) = g}}
           Good(n) == f[n] \in Seq(Item) /\ Range(f[n]) = Part(n)
           Bad == {n \in 0 .. Len(list) : ~Good(n)}
<1>2. \A n \in 0 .. Len(list) :
        f[n] = IF n = 0 THEN <<>>
               ELSE IF GroupOf(list[n]) = g THEN Append(f[n - 1], list[n]) ELSE f[n - 1]
  BY <1>1 DEF Pushes
<1>3. Bad = {}
  <2> SUFFICES ASSUME Bad # {} PROVE FALSE
    OBVIOUS
  <2>1. PICK n \in Bad : \A k \in Bad : n <= k
    <3>1. Bad \in SUBSET Nat
      OBVIOUS
    <3> HIDE DEF Bad
    <3> QED BY <3>1, LeastMember
  <2>2. n # 0
    <3> SUFFICES ASSUME n = 0 PROVE FALSE
      OBVIOUS
    <3>1. f[0] = <<>>
      BY <1>2
    <3>2. Range(<<>>) = {}
      BY DEF Range
    <3>3. Part(0) = {}
      OBVIOUS
    <3>4. Good(0)
      BY <3>1, <3>2, <3>3
    <3> QED BY <3>4
  <2>3. n \in 1 .. Len(list) /\ n - 1 \in 0 .. Len(list) /\ list[n] \in Item /\ n \in 0 .. Len(list)
    BY <2>2
  <2>0. ~Good(n)
    OBVIOUS
  <2>4. Good(n - 1)
    <3>1. n - 1 \notin Bad
      <4> HIDE DEF Bad
      <4> QED BY <2>1, <2>3
    <3> HIDE DEF Good
    <3> QED BY <3>1, <2>3
  <2>5. \A j \in 1 .. n : j \in 1 .. (n - 1) \/ j = n
    BY <2>3
  <2>6. 1 .. (n - 1) \subseteq 1 .. n /\ n \in 1 .. n
    BY <2>3
  <2>7. CASE GroupOf(list[n]) = g
    <3>1. f[n] = Append(f[n - 1], list[n])
      <4> HIDE DEF Bad, Good, Part
      <4> QED BY <1>2, <2>2, <2>3, <2>7
    <3>2. f[n] \in Seq(Item) /\ Range(f[n]) = Range(f[n - 1]) \cup {list[n]}
      BY <3>1, <2>3, <2>4, RangeOfAppend
    <3>3. Part(n) = Part(n - 1) \cup {list[n]}
      BY <2>5, <2>6, <2>7
    <3>4. Good(n)
      BY <3>2, <3>3, <2>4
    <3> QED BY <3>4
  <2>8. CASE GroupOf(list[n]) # g
    <3>1. f[n] = f[n - 1]
      <4> HIDE DEF Bad, Good, Part
      <4> QED BY <1>2, <2>2, <2>3, <2>8
    <3>2. Part(n) = Part(n - 1)
      BY <2>5, <2>6, <2>8
    <3>3. Good(n)
      BY <3>1, <3>2, <2>4
    <3> QED BY <3>3
  <2> QED BY <2>7, <2>8
<1>4. Len(list) \in 0 .. Len(list) /\ DOMAIN list = 1 .. Len(list)
  OBVIOUS
<1>5. Good(Len(list))
  <2> HIDE DEF Good
  <2> QED BY <1>3, <1>4
<1>6. Part(Len(list)) = {i \in Range(list) : GroupOf(i) = g}
  BY <1>4 DEF Range
<1> QED BY <1>1, <1>5, <1>6

LEMMA GroupFacts ==
  ASSUME NEW p \in Payload, NEW g \in Groups \cup {"track"}
  PROVE  /\ Group(p, g) \in Seq(Item)
         /\ \A i : InGroup(p, g, i) => i \in Item /\ In(i, p) /\ GroupOf(i) = g
         /\ g # "custom_id" =>
              \A i \in Item : In(i, p) /\ GroupOf(i) = g => InGroup(p, g, i)
         /\ \A i : InGroup(p, g, i) => Group(p, g) # <<>>
<1> DEFINE list == Content[p].items
           all  == Pushed(list, g)
<1>1. list \in Seq(Item)
  BY IngestAssumption
<1>2. all \in Seq(Item) /\ Range(all) = {i \in Range(list) : GroupOf(i) = g}
  BY <1>1, PushedIsGroup
<1>3. Group(p, g) = IF g = "custom_id" /\ all # <<>> THEN <<Last(all)>> ELSE all
  BY DEF Group, Grouped
<1>4. Range(list) \subseteq Item
  BY <1>1 DEF Range
<1> HIDE DEF list, all
<1>5. all # <<>> => Last(all) \in Range(all)
  BY <1>2 DEF Last, Range
<1>6. Range(<<Last(all)>>) = {Last(all)}
  BY DEF Range
<1>7. Group(p, g) \in Seq(Item) /\ Range(Group(p, g)) \subseteq Range(all)
  BY <1>2, <1>3, <1>4, <1>5, <1>6
<1>8. g # "custom_id" => Range(Group(p, g)) = Range(all)
  BY <1>3
<1>9. Range(<<>>) = {}
  BY DEF Range
<1>10. \A i : In(i, p) <=> i \in Range(list)
  BY DEF In, list
<1> QED BY <1>2, <1>4, <1>7, <1>8, <1>9, <1>10 DEF InGroup
-----------------------------------------------------------------------------
(***************************************************************************)
(* The inductive invariant.                                                *)
(***************************************************************************)
Stores == {"collect", "network", "error"}

IsBatch(p) == Content[p].form \in {"v1", "v2"}

\* r has stored the group of record i; r looked for document k in vain.
HasStored(r, i) == r.at = "groups" /\ In(i, r.p) /\ GroupOf(i) \notin r.pend
Seeks(r, k)     == r.looked /\ ~r.found /\ KeyOf(r) = k

Passed(i)      == {r \in reqs : HasStored(r, i)}
PassedIn(i, p) == {r \in reqs : HasStored(r, i) /\ r.p = p}
Seekers(k)     == {r \in reqs : Seeks(r, k)}

ReqsOK ==
  /\ reqs \subseteq Request /\ IsFiniteSet(reqs) /\ Cardinality(reqs) <= Concurrency
  /\ posts \in 0 .. MaxPosts

CountsOK ==
  /\ docs \in [Item -> Nat] /\ alerted \in [Item -> Nat] /\ kafka \in [Item -> Nat]
  /\ unique \in [Key -> Nat]
  /\ custom \in [Item -> BOOLEAN] /\ ok \in [Payload -> Nat]

HasSession(i) == Session[i] # NoSession => unique[<<"session", Session[i]>>] > 0
HasDevice(i)  == unique[<<"device", Uuid[i]>>] > 0

Devices(r) ==
  \A j \in DOMAIN Group(r.p, "device") :
    LET i == Group(r.p, "device")[j]
    IN  /\ ("device" \notin r.pend \/ j < r.dev) => HasSession(i) /\ HasDevice(i)
        /\ j = r.dev /\ r.step = "device" => HasSession(i)

CustomIds(p) == \A i \in Item : InGroup(p, "custom_id", i) => custom[i]

\* Where a request stands, and what it leaves behind.
Sound(r) ==
  /\ "device" \in r.pend => r.dev \in DOMAIN Group(r.p, "device")
  /\ r.looked => r.at = "groups" /\ "device" \in r.pend
  /\ r.looked /\ r.found => unique[KeyOf(r)] > 0
  /\ r.at # "groups" => r.pend = {} /\ r.dev = 1 /\ r.step = "session"
  /\ r.at # "body" => IsBatch(r.p)
  /\ r.at = "groups" /\ ~r.failed =>
       Devices(r) /\ ("custom_id" \notin r.pend => CustomIds(r.p))

\* Who looked in vain may insert once more.
Slots == \A k \in Key : unique[k] + Cardinality(Seekers(k)) <= Concurrency

\* Who has stored a record may still count it, and answer for it.
Counts ==
  \A i \in Item : GroupOf(i) \in Stores =>
    /\ alerted[i] + Cardinality(Passed(i)) <= docs[i]
    /\ \A p \in Payload : In(i, p) /\ IsBatch(p) =>
         ok[p] + Cardinality(PassedIn(i, p)) <= docs[i]

Answered ==
  \A p \in Payload : ok[p] > 0 /\ IsBatch(p) =>
    /\ \A i \in Item : InGroup(p, "device", i) => HasSession(i) /\ HasDevice(i)
    /\ CustomIds(p)

IInv == ReqsOK /\ CountsOK /\ (\A r \in reqs : Sound(r)) /\ Slots /\ Counts /\ Answered

-----------------------------------------------------------------------------
LEMMA Exchange ==
  ASSUME NEW S, IsFiniteSet(S), NEW r, NEW q, NEW T, T \subseteq (S \ {r}) \cup {q}
  PROVE  /\ IsFiniteSet(T) /\ Cardinality(S) \in Nat /\ Cardinality(T) \in Nat
         /\ Cardinality(T) <= Cardinality(S) + 1
         /\ (q \in T => r \in S) => Cardinality(T) <= Cardinality(S)
         /\ q \notin T /\ r \in S => Cardinality(T) + 1 <= Cardinality(S)
<1> DEFINE R == S \ {r}
           U == R \cup {q}
<1>1. /\ IsFiniteSet(R)
      /\ Cardinality(R) = IF r \in S THEN Cardinality(S) - 1 ELSE Cardinality(S)
  BY FS_RemoveElement
<1> HIDE DEF R
<1>2. /\ IsFiniteSet(U)
      /\ Cardinality(U) = IF q \in R THEN Cardinality(R) ELSE Cardinality(R) + 1
  BY <1>1, FS_AddElement
<1>3. T \in SUBSET U
  BY DEF R
<1>4. q \notin T => T \in SUBSET R
  BY <1>3
<1> HIDE DEF U
<1>5. IsFiniteSet(T) /\ Cardinality(T) <= Cardinality(U)
  BY <1>2, <1>3, FS_Subset
<1>6. q \notin T => Cardinality(T) <= Cardinality(R)
  BY <1>1, <1>4, FS_Subset
<1>7. Cardinality(S) \in Nat /\ Cardinality(T) \in Nat /\ Cardinality(R) \in Nat
  BY <1>1, <1>5, FS_CardinalityType
<1> QED BY <1>1, <1>2, <1>5, <1>6, <1>7

LEMMA BumpFacts ==
  ASSUME NEW f \in [Item -> Nat], NEW S
  PROVE  /\ Bump(f, S) \in [Item -> Nat]
         /\ \A i \in Item : /\ Bump(f, S)[i] = IF i \in S THEN f[i] + 1 ELSE f[i]
                            /\ Bump(f, S)[i] >= f[i]
BY DEF Bump

\* The requests after one of them went on, or left (then q is r itself).
LEMMA Moved ==
  ASSUME ReqsOK, NEW r \in reqs, NEW q, reqs' \subseteq (reqs \ {r}) \cup {q}
  PROVE  /\ IsFiniteSet(reqs') /\ Cardinality(reqs') <= Cardinality(reqs)
         /\ \A i :
              /\ Cardinality(Passed(i)) \in Nat /\ Cardinality(Passed(i)') \in Nat
              /\ Cardinality(Passed(i)') <= Cardinality(Passed(i)) + 1
              /\ (q \in reqs' /\ HasStored(q, i) => HasStored(r, i)) =>
                   Cardinality(Passed(i)') <= Cardinality(Passed(i))
              /\ ~(q \in reqs' /\ HasStored(q, i)) /\ HasStored(r, i) =>
                   Cardinality(Passed(i)') + 1 <= Cardinality(Passed(i))
<1>1. IsFiniteSet(reqs') /\ Cardinality(reqs') <= Cardinality(reqs)
  <2>1. PICK S, T : S = reqs /\ T = reqs'
    OBVIOUS
  <2>2. IsFiniteSet(S) /\ T \subseteq (S \ {r}) \cup {q} /\ r \in S
    BY <2>1 DEF ReqsOK
  <2>3. IsFiniteSet(T) /\ Cardinality(T) <= Cardinality(S)
    BY <2>2, Exchange
  <2> QED BY <2>1, <2>3
<1>2. ASSUME NEW i
      PROVE  /\ Cardinality(Passed(i)) \in Nat /\ Cardinality(Passed(i)') \in Nat
             /\ Cardinality(Passed(i)') <= Cardinality(Passed(i)) + 1
             /\ (q \in reqs' /\ HasStored(q, i) => HasStored(r, i)) =>
                  Cardinality(Passed(i)') <= Cardinality(Passed(i))
             /\ ~(q \in reqs' /\ HasStored(q, i)) /\ HasStored(r, i) =>
                  Cardinality(Passed(i)') + 1 <= Cardinality(Passed(i))
  <2>1. PICK S, T : S = Passed(i) /\ T = Passed(i)'
    OBVIOUS
  <2>2. S \in SUBSET reqs
    BY <2>1 DEF Passed
  <2>3. IsFiniteSet(S)
    BY <2>2, FS_Subset DEF ReqsOK
  <2>4. T = {s \in reqs' : HasStored(s, i)}
    BY <2>1 DEF Passed, HasStored
  <2>5. /\ T \subseteq (S \ {r}) \cup {q}
        /\ q \in T <=> q \in reqs' /\ HasStored(q, i)
        /\ r \in S <=> HasStored(r, i)
    BY <2>1, <2>4 DEF Passed
  <2>6. /\ Cardinality(S) \in Nat /\ Cardinality(T) \in Nat
        /\ Cardinality(T) <= Cardinality(S) + 1
        /\ (q \in T => r \in S) => Cardinality(T) <= Cardinality(S)
        /\ q \notin T /\ r \in S => Cardinality(T) + 1 <= Cardinality(S)
    BY <2>3, <2>5, Exchange
  <2> QED BY <2>1, <2>5, <2>6
<1> QED BY <1>1, <1>2

LEMMA MovedIn ==
  ASSUME ReqsOK, NEW r \in reqs, NEW q, reqs' \subseteq (reqs \ {r}) \cup {q}, NEW i, NEW p
  PROVE  /\ Cardinality(PassedIn(i, p)) \in Nat /\ Cardinality(PassedIn(i, p)') \in Nat
         /\ Cardinality(PassedIn(i, p)') <= Cardinality(PassedIn(i, p)) + 1
         /\ (q \in reqs' /\ HasStored(q, i) /\ q.p = p => HasStored(r, i) /\ r.p = p) =>
              Cardinality(PassedIn(i, p)') <= Cardinality(PassedIn(i, p))
         /\ ~(q \in reqs' /\ HasStored(q, i) /\ q.p = p) /\ HasStored(r, i) /\ r.p = p =>
              Cardinality(PassedIn(i, p)') + 1 <= Cardinality(PassedIn(i, p))
<1>1. PICK S, T : S = PassedIn(i, p) /\ T = PassedIn(i, p)'
  OBVIOUS
<1>2. S \in SUBSET reqs
  BY <1>1 DEF PassedIn
<1>3. IsFiniteSet(S)
  BY <1>2, FS_Subset DEF ReqsOK
<1>4. T = {s \in reqs' : HasStored(s, i) /\ s.p = p}
  BY <1>1 DEF PassedIn, HasStored
<1>5. /\ T \subseteq (S \ {r}) \cup {q}
      /\ q \in T <=> q \in reqs' /\ HasStored(q, i) /\ q.p = p
      /\ r \in S <=> HasStored(r, i) /\ r.p = p
  BY <1>1, <1>4 DEF PassedIn
<1>6. /\ Cardinality(S) \in Nat /\ Cardinality(T) \in Nat
      /\ Cardinality(T) <= Cardinality(S) + 1
      /\ (q \in T => r \in S) => Cardinality(T) <= Cardinality(S)
      /\ q \notin T /\ r \in S => Cardinality(T) + 1 <= Cardinality(S)
  BY <1>3, <1>5, Exchange
<1> QED BY <1>1, <1>5, <1>6

LEMMA MovedSeekers ==
  ASSUME ReqsOK, NEW r \in reqs, NEW q, reqs' \subseteq (reqs \ {r}) \cup {q}, NEW k
  PROVE  /\ Cardinality(Seekers(k)) \in Nat /\ Cardinality(Seekers(k)') \in Nat
         /\ Cardinality(Seekers(k)') <= Cardinality(reqs)
         /\ (q \in reqs' /\ Seeks(q, k) => Seeks(r, k)) =>
              Cardinality(Seekers(k)') <= Cardinality(Seekers(k))
         /\ ~(q \in reqs' /\ Seeks(q, k)) /\ Seeks(r, k) =>
              Cardinality(Seekers(k)') + 1 <= Cardinality(Seekers(k))
<1>1. PICK S, T : S = Seekers(k) /\ T = Seekers(k)'
  OBVIOUS
<1>2. S \in SUBSET reqs
  BY <1>1 DEF Seekers
<1>3. IsFiniteSet(S)
  BY <1>2, FS_Subset DEF ReqsOK
<1>4. T = {s \in reqs' : Seeks(s, k)}
  BY <1>1 DEF Seekers, Seeks, KeyOf, Device
<1>5. /\ T \subseteq (S \ {r}) \cup {q}
      /\ q \in T <=> q \in reqs' /\ Seeks(q, k)
      /\ r \in S <=> Seeks(r, k)
  BY <1>1, <1>4 DEF Seekers
<1>6. /\ Cardinality(S) \in Nat /\ Cardinality(T) \in Nat
      /\ (q \in T => r \in S) => Cardinality(T) <= Cardinality(S)
      /\ q \notin T /\ r \in S => Cardinality(T) + 1 <= Cardinality(S)
  BY <1>3, <1>5, Exchange
<1>7. T \in SUBSET reqs' /\ IsFiniteSet(reqs') /\ Cardinality(reqs') <= Cardinality(reqs)
  BY <1>4, Moved
<1>8. Cardinality(T) <= Cardinality(reqs')
  BY <1>7, FS_Subset
<1>9. Cardinality(reqs) \in Nat /\ Cardinality(reqs') \in Nat
  BY <1>7, FS_CardinalityType DEF ReqsOK
<1>10. Cardinality(T) <= Cardinality(reqs)
  BY <1>6, <1>7, <1>8, <1>9
<1> QED BY <1>1, <1>5, <1>6, <1>10
-----------------------------------------------------------------------------
(***************************************************************************)
(* What most steps keep.                                                   *)
(***************************************************************************)
LEMMA ItemOfGroup ==
  ASSUME NEW p \in Payload, NEW g \in Groups \cup {"track"}, NEW j \in DOMAIN Group(p, g)
  PROVE  Group(p, g)[j] \in Item /\ InGroup(p, g, Group(p, g)[j])
<1>1. Group(p, g) \in Seq(Item)
  BY GroupFacts
<1> QED BY <1>1 DEF InGroup, Range

LEMMA KeysOfItem == \A i \in Item : <<"session", Session[i]>> \in Key /\ <<"device", Uuid[i]>> \in Key
BY DEF Key

LEMMA DeviceFacts ==
  ASSUME NEW r \in Request, "device" \in r.pend, r.dev \in DOMAIN Group(r.p, "device")
  PROVE  Device(r) \in Item /\ KeyOf(r) \in Key
<1>1. r.p \in Payload /\ "device" \in Groups
  BY DEF Request, Groups
<1>2. Device(r) \in Item
  BY <1>1, ItemOfGroup DEF Device
<1> QED BY <1>2, KeysOfItem DEF KeyOf

LEMMA StoresAreGroups == Stores \subseteq Groups \ {"device", "custom_id"}
BY DEF Stores, Groups

Grows ==
  /\ \A k \in Key : unique'[k] >= unique[k]
  /\ \A i \in Item : custom[i] => custom'[i]

LEMMA HasGrows ==
  ASSUME CountsOK, CountsOK', Grows, NEW i \in Item
  PROVE  (HasSession(i) => HasSession(i)') /\ (HasDevice(i) => HasDevice(i)')
<1>1. <<"session", Session[i]>> \in Key /\ <<"device", Uuid[i]>> \in Key
  BY KeysOfItem
<1>2. \A k \in Key : unique[k] > 0 => unique'[k] > 0
  BY DEF CountsOK, Grows
<1> QED BY <1>1, <1>2 DEF HasSession, HasDevice

LEMMA DevicesGrow ==
  ASSUME CountsOK, CountsOK', Grows, NEW r \in Request, Devices(r)
  PROVE  Devices(r)'
<1>1. r.p \in Payload /\ "device" \in Groups
  BY DEF Request, Groups
<1>2. \A j \in DOMAIN Group(r.p, "device") : Group(r.p, "device")[j] \in Item
  BY <1>1, ItemOfGroup
<1>3. \A i \in Item : (HasSession(i) => HasSession(i)') /\ (HasDevice(i) => HasDevice(i)')
  BY HasGrows
<1> QED BY <1>2, <1>3 DEF Devices

LEMMA CustomGrows ==
  ASSUME Grows, NEW p, CustomIds(p)
  PROVE  CustomIds(p)'
BY DEF Grows, CustomIds

LEMMA SoundGrows ==
  ASSUME CountsOK, CountsOK', Grows, NEW r \in Request, Sound(r)
  PROVE  Sound(r)'
<1>1. r.looked /\ r.found => unique'[KeyOf(r)] > 0
  <2> SUFFICES ASSUME r.looked, r.found PROVE unique'[KeyOf(r)] > 0
    OBVIOUS
  <2>1. KeyOf(r) \in Key /\ unique[KeyOf(r)] > 0
    BY DeviceFacts DEF Sound
  <2> QED BY <2>1 DEF Grows, CountsOK
<1>2. Devices(r) => Devices(r)'
  BY DevicesGrow
<1>3. CustomIds(r.p) => CustomIds(r.p)'
  BY CustomGrows
<1> QED BY <1>1, <1>2, <1>3 DEF Sound, KeyOf, Device

LEMMA AllSound ==
  ASSUME CountsOK, CountsOK', Grows, ReqsOK, \A r \in reqs : Sound(r),
         NEW r \in reqs, NEW q, reqs' \subseteq (reqs \ {r}) \cup {q}, q \in reqs' => Sound(q)'
  PROVE  \A s \in reqs' : Sound(s)'
<1> SUFFICES ASSUME NEW s \in reqs' PROVE Sound(s)'
  OBVIOUS
<1>1. CASE s = q
  BY <1>1
<1>2. CASE s # q
  <2>1. s \in Request /\ Sound(s)
    BY <1>2 DEF ReqsOK
  <2> QED BY <2>1, SoundGrows
<1> QED BY <1>1, <1>2

LEMMA ReqsMoved ==
  ASSUME ReqsOK, NEW r \in reqs, NEW q, reqs' \subseteq (reqs \ {r}) \cup {q},
         q \in reqs' => q \in Request, posts' = posts
  PROVE  ReqsOK'
<1>1. IsFiniteSet(reqs') /\ Cardinality(reqs') <= Cardinality(reqs)
  BY Moved
<1>2. Cardinality(reqs) \in Nat /\ Cardinality(reqs') \in Nat /\ Concurrency \in Nat
  BY <1>1, FS_CardinalityType, IngestAssumption DEF ReqsOK
<1>3. Cardinality(reqs') <= Concurrency
  BY <1>1, <1>2 DEF ReqsOK
<1>4. reqs' \subseteq Request
  BY DEF ReqsOK
<1> QED BY <1>1, <1>3, <1>4 DEF ReqsOK

LEMMA SlotsMoved ==
  ASSUME ReqsOK, CountsOK, Slots, NEW r \in reqs, NEW q, reqs' \subseteq (reqs \ {r}) \cup {q},
         unique' = unique, \A k : q \in reqs' /\ Seeks(q, k) => Seeks(r, k)
  PROVE  Slots'
<1>1. ASSUME NEW k \in Key PROVE unique'[k] + Cardinality(Seekers(k)') <= Concurrency
  <2>1. /\ Cardinality(Seekers(k)) \in Nat /\ Cardinality(Seekers(k)') \in Nat
        /\ Cardinality(Seekers(k)') <= Cardinality(Seekers(k))
    BY MovedSeekers
  <2>2. unique[k] \in Nat /\ unique[k] + Cardinality(Seekers(k)) <= Concurrency /\ Concurrency \in Nat
    BY <1>1, IngestAssumption DEF CountsOK, Slots
  <2> QED BY <2>1, <2>2
<1> QED BY <1>1 DEF Slots

LEMMA CountsMoved ==
  ASSUME ReqsOK, CountsOK, CountsOK', Counts,
         NEW r \in reqs, NEW q, reqs' \subseteq (reqs \ {r}) \cup {q},
         alerted' = alerted, \A i \in Item : docs'[i] >= docs[i],
         \A p \in Payload : IsBatch(p) => ok'[p] = ok[p],
         \A i \in Item : GroupOf(i) \in Stores /\ q \in reqs' /\ HasStored(q, i) =>
           HasStored(r, i) /\ r.p = q.p
  PROVE  Counts'
<1> SUFFICES ASSUME NEW i \in Item, GroupOf(i) \in Stores
             PROVE  /\ alerted'[i] + Cardinality(Passed(i)') <= docs'[i]
                    /\ \A p \in Payload : In(i, p) /\ IsBatch(p) =>
                         ok'[p] + Cardinality(PassedIn(i, p)') <= docs'[i]
  BY DEF Counts
<1>1. docs[i] \in Nat /\ docs'[i] \in Nat /\ docs'[i] >= docs[i] /\ alerted[i] \in Nat
  BY DEF CountsOK
<1>2. alerted[i] + Cardinality(Passed(i)) <= docs[i]
  BY DEF Counts
<1>3. /\ Cardinality(Passed(i)) \in Nat /\ Cardinality(Passed(i)') \in Nat
      /\ Cardinality(Passed(i)') <= Cardinality(Passed(i))
  BY Moved
<1>4. alerted'[i] + Cardinality(Passed(i)') <= docs'[i]
  BY <1>1, <1>2, <1>3
<1>5. ASSUME NEW p \in Payload, In(i, p), IsBatch(p)
      PROVE  ok'[p] + Cardinality(PassedIn(i, p)') <= docs'[i]
  <2>1. /\ Cardinality(PassedIn(i, p)) \in Nat /\ Cardinality(PassedIn(i, p)') \in Nat
        /\ Cardinality(PassedIn(i, p)') <= Cardinality(PassedIn(i, p))
    BY MovedIn
  <2>2. ok[p] \in Nat /\ ok'[p] = ok[p] /\ ok[p] + Cardinality(PassedIn(i, p)) <= docs[i]
    BY <1>5 DEF CountsOK, Counts
  <2> QED BY <1>1, <2>1, <2>2
<1> QED BY <1>4, <1>5

LEMMA AnsweredGrows ==
  ASSUME CountsOK, CountsOK', Grows, Answered,
         \A p \in Payload : IsBatch(p) => ok'[p] = ok[p]
  PROVE  Answered'
<1>1. \A i \in Item : (HasSession(i) => HasSession(i)') /\ (HasDevice(i) => HasDevice(i)')
  BY HasGrows
<1>2. \A p : CustomIds(p) => CustomIds(p)'
  BY CustomGrows
<1> QED BY <1>1, <1>2 DEF Answered

\* A request leaves without a success, or with one that is not about a batch.
LEMMA LeftSilently ==
  ASSUME IInv, CountsOK', NEW r \in reqs, reqs' = reqs \ {r}, posts' = posts,
         unique' = unique, custom' = custom, alerted' = alerted,
         \A i \in Item : docs'[i] >= docs[i],
         \A p \in Payload : IsBatch(p) => ok'[p] = ok[p]
  PROVE  IInv'
<1>1. reqs' \subseteq (reqs \ {r}) \cup {r} /\ r \notin reqs'
  OBVIOUS
<1>2. Grows
  BY DEF Grows, IInv, CountsOK
<1>3. ReqsOK'
  BY <1>1, ReqsMoved DEF IInv
<1>4. \A s \in reqs' : Sound(s)'
  BY <1>1, <1>2, AllSound DEF IInv
<1>5. Slots'
  BY <1>1, SlotsMoved DEF IInv
<1>6. Counts'
  BY <1>1, CountsMoved DEF IInv
<1>7. Answered'
  BY <1>2, AnsweredGrows DEF IInv
<1> QED BY <1>3, <1>4, <1>5, <1>6, <1>7 DEF IInv

\* A request goes on without a step of the invariant's counts.
LEMMA WentOn ==
  ASSUME IInv, CountsOK', NEW r \in reqs, NEW q, reqs' = (reqs \ {r}) \cup {q}, posts' = posts,
         q \in Request, Sound(q)', Grows, unique' = unique,
         alerted' = alerted, docs' = docs, ok' = ok,
         \A k : Seeks(q, k) => Seeks(r, k),
         \A i \in Item : GroupOf(i) \in Stores /\ HasStored(q, i) => HasStored(r, i) /\ r.p = q.p
  PROVE  IInv'
<1>1. reqs' \subseteq (reqs \ {r}) \cup {q}
  OBVIOUS
<1>3. ReqsOK'
  BY <1>1, ReqsMoved DEF IInv
<1>4. \A s \in reqs' : Sound(s)'
  BY <1>1, AllSound DEF IInv
<1>5. Slots'
  BY <1>1, SlotsMoved DEF IInv
<1>6. Counts'
  <2>1. \A i \in Item : docs'[i] >= docs[i]
    BY DEF IInv, CountsOK
  <2> QED BY <1>1, <2>1, CountsMoved DEF IInv
<1>7. Answered'
  BY AnsweredGrows DEF IInv
<1> QED BY <1>3, <1>4, <1>5, <1>6, <1>7 DEF IInv
-----------------------------------------------------------------------------
(***************************************************************************)
(* The steps.                                                              *)
(***************************************************************************)
LEMMA CountsTyped ==
  ASSUME CountsOK, NEW r \in reqs, r \in Request, Step(r)
  PROVE  CountsOK'
<1>0. \A S : Bump(docs, S) \in [Item -> Nat] /\ Bump(alerted, S) \in [Item -> Nat]
  BY BumpFacts DEF CountsOK
<1>1. Leave(r, TRUE) \/ Leave(r, FALSE) => ok' \in [Payload -> Nat]
  <2>1. ASSUME Leave(r, TRUE) PROVE ok' \in [Payload -> Nat]
    BY <2>1 DEF Leave, CountsOK, Request
  <2>2. ASSUME Leave(r, FALSE) PROVE ok' \in [Payload -> Nat]
    BY <2>2 DEF Leave, CountsOK
  <2> QED BY <2>1, <2>2
<1>2. ASSUME NEW q, Go(r, q) PROVE ok' \in [Payload -> Nat]
  BY <1>2 DEF Go, CountsOK
<1>3. ASSUME NEW S, Enqueue(S) PROVE kafka' \in [Item -> Nat]
  BY <1>3, BumpFacts DEF Enqueue, CountsOK
<1>4. CASE Body(r)
  BY <1>4, <1>1, <1>2, <1>3 DEF Body, CountsOK
<1>5. CASE FindApp(r)
  BY <1>5, <1>1, <1>2 DEF FindApp, CountsOK
<1>6. CASE UpdateId(r)
  <2>1. ok' \in [Payload -> Nat]
    BY <1>6, <1>2 DEF UpdateId, GroupFails
  <2>2. custom' \in [Item -> BOOLEAN]
    <3>1. CASE UNCHANGED custom
      BY <3>1 DEF CountsOK
    <3>2. CASE custom' = [i \in Item |-> custom[i] \/ InGroup(r.p, "custom_id", i)]
      BY <3>2 DEF CountsOK, InGroup
    <3> QED BY <1>6, <3>1, <3>2 DEF UpdateId
  <2> QED BY <1>6, <2>1, <2>2 DEF UpdateId, CountsOK
<1>7. CASE FindUnique(r)
  BY <1>7, <1>2 DEF FindUnique, GroupFails, CountsOK
<1>8. CASE WriteUnique(r)
  <2>1. ok' \in [Payload -> Nat]
    BY <1>8, <1>2 DEF WriteUnique, GroupFails
  <2>2. unique' \in [Key -> Nat]
    BY <1>8 DEF WriteUnique, CountsOK
  <2> QED BY <1>8, <2>1, <2>2 DEF WriteUnique, CountsOK
<1>9. CASE Finish(r)
  <2>1. ok' \in [Payload -> Nat]
    BY <1>9, <1>1 DEF Finish
  <2>2. alerted' \in [Item -> Nat]
    BY <1>9, <1>0 DEF Finish, CountsOK
  <2>3. kafka' \in [Item -> Nat]
    BY <1>9, <1>3 DEF Finish, CountsOK
  <2> QED BY <1>9, <2>1, <2>2, <2>3 DEF Finish, CountsOK
<1>10. ASSUME NEW g \in Groups, Insert(r, g) PROVE CountsOK'
  <2>1. ok' \in [Payload -> Nat]
    BY <1>10, <1>1, <1>2 DEF Insert
  <2>2. docs' \in [Item -> Nat]
    BY <1>10, <1>0 DEF Insert
  <2> QED BY <1>10, <2>1, <2>2 DEF Insert, CountsOK
<1> QED BY <1>4, <1>5, <1>6, <1>7, <1>8, <1>9, <1>10 DEF Step

LEMMA LeaveFalse ==
  ASSUME CountsOK, NEW r \in reqs, r \in Request, Leave(r, FALSE)
  PROVE  reqs' = reqs \ {r} /\ ok' = ok
BY DEF Leave

LEMMA LeaveTrue ==
  ASSUME CountsOK, NEW r \in reqs, r \in Request, Leave(r, TRUE)
  PROVE  /\ reqs' = reqs \ {r}
         /\ \A p \in Payload : ok'[p] = IF p = r.p THEN ok[p] + 1 ELSE ok[p]
BY DEF Leave, CountsOK, Request

\* A request that goes on with other groups to finish, or from one place to another.
LEMMA AtKeeps ==
  ASSUME NEW r \in Request, NEW q, q = [r EXCEPT !.at = "app"]
  PROVE  q \in Request /\ q.p = r.p /\ q.at = "app" /\ q.pend = r.pend /\ q.failed = r.failed
         /\ q.dev = r.dev /\ q.step = r.step /\ q.looked = r.looked /\ q.found = r.found
BY DEF Request

LEMMA BodyStep ==
  ASSUME IInv, NEW r \in reqs, Body(r)
  PROVE  IInv'
<1>1. r \in Request /\ Sound(r) /\ CountsOK
  BY DEF IInv, ReqsOK
<1>2. CountsOK'
  BY <1>1, CountsTyped DEF Step
<1>3. CASE Content[r.p].form \in {"v1", "v2"} /\ Go(r, [r EXCEPT !.at = "app"])
  <2>1. PICK q : q = [r EXCEPT !.at = "app"]
    OBVIOUS
  <2>2. q \in Request /\ q.p = r.p /\ q.at = "app" /\ q.pend = r.pend /\ q.failed = r.failed
        /\ q.dev = r.dev /\ q.step = r.step /\ q.looked = r.looked /\ q.found = r.found
    BY <1>1, <2>1, AtKeeps
  <2>3. r.at = "body" /\ r.pend = {} /\ r.dev = 1 /\ r.step = "session" /\ ~r.looked
    BY <1>1 DEF Body, Sound
  <2>4. Sound(q)'
    BY <1>3, <2>2, <2>3 DEF Sound, IsBatch
  <2>5. Grows
    BY <1>1 DEF Grows, Body, CountsOK
  <2>6. \A k : ~Seeks(q, k)
    BY <2>2, <2>3 DEF Seeks
  <2>7. \A i : ~HasStored(q, i)
    BY <2>2 DEF HasStored
  <2>8. reqs' = (reqs \ {r}) \cup {q} /\ ok' = ok
    BY <1>3, <2>1 DEF Go
  <2>9. posts' = posts /\ unique' = unique /\ alerted' = alerted /\ docs' = docs
    BY DEF Body
  <2> QED BY <1>2, <2>2, <2>4, <2>5, <2>6, <2>7, <2>8, <2>9, WentOn
<1>4. ASSUME NEW good \in BOOLEAN, ~IsBatch(r.p), Leave(r, good) PROVE IInv'
  <2>1. reqs' = reqs \ {r} /\ \A p \in Payload : IsBatch(p) => ok'[p] = ok[p]
    BY <1>1, <1>4, LeaveTrue, LeaveFalse
  <2>2. /\ posts' = posts /\ unique' = unique /\ custom' = custom /\ alerted' = alerted
        /\ docs' = docs
    BY DEF Body
  <2>3. \A i \in Item : docs'[i] >= docs[i]
    BY <1>1, <2>2 DEF CountsOK
  <2> QED BY <1>2, <2>1, <2>2, <2>3, LeftSilently
<1>5. CASE Content[r.p].form = "raw" /\ Leave(r, TRUE)
  BY <1>4, <1>5 DEF IsBatch
<1>6. CASE Content[r.p].form = "invalid" /\ Leave(r, FALSE)
  BY <1>4, <1>6 DEF IsBatch
<1> QED BY <1>3, <1>5, <1>6 DEF Body

LEMMA FindAppStep ==
  ASSUME IInv, NEW r \in reqs, FindApp(r)
  PROVE  IInv'
<1>1. r \in Request /\ Sound(r) /\ CountsOK
  BY DEF IInv, ReqsOK
<1>2. CountsOK'
  BY <1>1, CountsTyped DEF Step
<1>3. /\ posts' = posts /\ unique' = unique /\ custom' = custom /\ alerted' = alerted
      /\ docs' = docs
  BY DEF FindApp
<1>4. \A i \in Item : docs'[i] >= docs[i]
  BY <1>1, <1>3 DEF CountsOK
<1>5. CASE Leave(r, FALSE)
  <2>1. reqs' = reqs \ {r} /\ ok' = ok
    BY <1>1, <1>5, LeaveFalse
  <2> QED BY <1>2, <1>3, <1>4, <2>1, LeftSilently
<1>6. CASE Go(r, [r EXCEPT !.at = "groups", !.pend = {g \in Groups : Group(r.p, g) # <<>>}])
  <2>1. PICK pend : pend = {g \in Groups : Group(r.p, g) # <<>>}
    OBVIOUS
  <2>2. PICK q : q = [r EXCEPT !.at = "groups", !.pend = pend]
    OBVIOUS
  <2>3. pend \in SUBSET Groups
    BY <2>1
  <2>4. q \in Request /\ q.p = r.p /\ q.at = "groups" /\ q.pend = pend /\ q.failed = r.failed
        /\ q.dev = r.dev /\ q.step = r.step /\ q.looked = r.looked /\ q.found = r.found
    BY <1>1, <2>2, <2>3 DEF Request
  <2>5. r.at = "app" /\ r.dev = 1 /\ r.step = "session" /\ ~r.looked /\ IsBatch(r.p)
    BY <1>1 DEF FindApp, Sound
  <2>6. r.p \in Payload
    BY <1>1 DEF Request
  <2>7. "device" \in pend => 1 \in DOMAIN Group(r.p, "device")
    <3>1. Group(r.p, "device") \in Seq(Item)
      BY <2>6, GroupFacts DEF Groups
    <3> QED BY <2>1, <3>1
  <2>8. Devices(q)'
    <3> SUFFICES ASSUME NEW j \in DOMAIN Group(r.p, "device")
                 PROVE  "device" \in pend /\ ~(j < 1)
      BY <2>4, <2>5 DEF Devices
    <3>1. Group(r.p, "device") \in Seq(Item)
      BY <2>6, GroupFacts DEF Groups
    <3>2. Group(r.p, "device") # <<>> /\ ~(j < 1)
      BY <3>1
    <3> QED BY <2>1, <3>2 DEF Groups
  <2>9. "custom_id" \notin pend => CustomIds(r.p)'
    BY <2>1, <2>6, GroupFacts DEF CustomIds, Groups
  <2>10. Sound(q)'
    BY <2>4, <2>5, <2>7, <2>8, <2>9 DEF Sound
  <2>11. \A k : ~Seeks(q, k)
    BY <2>4, <2>5 DEF Seeks
  <2>12. ASSUME NEW i \in Item, GroupOf(i) \in Stores, HasStored(q, i) PROVE FALSE
    <3>1. In(i, r.p) /\ GroupOf(i) \notin pend
      BY <2>4, <2>12 DEF HasStored
    <3>2. GroupOf(i) \in Groups /\ GroupOf(i) # "custom_id"
      BY <2>12, StoresAreGroups
    <3>3. InGroup(r.p, GroupOf(i), i)
      BY <2>6, <3>1, <3>2, GroupFacts
    <3>4. Group(r.p, GroupOf(i)) # <<>>
      BY <2>6, <3>2, <3>3, GroupFacts
    <3> QED BY <2>1, <3>1, <3>2, <3>4
  <2>13. Grows
    BY <1>1, <1>3 DEF Grows, CountsOK
  <2>14. reqs' = (reqs \ {r}) \cup {q} /\ ok' = ok
    BY <1>6, <2>1, <2>2 DEF Go
  <2> QED BY <1>2, <1>3, <2>4, <2>10, <2>11, <2>12, <2>13, <2>14, WentOn
<1> QED BY <1>5, <1>6 DEF FindApp
LEMMA GroupFailsStep ==
  ASSUME IInv, CountsOK', NEW r \in reqs, r.at = "groups", NEW g \in {"device", "custom_id"},
         GroupFails(r, g), posts' = posts, unique' = unique, custom' = custom,
         alerted' = alerted, docs' = docs
  PROVE  IInv'
<1>1. r \in Request /\ Sound(r) /\ CountsOK
  BY DEF IInv, ReqsOK
<1>2. PICK q : q = [r EXCEPT !.pend = @ \ {g}, !.failed = TRUE, !.looked = FALSE]
  OBVIOUS
<1>3. q \in Request /\ q.p = r.p /\ q.at = "groups" /\ q.pend = r.pend \ {g} /\ q.failed
      /\ q.dev = r.dev /\ q.step = r.step /\ ~q.looked
  BY <1>1, <1>2 DEF Request
<1>4. Sound(q)'
  BY <1>1, <1>3 DEF Sound
<1>5. \A k : ~Seeks(q, k)
  BY <1>3 DEF Seeks
<1>6. \A i \in Item : GroupOf(i) \in Stores /\ HasStored(q, i) => HasStored(r, i) /\ r.p = q.p
  BY <1>3 DEF HasStored, Stores
<1>7. Grows
  BY <1>1 DEF Grows, CountsOK
<1>8. reqs' = (reqs \ {r}) \cup {q} /\ ok' = ok
  BY <1>2 DEF GroupFails, Go
<1> QED BY <1>3, <1>4, <1>5, <1>6, <1>7, <1>8, WentOn

LEMMA UpdateIdStep ==
  ASSUME IInv, NEW r \in reqs, UpdateId(r)
  PROVE  IInv'
<1>1. r \in Request /\ Sound(r) /\ CountsOK
  BY DEF IInv, ReqsOK
<1>2. CountsOK'
  BY <1>1, CountsTyped DEF Step
<1>3. posts' = posts /\ unique' = unique /\ alerted' = alerted /\ docs' = docs
  BY DEF UpdateId
<1>4. r.at = "groups"
  BY DEF UpdateId
<1>5. CASE GroupFails(r, "custom_id") /\ UNCHANGED custom
  BY <1>2, <1>3, <1>4, <1>5, GroupFailsStep
<1>6. CASE /\ custom' = [i \in Item |-> custom[i] \/ InGroup(r.p, "custom_id", i)]
           /\ Go(r, [r EXCEPT !.pend = @ \ {"custom_id"}])
  <2>1. PICK q : q = [r EXCEPT !.pend = @ \ {"custom_id"}]
    OBVIOUS
  <2>2. q \in Request /\ q.p = r.p /\ q.at = "groups" /\ q.pend = r.pend \ {"custom_id"}
        /\ q.failed = r.failed /\ q.dev = r.dev /\ q.step = r.step /\ q.looked = r.looked
        /\ q.found = r.found
    BY <1>1, <1>4, <2>1 DEF Request
  <2>3. Grows
    <3>1. \A i \in Item : custom[i] => custom'[i]
      BY <1>6
    <3>2. \A k \in Key : unique'[k] >= unique[k]
      BY <1>1, <1>3 DEF CountsOK
    <3> QED BY <3>1, <3>2 DEF Grows
  <2>4. Device(q) = Device(r) /\ KeyOf(q) = KeyOf(r)
    BY <2>2 DEF KeyOf, Device
  <2>5. Sound(r)'
    BY <1>1, <1>2, <2>3, SoundGrows
  <2>6. CustomIds(r.p)'
    BY <1>6 DEF CustomIds
  <2>7. (~r.failed => Devices(r)') /\ (Devices(r)' => Devices(q)')
    <3>1. ~r.failed => Devices(r)'
      BY <1>4, <2>5 DEF Sound
    <3>2. Devices(r)' => Devices(q)'
      BY <2>2 DEF Devices
    <3> QED BY <3>1, <3>2
  <2>8. r.looked /\ r.found => unique'[KeyOf(r)] > 0
    BY <1>1, <1>3 DEF Sound
  <2>9. Sound(q)'
    <3>1. q.looked /\ q.found => (unique[KeyOf(q)] > 0)'
      BY <2>2, <2>4, <2>8 DEF KeyOf, Device
    <3>2. q.at = "groups" /\ ~q.failed => Devices(q)' /\ CustomIds(q.p)'
      BY <2>2, <2>6, <2>7
    <3> QED BY <1>1, <1>4, <2>2, <3>1, <3>2 DEF Sound
  <2>10. \A k : Seeks(q, k) => Seeks(r, k)
    BY <2>2, <2>4 DEF Seeks
  <2>11. \A i \in Item : GroupOf(i) \in Stores /\ HasStored(q, i) => HasStored(r, i) /\ r.p = q.p
    BY <2>2, <1>4 DEF HasStored, Stores
  <2>12. reqs' = (reqs \ {r}) \cup {q} /\ ok' = ok
    BY <1>6, <2>1 DEF Go
  <2> QED BY <1>2, <1>3, <2>2, <2>3, <2>9, <2>10, <2>11, <2>12, WentOn
<1> QED BY <1>5, <1>6 DEF UpdateId

LEMMA InsertStep ==
  ASSUME IInv, NEW r \in reqs, NEW g \in Groups, Insert(r, g)
  PROVE  IInv'
<1>1. r \in Request /\ Sound(r) /\ CountsOK
  BY DEF IInv, ReqsOK
<1>2. CountsOK'
  BY <1>1, CountsTyped DEF Step
<1>3. /\ posts' = posts /\ unique' = unique /\ custom' = custom /\ alerted' = alerted
      /\ r.at = "groups" /\ g \in r.pend /\ g \in Stores
  BY DEF Insert, Stores
<1>4. CASE /\ \E n \in 0 .. Len(Group(r.p, g)) :
                docs' = Bump(docs, Range(SubSeq(Group(r.p, g), 1, n)))
           /\ Leave(r, FALSE)
  <2>1. \A i \in Item : docs'[i] >= docs[i]
    BY <1>1, <1>4, BumpFacts DEF CountsOK
  <2>2. reqs' = reqs \ {r} /\ ok' = ok
    BY <1>1, <1>4, LeaveFalse
  <2> QED BY <1>2, <1>3, <2>1, <2>2, LeftSilently
<1>5. CASE docs' = Bump(docs, Range(Group(r.p, g))) /\ Go(r, [r EXCEPT !.pend = @ \ {g}])
  <2>1. PICK q : q = [r EXCEPT !.pend = @ \ {g}]
    OBVIOUS
  <2>2. q \in Request /\ q.p = r.p /\ q.at = "groups" /\ q.pend = r.pend \ {g}
        /\ q.failed = r.failed /\ q.dev = r.dev /\ q.step = r.step /\ q.looked = r.looked
        /\ q.found = r.found
    BY <1>1, <1>3, <2>1 DEF Request
  <2>3. reqs' = (reqs \ {r}) \cup {q} /\ ok' = ok /\ reqs' \subseteq (reqs \ {r}) \cup {q}
    BY <1>5, <2>1 DEF Go
  <2>4. Grows
    BY <1>1, <1>3 DEF Grows, CountsOK
  <2>5. KeyOf(q) = KeyOf(r)
    BY <2>2 DEF KeyOf, Device
  <2>6. g # "device" /\ g # "custom_id"
    BY <1>3, StoresAreGroups
  <2>7. Sound(q)'
    <3>1. Sound(r)'
      BY <1>1, <1>2, <2>4, SoundGrows
    <3>2. Devices(r)' => Devices(q)'
      BY <2>2, <2>6 DEF Devices
    <3>3. q.looked /\ q.found => (unique[KeyOf(q)] > 0)'
      BY <1>1, <1>3, <2>2, <2>5 DEF Sound, KeyOf, Device
    <3>4. q.at = "groups" /\ ~q.failed =>
            Devices(q)' /\ ("custom_id" \notin q.pend => CustomIds(q.p)')
      BY <2>2, <2>6, <3>1, <3>2, <1>3 DEF Sound
    <3> QED BY <1>1, <1>3, <2>2, <2>6, <3>3, <3>4 DEF Sound
  <2>8. ReqsOK'
    BY <1>3, <2>2, <2>3, ReqsMoved DEF IInv
  <2>9. \A s \in reqs' : Sound(s)'
    BY <1>2, <2>3, <2>4, <2>7, AllSound DEF IInv
  <2>10. Slots'
    <3>1. \A k : Seeks(q, k) => Seeks(r, k)
      BY <2>2, <2>5 DEF Seeks
    <3> QED BY <1>3, <2>3, <3>1, SlotsMoved DEF IInv
  <2>11. Answered'
    BY <1>2, <2>3, <2>4, AnsweredGrows DEF IInv
  <2>12. r.p \in Payload /\ g \in Groups \cup {"track"}
    BY <1>1 DEF Request
  <2>13. ASSUME NEW i \in Item, GroupOf(i) \in Stores
         PROVE  /\ alerted'[i] + Cardinality(Passed(i)') <= docs'[i]
                /\ \A p \in Payload : In(i, p) /\ IsBatch(p) =>
                     ok'[p] + Cardinality(PassedIn(i, p)') <= docs'[i]
    <3>1. docs[i] \in Nat /\ docs'[i] \in Nat /\ alerted[i] \in Nat
      BY <1>1, <1>2 DEF CountsOK
    <3>2. docs'[i] = IF InGroup(r.p, g, i) THEN docs[i] + 1 ELSE docs[i]
      BY <1>1, <1>5, BumpFacts DEF CountsOK, InGroup
    <3>3. InGroup(r.p, g, i) <=> In(i, r.p) /\ GroupOf(i) = g
      BY <2>6, <2>12, GroupFacts
    <3>4. ~InGroup(r.p, g, i) => (HasStored(q, i) => HasStored(r, i))
      BY <2>2, <3>3, <1>3 DEF HasStored
    <3>5. /\ Cardinality(Passed(i)) \in Nat /\ Cardinality(Passed(i)') \in Nat
          /\ Cardinality(Passed(i)') <= Cardinality(Passed(i)) + 1
          /\ ~InGroup(r.p, g, i) => Cardinality(Passed(i)') <= Cardinality(Passed(i))
      BY <2>3, <3>4, Moved DEF IInv
    <3>6. alerted[i] + Cardinality(Passed(i)) <= docs[i]
      BY <2>13 DEF IInv, Counts
    <3>7. alerted'[i] + Cardinality(Passed(i)') <= docs'[i]
      BY <1>3, <3>1, <3>2, <3>5, <3>6
    <3>8. ASSUME NEW p \in Payload, In(i, p), IsBatch(p)
          PROVE  ok'[p] + Cardinality(PassedIn(i, p)') <= docs'[i]
      <4>1. /\ Cardinality(PassedIn(i, p)) \in Nat /\ Cardinality(PassedIn(i, p)') \in Nat
            /\ Cardinality(PassedIn(i, p)') <= Cardinality(PassedIn(i, p)) + 1
            /\ ~InGroup(r.p, g, i) => Cardinality(PassedIn(i, p)') <= Cardinality(PassedIn(i, p))
        BY <2>2, <2>3, <3>4, MovedIn DEF IInv
      <4>2. ok[p] \in Nat /\ ok'[p] = ok[p] /\ ok[p] + Cardinality(PassedIn(i, p)) <= docs[i]
        BY <1>1, <2>3, <2>13, <3>8 DEF CountsOK, IInv, Counts
      <4> QED BY <3>1, <3>2, <4>1, <4>2
    <3> QED BY <3>7, <3>8
  <2>14. Counts'
    BY <2>13 DEF Counts
  <2> QED BY <1>2, <2>8, <2>9, <2>10, <2>11, <2>14 DEF IInv
<1> QED BY <1>4, <1>5 DEF Insert
LEMMA FindUniqueStep ==
  ASSUME IInv, NEW r \in reqs, FindUnique(r)
  PROVE  IInv'
<1>1. r \in Request /\ Sound(r) /\ CountsOK
  BY DEF IInv, ReqsOK
<1>2. CountsOK'
  BY <1>1, CountsTyped DEF Step
<1>3. /\ posts' = posts /\ unique' = unique /\ custom' = custom /\ alerted' = alerted
      /\ docs' = docs /\ r.at = "groups" /\ "device" \in r.pend /\ ~r.looked
  BY DEF FindUnique
<1>4. Grows
  BY <1>1, <1>3 DEF Grows, CountsOK
<1>5. Sound(r)'
  BY <1>1, <1>2, <1>4, SoundGrows
<1>6. KeyOf(r) \in Key /\ Device(r) \in Item
  BY <1>1, <1>3, DeviceFacts DEF Sound
<1>7. CASE GroupFails(r, "device")
  BY <1>2, <1>3, <1>7, GroupFailsStep
<1>8. CASE /\ r.step = "session" /\ Session[Device(r)] = NoSession
           /\ Go(r, [r EXCEPT !.step = "device"])
  <2>1. PICK q : q = [r EXCEPT !.step = "device"]
    OBVIOUS
  <2>2. q \in Request /\ q.p = r.p /\ q.at = r.at /\ q.pend = r.pend /\ q.failed = r.failed
        /\ q.dev = r.dev /\ q.step = "device" /\ q.looked = r.looked /\ q.found = r.found
    BY <1>1, <2>1 DEF Request
  <2>3. Devices(r)' => Devices(q)'
    <3>1. HasSession(Device(r))'
      BY <1>8 DEF HasSession, Device
    <3> QED BY <2>2, <3>1 DEF Devices, Device
  <2>4. Sound(q)'
    <3>1. q.at = "groups" /\ ~q.failed =>
            Devices(q)' /\ ("custom_id" \notin q.pend => CustomIds(q.p)')
      BY <1>5, <2>2, <2>3 DEF Sound
    <3> QED BY <1>1, <1>3, <2>2, <3>1 DEF Sound
  <2>5. \A k : ~Seeks(q, k)
    BY <1>3, <2>2 DEF Seeks
  <2>6. \A i \in Item : HasStored(q, i) => HasStored(r, i) /\ r.p = q.p
    BY <2>2 DEF HasStored
  <2>7. reqs' = (reqs \ {r}) \cup {q} /\ ok' = ok
    BY <1>8, <2>1 DEF Go
  <2> QED BY <1>2, <1>3, <1>4, <2>2, <2>4, <2>5, <2>6, <2>7, WentOn
<1>9. CASE Go(r, [r EXCEPT !.looked = TRUE, !.found = unique[KeyOf(r)] > 0])
  <2>1. PICK found : found = (unique[KeyOf(r)] > 0)
    OBVIOUS
  <2>2. PICK q : q = [r EXCEPT !.looked = TRUE, !.found = found]
    OBVIOUS
  <2>3. unique[KeyOf(r)] \in Nat /\ found \in BOOLEAN
    BY <1>1, <1>6, <2>1 DEF CountsOK
  <2>4. q \in Request /\ q.p = r.p /\ q.at = r.at /\ q.pend = r.pend /\ q.failed = r.failed
        /\ q.dev = r.dev /\ q.step = r.step /\ q.looked /\ q.found = found
    BY <1>1, <2>2, <2>3 DEF Request
  <2>5. KeyOf(q) = KeyOf(r)
    BY <2>4 DEF KeyOf, Device
  <2>6. reqs' = (reqs \ {r}) \cup {q} /\ ok' = ok /\ reqs' \subseteq (reqs \ {r}) \cup {q}
    BY <1>9, <2>1, <2>2 DEF Go
  <2>7. Sound(q)'
    <3>1. q.found => (unique[KeyOf(q)] > 0)'
      BY <1>3, <2>1, <2>4, <2>5 DEF KeyOf, Device
    <3>2. Devices(r)' => Devices(q)'
      BY <2>4 DEF Devices
    <3>3. q.at = "groups" /\ ~q.failed =>
            Devices(q)' /\ ("custom_id" \notin q.pend => CustomIds(q.p)')
      BY <1>5, <2>4, <3>2 DEF Sound
    <3> QED BY <1>1, <1>3, <2>4, <3>1, <3>3 DEF Sound
  <2>8. ReqsOK'
    BY <1>3, <2>4, <2>6, ReqsMoved DEF IInv
  <2>9. \A s \in reqs' : Sound(s)'
    BY <1>2, <1>4, <2>6, <2>7, AllSound DEF IInv
  <2>10. ASSUME NEW k \in Key PROVE unique'[k] + Cardinality(Seekers(k)') <= Concurrency
    <3>1. /\ Cardinality(Seekers(k)) \in Nat /\ Cardinality(Seekers(k)') \in Nat
          /\ Cardinality(Seekers(k)') <= Cardinality(reqs)
          /\ (Seeks(q, k) => Seeks(r, k)) => Cardinality(Seekers(k)') <= Cardinality(Seekers(k))
      BY <2>6, MovedSeekers DEF IInv
    <3>2. unique[k] \in Nat /\ unique[k] + Cardinality(Seekers(k)) <= Concurrency /\ Concurrency \in Nat
      BY <1>1, <2>10, IngestAssumption DEF CountsOK, IInv, Slots
    <3>3. CASE Seeks(q, k)
      <4>0. KeyOf(r) = k /\ ~q.found
        BY <2>5, <3>3 DEF Seeks
      <4>3. ~found
        BY <2>4, <4>0
      <4>4. ~(unique[KeyOf(r)] > 0)
        BY <2>1, <4>3
      <4>1. unique[k] = 0
        BY <3>2, <4>0, <4>4
      <4>2. Cardinality(reqs) \in Nat /\ Cardinality(reqs) <= Concurrency
        BY FS_CardinalityType DEF IInv, ReqsOK
      <4> QED BY <1>3, <3>1, <3>2, <4>1, <4>2
    <3>4. CASE ~Seeks(q, k)
      BY <1>3, <3>1, <3>2, <3>4
    <3> QED BY <3>3, <3>4
  <2>11. Slots'
    BY <2>10 DEF Slots, Key
  <2>12. Counts'
    <3>1. \A i \in Item : HasStored(q, i) => HasStored(r, i) /\ r.p = q.p
      BY <2>4 DEF HasStored
    <3>2. \A i \in Item : docs'[i] >= docs[i]
      BY <1>1, <1>3 DEF CountsOK
    <3> QED BY <1>2, <1>3, <2>6, <3>1, <3>2, CountsMoved DEF IInv
  <2>13. Answered'
    BY <1>2, <1>4, <2>6, AnsweredGrows DEF IInv
  <2> QED BY <1>2, <2>8, <2>9, <2>11, <2>12, <2>13 DEF IInv
<1> QED BY <1>7, <1>8, <1>9 DEF FindUnique

\* The request after its device, or the session of it, has a document.
LEMMA WrittenFacts ==
  ASSUME NEW r \in Request, "device" \in r.pend, r.dev \in DOMAIN Group(r.p, "device"),
         NEW q, q = Written(r)
  PROVE  /\ q \in Request /\ q.p = r.p /\ q.at = r.at /\ q.failed = r.failed /\ ~q.looked
         /\ \/ /\ r.step = "session" /\ q.step = "device" /\ q.dev = r.dev /\ q.pend = r.pend
            \/ /\ r.step = "device" /\ r.dev = Len(Group(r.p, "device"))
               /\ q.dev = r.dev /\ q.pend = r.pend \ {"device"} /\ q.step = "device"
            \/ /\ r.step = "device" /\ r.dev + 1 \in DOMAIN Group(r.p, "device")
               /\ q.dev = r.dev + 1 /\ q.pend = r.pend /\ q.step = "session"
<1>1. PICK h : h = [r EXCEPT !.looked = FALSE]
  OBVIOUS
<1>2. h \in Request /\ h.p = r.p /\ h.at = r.at /\ h.failed = r.failed /\ ~h.looked
      /\ h.step = r.step /\ h.dev = r.dev /\ h.pend = r.pend
  BY <1>1 DEF Request
<1>3. Group(r.p, "device") \in Seq(Item)
  <2>1. r.p \in Payload /\ "device" \in Groups
    BY DEF Request, Groups
  <2> QED BY <2>1, GroupFacts
<1>4. r.step \in {"session", "device"} /\ r.dev \in Nat \ {0}
  BY DEF Request
<1>5. CASE r.step = "session"
  <2>1. q = [h EXCEPT !.step = "device"]
    BY <1>1, <1>5 DEF Written
  <2> QED BY <1>2, <1>5, <2>1 DEF Request
<1>6. CASE r.step = "device" /\ r.dev = Len(Group(r.p, "device"))
  <2>1. q = [h EXCEPT !.pend = h.pend \ {"device"}]
    BY <1>1, <1>6 DEF Written
  <2> QED BY <1>2, <1>6, <2>1 DEF Request
<1>7. CASE r.step = "device" /\ r.dev # Len(Group(r.p, "device"))
  <2>1. q = [h EXCEPT !.dev = h.dev + 1, !.step = "session"]
    BY <1>1, <1>7 DEF Written
  <2>2. r.dev + 1 \in DOMAIN Group(r.p, "device")
    BY <1>3, <1>4, <1>7
  <2>3. PICK e : e = [h EXCEPT !.dev = h.dev + 1]
    OBVIOUS
  <2>4. h.dev + 1 \in Nat \ {0}
    BY <1>2, <1>4
  <2>5. e \in Request /\ e.p = r.p /\ e.at = r.at /\ e.failed = r.failed /\ ~e.looked
        /\ e.dev = r.dev + 1 /\ e.pend = r.pend
    BY <1>2, <2>3, <2>4 DEF Request
  <2>6. q = [e EXCEPT !.step = "session"]
    BY <2>1, <2>3
  <2>7. q \in Request
    BY <2>5, <2>6 DEF Request
  <2>8. /\ q.p = r.p /\ q.at = r.at /\ q.failed = r.failed /\ ~q.looked
        /\ q.dev = r.dev + 1 /\ q.pend = r.pend /\ q.step = "session"
    BY <2>5, <2>6 DEF Request
  <2> QED BY <1>7, <2>2, <2>7, <2>8
<1> QED BY <1>4, <1>5, <1>6, <1>7
LEMMA WriteUniqueStep ==
  ASSUME IInv, NEW r \in reqs, WriteUnique(r)
  PROVE  IInv'
<1>1. r \in Request /\ Sound(r) /\ CountsOK
  BY DEF IInv, ReqsOK
<1>2. CountsOK'
  BY <1>1, CountsTyped DEF Step
<1>3. /\ posts' = posts /\ custom' = custom /\ alerted' = alerted
      /\ docs' = docs /\ r.looked
  BY DEF WriteUnique
<1>4. r.at = "groups" /\ "device" \in r.pend /\ r.dev \in DOMAIN Group(r.p, "device")
  BY <1>1, <1>3 DEF Sound
<1>5. KeyOf(r) \in Key /\ Device(r) \in Item
  BY <1>1, <1>4, DeviceFacts
<1>6. CASE GroupFails(r, "device") /\ UNCHANGED unique
  BY <1>2, <1>3, <1>4, <1>6, GroupFailsStep
<1>7. CASE /\ unique' = IF r.found THEN unique ELSE [unique EXCEPT ![KeyOf(r)] = @ + 1]
           /\ Go(r, Written(r))
  <2>1. PICK q : q = Written(r)
    OBVIOUS
  <2>2. /\ q \in Request /\ q.p = r.p /\ q.at = r.at /\ q.failed = r.failed /\ ~q.looked
        /\ \/ /\ r.step = "session" /\ q.step = "device" /\ q.dev = r.dev /\ q.pend = r.pend
           \/ /\ r.step = "device" /\ r.dev = Len(Group(r.p, "device"))
              /\ q.dev = r.dev /\ q.pend = r.pend \ {"device"} /\ q.step = "device"
           \/ /\ r.step = "device" /\ r.dev + 1 \in DOMAIN Group(r.p, "device")
              /\ q.dev = r.dev + 1 /\ q.pend = r.pend /\ q.step = "session"
    BY <1>1, <1>4, <2>1, WrittenFacts
  <2>3. reqs' = (reqs \ {r}) \cup {q} /\ ok' = ok /\ reqs' \subseteq (reqs \ {r}) \cup {q}
    BY <1>7, <2>1 DEF Go
  <2>4. \A k \in Key : /\ unique[k] \in Nat
                       /\ unique'[k] = IF ~r.found /\ k = KeyOf(r) THEN unique[k] + 1 ELSE unique[k]
    BY <1>1, <1>5, <1>7 DEF CountsOK
  <2>5. unique'[KeyOf(r)] > 0
    <3>1. CASE r.found
      <4>1. unique[KeyOf(r)] > 0
        BY <1>1, <1>3, <3>1 DEF Sound
      <4> QED BY <1>5, <2>4, <3>1, <4>1
    <3>2. CASE ~r.found
      BY <1>5, <2>4, <3>2
    <3> QED BY <3>1, <3>2
  <2>6. Grows
    BY <1>3, <2>4 DEF Grows
  <2>7. Sound(r)'
    BY <1>1, <1>2, <2>6, SoundGrows
  <2>8. /\ r.step = "session" => HasSession(Device(r))'
        /\ r.step = "device"  => HasDevice(Device(r))'
    <3>1. r.step = "session" => HasSession(Device(r))'
      BY <2>5 DEF KeyOf, HasSession, Device
    <3>2. r.step = "device"  => HasDevice(Device(r))'
      BY <2>5 DEF KeyOf, HasDevice, Device
    <3> QED BY <3>1, <3>2
  <2>9. Devices(r)' => Devices(q)'
    <3> SUFFICES ASSUME Devices(r)', NEW j \in DOMAIN Group(r.p, "device")
                 PROVE  LET i == Group(r.p, "device")[j]
                        IN  /\ ("device" \notin q.pend \/ j < q.dev) => HasSession(i)' /\ HasDevice(i)'
                            /\ j = q.dev /\ q.step = "device" => HasSession(i)'
      BY <2>2 DEF Devices
    <3> DEFINE i == Group(r.p, "device")[j]
    <3>1. /\ j < r.dev => HasSession(i)' /\ HasDevice(i)'
          /\ j = r.dev /\ r.step = "device" => HasSession(i)'
      BY DEF Devices
    <3>2. j = r.dev => i = Device(r)
      BY DEF Device
    <3>3. Group(r.p, "device") \in Seq(Item)
      BY <1>1, GroupFacts DEF Request, Groups
    <3>4. j \in Nat /\ j <= Len(Group(r.p, "device")) /\ r.dev \in Nat
      BY <1>1, <3>3 DEF Request
    <3>5. j = r.dev => /\ r.step = "session" => HasSession(i)'
                       /\ r.step = "device"  => HasSession(i)' /\ HasDevice(i)'
      BY <2>8, <3>1, <3>2
    <3> HIDE DEF i
    <3>6. CASE r.step = "session" /\ q.step = "device" /\ q.dev = r.dev /\ q.pend = r.pend
      BY <1>4, <3>1, <3>5, <3>6 DEF i
    <3>7. CASE /\ r.step = "device" /\ r.dev = Len(Group(r.p, "device"))
               /\ q.dev = r.dev /\ q.step = "device"
      <4>1. j < r.dev \/ j = r.dev
        BY <3>4, <3>7
      <4> QED BY <3>1, <3>5, <3>7, <4>1 DEF i
    <3>8. CASE r.step = "device" /\ q.dev = r.dev + 1 /\ q.pend = r.pend /\ q.step = "session"
      <4>1. j < q.dev => j < r.dev \/ j = r.dev
        BY <3>4, <3>8
      <4> QED BY <1>4, <3>1, <3>5, <3>8, <4>1 DEF i
    <3> QED BY <2>2, <3>6, <3>7, <3>8
  <2>10. Sound(q)'
    <3>1. q.at = "groups" /\ ~q.failed =>
            Devices(q)' /\ ("custom_id" \notin q.pend => CustomIds(q.p)')
      BY <2>2, <2>7, <2>9 DEF Sound
    <3>2. "device" \in q.pend => q.dev \in DOMAIN Group(q.p, "device")
      BY <1>4, <2>2
    <3>3. q.at = "groups" /\ IsBatch(q.p)
      BY <1>1, <1>4, <2>2 DEF Sound
    <3> QED BY <2>2, <3>1, <3>2, <3>3 DEF Sound, IsBatch
  <2>11. ReqsOK'
    BY <1>3, <2>2, <2>3, ReqsMoved DEF IInv
  <2>12. \A s \in reqs' : Sound(s)'
    BY <1>2, <2>3, <2>6, <2>10, AllSound DEF IInv
  <2>13. ASSUME NEW k \in Key PROVE unique'[k] + Cardinality(Seekers(k)') <= Concurrency
    <3>1. ~Seeks(q, k)
      BY <2>2 DEF Seeks
    <3>2. /\ Cardinality(Seekers(k)) \in Nat /\ Cardinality(Seekers(k)') \in Nat
          /\ Cardinality(Seekers(k)') <= Cardinality(Seekers(k))
          /\ Seeks(r, k) => Cardinality(Seekers(k)') + 1 <= Cardinality(Seekers(k))
      BY <2>3, <3>1, MovedSeekers DEF IInv
    <3>3. unique[k] + Cardinality(Seekers(k)) <= Concurrency /\ Concurrency \in Nat
      BY <2>13, IngestAssumption DEF IInv, Slots
    <3>4. ~r.found /\ k = KeyOf(r) => Seeks(r, k)
      BY <1>3 DEF Seeks
    <3> QED BY <2>4, <3>2, <3>3, <3>4
  <2>14. Slots'
    BY <2>13 DEF Slots, Key
  <2>15. Counts'
    <3>1. \A i \in Item : GroupOf(i) \in Stores /\ HasStored(q, i) => HasStored(r, i) /\ r.p = q.p
      BY <2>2 DEF HasStored, Stores
    <3>2. \A i \in Item : docs'[i] >= docs[i]
      BY <1>1, <1>3 DEF CountsOK
    <3> QED BY <1>2, <1>3, <2>3, <3>1, <3>2, CountsMoved DEF IInv
  <2>16. Answered'
    BY <1>2, <2>3, <2>6, AnsweredGrows DEF IInv
  <2> QED BY <1>2, <2>11, <2>12, <2>14, <2>15, <2>16 DEF IInv
<1> QED BY <1>6, <1>7 DEF WriteUnique

\* What is known of a request that is answered with success.
LEMMA FinishedFacts ==
  ASSUME IInv, NEW r \in reqs, r.at = "groups", r.pend = {}, ~r.failed
  PROVE  /\ IsBatch(r.p) /\ CustomIds(r.p)
         /\ \A i \in Item : InGroup(r.p, "device", i) => HasSession(i) /\ HasDevice(i)
         /\ \A i \in Item : In(i, r.p) => HasStored(r, i)
<1>1. Sound(r)
  BY DEF IInv
<1>2. IsBatch(r.p) /\ CustomIds(r.p) /\ Devices(r)
  BY <1>1 DEF Sound
<1>3. \A i \in Item : InGroup(r.p, "device", i) => HasSession(i) /\ HasDevice(i)
  BY <1>2 DEF Devices, InGroup, Range
<1> QED BY <1>2, <1>3 DEF HasStored

LEMMA FinishStep ==
  ASSUME IInv, NEW r \in reqs, Finish(r)
  PROVE  IInv'
<1>1. r \in Request /\ CountsOK /\ r.p \in Payload
  BY DEF IInv, ReqsOK, Request
<1>2. CountsOK'
  BY <1>1, CountsTyped DEF Step
<1>3. /\ posts' = posts /\ custom' = custom /\ unique' = unique /\ docs' = docs
      /\ r.at = "groups" /\ r.pend = {}
  BY DEF Finish
<1>4. \A i \in Item : docs'[i] >= docs[i]
  BY <1>1, <1>3 DEF CountsOK
<1>5. CASE r.failed /\ Leave(r, FALSE) /\ UNCHANGED <<alerted, kafka>>
  <2>1. reqs' = reqs \ {r} /\ ok' = ok
    BY <1>1, <1>5, LeaveFalse
  <2> QED BY <1>2, <1>3, <1>4, <1>5, <2>1, LeftSilently
<1>6. CASE ~r.failed /\ Leave(r, TRUE) /\ alerted' = Bump(alerted, Range(Group(r.p, "error")))
  <2>1. /\ reqs' = reqs \ {r}
        /\ \A p \in Payload : ok'[p] = IF p = r.p THEN ok[p] + 1 ELSE ok[p]
    BY <1>1, <1>6, LeaveTrue
  <2>2. /\ IsBatch(r.p) /\ CustomIds(r.p)
        /\ \A i \in Item : InGroup(r.p, "device", i) => HasSession(i) /\ HasDevice(i)
        /\ \A i \in Item : In(i, r.p) => HasStored(r, i)
    BY <1>3, <1>6, FinishedFacts
  <2>3. reqs' \subseteq (reqs \ {r}) \cup {r} /\ r \notin reqs'
    BY <2>1
  <2>4. Grows
    BY <1>1, <1>3 DEF Grows, CountsOK
  <2>5. ReqsOK'
    BY <1>3, <2>3, ReqsMoved DEF IInv
  <2>6. \A s \in reqs' : Sound(s)'
    BY <1>2, <2>3, <2>4, AllSound DEF IInv
  <2>7. Slots'
    BY <1>3, <2>3, SlotsMoved DEF IInv
  <2>8. ASSUME NEW i \in Item, GroupOf(i) \in Stores
        PROVE  /\ alerted'[i] + Cardinality(Passed(i)') <= docs'[i]
               /\ \A p \in Payload : In(i, p) /\ IsBatch(p) =>
                    ok'[p] + Cardinality(PassedIn(i, p)') <= docs'[i]
    <3>1. docs'[i] = docs[i] /\ docs[i] \in Nat /\ alerted[i] \in Nat
      BY <1>1, <1>3 DEF CountsOK
    <3>2. alerted'[i] = IF InGroup(r.p, "error", i) THEN alerted[i] + 1 ELSE alerted[i]
      BY <1>1, <1>6, BumpFacts DEF CountsOK, InGroup
    <3>3. InGroup(r.p, "error", i) => In(i, r.p)
      BY <1>1, GroupFacts DEF Groups
    <3>4. /\ Cardinality(Passed(i)) \in Nat /\ Cardinality(Passed(i)') \in Nat
          /\ Cardinality(Passed(i)') <= Cardinality(Passed(i))
          /\ HasStored(r, i) => Cardinality(Passed(i)') + 1 <= Cardinality(Passed(i))
      BY <2>3, Moved DEF IInv
    <3>5. alerted[i] + Cardinality(Passed(i)) <= docs[i]
      BY <2>8 DEF IInv, Counts
    <3>6. InGroup(r.p, "error", i) => HasStored(r, i)
      BY <2>2, <3>3
    <3>7. alerted'[i] + Cardinality(Passed(i)') <= docs'[i]
      BY <3>1, <3>2, <3>4, <3>5, <3>6
    <3>8. ASSUME NEW p \in Payload, In(i, p), IsBatch(p)
          PROVE  ok'[p] + Cardinality(PassedIn(i, p)') <= docs'[i]
      <4>1. /\ Cardinality(PassedIn(i, p)) \in Nat /\ Cardinality(PassedIn(i, p)') \in Nat
            /\ Cardinality(PassedIn(i, p)') <= Cardinality(PassedIn(i, p))
            /\ HasStored(r, i) /\ r.p = p =>
                 Cardinality(PassedIn(i, p)') + 1 <= Cardinality(PassedIn(i, p))
        BY <2>3, MovedIn DEF IInv
      <4>2. ok[p] \in Nat /\ ok[p] + Cardinality(PassedIn(i, p)) <= docs[i]
        BY <1>1, <2>8, <3>8 DEF CountsOK, IInv, Counts
      <4>3. p = r.p => HasStored(r, i)
        BY <2>2, <3>8
      <4> QED BY <2>1, <3>1, <4>1, <4>2, <4>3
    <3> QED BY <3>7, <3>8
  <2>9. Counts'
    BY <2>8 DEF Counts
  <2>10. Answered'
    <3>1. \A i \in Item : (HasSession(i) => HasSession(i)') /\ (HasDevice(i) => HasDevice(i)')
      BY <1>1, <1>2, <2>4, HasGrows
    <3>2. \A p : CustomIds(p) => CustomIds(p)'
      BY <2>4, CustomGrows
    <3>3. \A p \in Payload : ok'[p] > 0 => ok[p] > 0 \/ p = r.p
      BY <2>1
    <3> QED BY <2>2, <3>1, <3>2, <3>3 DEF IInv, Answered
  <2> QED BY <1>2, <2>5, <2>6, <2>7, <2>9, <2>10 DEF IInv
<1> QED BY <1>5, <1>6 DEF Finish
LEMMA PostStep ==
  ASSUME IInv, NEW p \in Payload, Post(p)
  PROVE  IInv'
<1>1. ReqsOK /\ CountsOK /\ posts \in Nat /\ MaxPosts \in Nat
  BY IngestAssumption DEF IInv, ReqsOK
<1>2. /\ unique' = unique /\ custom' = custom /\ alerted' = alerted /\ docs' = docs
      /\ kafka' = kafka /\ ok' = ok /\ posts < MaxPosts /\ posts' = posts + 1
  BY DEF Post
<1>3. CountsOK'
  BY <1>1, <1>2 DEF CountsOK, Key
<1>4. Grows
  BY <1>1, <1>2 DEF Grows, CountsOK
<1>5. PICK q : q = NewRequest(p)
  OBVIOUS
<1>6. q \in Request
  BY <1>1, <1>2, <1>5 DEF NewRequest, Request
<1>7. q.at = "body" /\ q.pend = {} /\ q.dev = 1 /\ q.step = "session" /\ ~q.looked
  BY <1>5 DEF NewRequest
<1>8. Sound(q)'
  BY <1>7 DEF Sound
<1>9. reqs' = reqs \/ (reqs' = reqs \cup {q} /\ Cardinality(reqs) < Concurrency)
  <2>1. Cardinality(reqs) \in Nat /\ Concurrency \in Nat
    BY <1>1, FS_CardinalityType, IngestAssumption DEF ReqsOK
  <2> QED BY <1>5, <2>1 DEF Post
<1>10. ReqsOK'
  <2>1. Cardinality(reqs) \in Nat /\ Concurrency \in Nat
    BY <1>1, FS_CardinalityType, IngestAssumption DEF ReqsOK
  <2>2. CASE reqs' = reqs
    BY <1>1, <1>2, <2>2 DEF ReqsOK
  <2>3. CASE reqs' = reqs \cup {q} /\ Cardinality(reqs) < Concurrency
    <3>1. /\ IsFiniteSet(reqs \cup {q})
          /\ Cardinality(reqs \cup {q}) = IF q \in reqs THEN Cardinality(reqs)
                                                        ELSE Cardinality(reqs) + 1
      BY <1>1, FS_AddElement DEF ReqsOK
    <3>2. IsFiniteSet(reqs') /\ Cardinality(reqs') <= Concurrency
      BY <2>1, <2>3, <3>1
    <3> QED BY <1>1, <1>2, <1>6, <2>3, <3>2 DEF ReqsOK
  <2> QED BY <1>9, <2>2, <2>3
<1>11. ASSUME NEW s \in reqs' PROVE Sound(s)'
  <2>1. CASE s = q
    BY <1>8, <2>1
  <2>2. CASE s # q
    <3>1. s \in Request /\ Sound(s)
      BY <1>9, <2>2 DEF IInv, ReqsOK
    <3> QED BY <1>1, <1>3, <1>4, <3>1, SoundGrows
  <2> QED BY <2>1, <2>2
<1>12. \A i : ~HasStored(q, i)
  BY <1>7 DEF HasStored
<1>13. \A k : ~Seeks(q, k)
  BY <1>7 DEF Seeks
<1>14. \A k : Seekers(k)' = Seekers(k)
  BY <1>9, <1>13 DEF Seekers, Seeks, KeyOf, Device
<1>15. \A i : Passed(i)' = Passed(i)
  BY <1>9, <1>12 DEF Passed, HasStored
<1>16. \A i, x : PassedIn(i, x)' = PassedIn(i, x)
  BY <1>9, <1>12 DEF PassedIn, HasStored
<1>17. Slots'
  BY <1>2, <1>14 DEF IInv, Slots, Key
<1>18. Counts'
  BY <1>2, <1>15, <1>16 DEF IInv, Counts
<1>19. Answered'
  BY <1>1, <1>2, <1>3, <1>4, AnsweredGrows DEF IInv
<1> QED BY <1>3, <1>10, <1>11, <1>17, <1>18, <1>19 DEF IInv

LEMMA InitIInv == Init => IInv
<1> SUFFICES ASSUME Init PROVE IInv
  OBVIOUS
<1>1. IsFiniteSet({}) /\ Cardinality({}) = 0
  BY FS_EmptySet
<1>2. ReqsOK
  BY <1>1, IngestAssumption DEF Init, ReqsOK
<1>3. CountsOK
  BY DEF Init, CountsOK
<1>4. \A r \in reqs : Sound(r)
  BY DEF Init
<1>5. (\A k : Seekers(k) = {}) /\ (\A i : Passed(i) = {}) /\ (\A i, p : PassedIn(i, p) = {})
  BY DEF Init, Seekers, Passed, PassedIn
<1>6. ASSUME NEW k \in Key PROVE unique[k] + Cardinality(Seekers(k)) <= Concurrency
  <2>1. unique[k] = 0 /\ Cardinality(Seekers(k)) = 0
    BY <1>1, <1>5 DEF Init
  <2>2. Concurrency \in Nat
    BY IngestAssumption
  <2> QED BY <2>1, <2>2
<1>7. Counts
  BY <1>1, <1>5 DEF Init, Counts
<1>8. Answered
  BY DEF Init, Answered
<1> QED BY <1>2, <1>3, <1>4, <1>6, <1>7, <1>8 DEF IInv, Slots

LEMMA StepIInv == ASSUME IInv, [Next]_vars PROVE IInv'
<1>1. ASSUME NEW p \in Payload, Post(p) PROVE IInv'
  BY <1>1, PostStep
<1>2. ASSUME NEW r \in reqs, Step(r) PROVE IInv'
  BY <1>2, BodyStep, FindAppStep, UpdateIdStep, FindUniqueStep, WriteUniqueStep, FinishStep,
     InsertStep DEF Step
<1>3. CASE UNCHANGED vars
  <2>1. /\ reqs' = reqs /\ posts' = posts /\ docs' = docs /\ unique' = unique /\ custom' = custom
        /\ alerted' = alerted /\ kafka' = kafka /\ ok' = ok
    BY <1>3 DEF vars
  <2>2. ReqsOK' /\ CountsOK'
    BY <2>1 DEF IInv, ReqsOK, CountsOK, Key
  <2>3. Grows
    BY <2>1 DEF Grows, IInv, CountsOK
  <2>4. \A r \in reqs' : Sound(r)'
    BY <2>1, <2>2, <2>3, SoundGrows DEF IInv, ReqsOK
  <2>5. (\A k : Seekers(k)' = Seekers(k)) /\ (\A i : Passed(i)' = Passed(i))
        /\ (\A i, p : PassedIn(i, p)' = PassedIn(i, p))
    BY <2>1 DEF Seekers, Seeks, KeyOf, Device, Passed, PassedIn, HasStored
  <2>6. Slots'
    BY <2>1, <2>5 DEF IInv, Slots, Key
  <2>7. Counts'
    BY <2>1, <2>5 DEF IInv, Counts
  <2>8. Answered'
    BY <2>1, <2>2, <2>3, AnsweredGrows DEF IInv
  <2> QED BY <2>2, <2>4, <2>6, <2>7, <2>8 DEF IInv
<1> QED BY <1>1, <1>2, <1>3 DEF Next

LEMMA Invariant == Spec => []IInv
BY InitIInv, StepIInv, PTL DEF Spec

-----------------------------------------------------------------------------
(***************************************************************************)
(* SuccessIsStored: whatever fails and however the requests interleave,    *)
(* what a client was told is stored is stored, as often as it was told,    *)
(* and a device or session has at most as many documents as there are      *)
(* slots (record_logs.rs: record, insert_group; model.rs: insert_unique).  *)
(***************************************************************************)
LEMMA StoredHolds == IInv => SuccessIsStored
<1> SUFFICES ASSUME IInv PROVE SuccessIsStored
  OBVIOUS
<1>1. TypeOK
  BY DEF IInv, ReqsOK, CountsOK, TypeOK, Sound
<1>2. ASSUME NEW k \in Key PROVE unique[k] <= Concurrency
  <2>1. IsFiniteSet(Seekers(k))
    <3>1. Seekers(k) \in SUBSET reqs
      BY DEF Seekers
    <3> QED BY <3>1, FS_Subset DEF IInv, ReqsOK
  <2>2. Cardinality(Seekers(k)) \in Nat /\ unique[k] \in Nat /\ Concurrency \in Nat
    BY <2>1, FS_CardinalityType, IngestAssumption DEF IInv, CountsOK
  <2>3. unique[k] + Cardinality(Seekers(k)) <= Concurrency
    BY DEF IInv, Slots
  <2> QED BY <2>2, <2>3
<1>3. ASSUME NEW p \in Payload, NEW i \in Item, ok[p] > 0, IsBatch(p)
      PROVE  /\ GroupOf(i) \in Stores /\ In(i, p) => docs[i] >= ok[p]
             /\ InGroup(p, "device", i) =>
                  /\ unique[<<"device", Uuid[i]>>] > 0
                  /\ Session[i] # NoSession => unique[<<"session", Session[i]>>] > 0
             /\ InGroup(p, "custom_id", i) => custom[i]
  <2>1. ASSUME GroupOf(i) \in Stores, In(i, p) PROVE docs[i] >= ok[p]
    <3>1. IsFiniteSet(PassedIn(i, p))
      <4>1. PassedIn(i, p) \in SUBSET reqs
        BY DEF PassedIn
      <4> QED BY <4>1, FS_Subset DEF IInv, ReqsOK
    <3>2. Cardinality(PassedIn(i, p)) \in Nat /\ ok[p] \in Nat /\ docs[i] \in Nat
      BY <3>1, FS_CardinalityType DEF IInv, CountsOK
    <3>3. ok[p] + Cardinality(PassedIn(i, p)) <= docs[i]
      BY <1>3, <2>1 DEF IInv, Counts
    <3> QED BY <3>2, <3>3
  <2>2. /\ InGroup(p, "device", i) => HasSession(i) /\ HasDevice(i)
        /\ InGroup(p, "custom_id", i) => custom[i]
    BY <1>3 DEF IInv, Answered, CustomIds
  <2> QED BY <2>1, <2>2 DEF HasSession, HasDevice
<1> QED BY <1>1, <1>2, <1>3 DEF SuccessIsStored, IsBatch, Stores

THEOREM StoredOnSuccess == Spec => []SuccessIsStored
BY Invariant, StoredHolds, PTL

(***************************************************************************)
(* A record of an error is one occurrence, that one request reports, and a *)
(* recording (a raw body, payload_handler) has none.                       *)
(***************************************************************************)
ErrorsAreOwn ==
  \A i \in Item, p \in Payload : GroupOf(i) = "error" /\ In(i, p) =>
    /\ Content[p].form # "raw"
    /\ \A q \in Payload : In(i, q) => q = p

Counted ==
  \A i \in Item, p \in Payload : GroupOf(i) = "error" /\ In(i, p) => alerted[i] = ok[p]

LEMMA CountedStep ==
  ASSUME ErrorsAreOwn, IInv, Counted, [Next]_vars
  PROVE  Counted'
<1>1. ASSUME alerted' = alerted, ok' = ok PROVE Counted'
  BY <1>1 DEF Counted
<1>2. ASSUME NEW p \in Payload, Post(p) PROVE Counted'
  BY <1>1, <1>2 DEF Post
<1>3. CASE UNCHANGED vars
  BY <1>1, <1>3 DEF vars
<1>4. ASSUME NEW r \in reqs, Step(r) PROVE Counted'
  <2>1. CountsOK /\ r \in Request /\ r.p \in Payload
    BY DEF IInv, ReqsOK, Request
  <2>2. CASE Body(r)
    <3>1. alerted' = alerted
      BY <2>2 DEF Body
    <3>2. CASE Content[r.p].form = "raw" /\ Leave(r, TRUE)
      <4>1. \A p \in Payload : Content[p].form # "raw" => ok'[p] = ok[p]
        BY <2>1, <3>2, LeaveTrue
      <4> QED BY <3>1, <4>1 DEF Counted, ErrorsAreOwn
    <3>3. CASE Leave(r, FALSE)
      BY <1>1, <2>1, <3>1, <3>3, LeaveFalse
    <3>4. ASSUME NEW q, Go(r, q) PROVE Counted'
      BY <1>1, <3>1, <3>4 DEF Go
    <3> QED BY <2>2, <3>2, <3>3, <3>4 DEF Body
  <2>3. CASE FindApp(r)
    BY <1>1, <2>1, <2>3, LeaveFalse DEF FindApp, Go
  <2>4. CASE UpdateId(r)
    BY <1>1, <2>4 DEF UpdateId, GroupFails, Go
  <2>5. CASE FindUnique(r)
    BY <1>1, <2>5 DEF FindUnique, GroupFails, Go
  <2>6. CASE WriteUnique(r)
    BY <1>1, <2>6 DEF WriteUnique, GroupFails, Go
  <2>7. ASSUME NEW g \in Groups, Insert(r, g) PROVE Counted'
    BY <1>1, <2>1, <2>7, LeaveFalse DEF Insert, Go
  <2>8. CASE Finish(r)
    <3>1. CASE r.failed /\ Leave(r, FALSE) /\ UNCHANGED <<alerted, kafka>>
      BY <1>1, <2>1, <3>1, LeaveFalse
    <3>2. CASE Leave(r, TRUE) /\ alerted' = Bump(alerted, Range(Group(r.p, "error")))
      <4> SUFFICES ASSUME NEW i \in Item, NEW p \in Payload, GroupOf(i) = "error", In(i, p)
                   PROVE  alerted'[i] = ok'[p]
        BY DEF Counted
      <4>1. alerted[i] = ok[p]
        BY DEF Counted
      <4>2. alerted'[i] = IF InGroup(r.p, "error", i) THEN alerted[i] + 1 ELSE alerted[i]
        BY <2>1, <3>2, BumpFacts DEF CountsOK, InGroup
      <4>3. ok'[p] = IF p = r.p THEN ok[p] + 1 ELSE ok[p]
        BY <2>1, <3>2, LeaveTrue
      <4>4. InGroup(r.p, "error", i) <=> In(i, r.p)
        BY <2>1, GroupFacts DEF Groups
      <4>5. In(i, r.p) <=> p = r.p
        BY <2>1 DEF ErrorsAreOwn
      <4> QED BY <4>1, <4>2, <4>3, <4>4, <4>5
    <3> QED BY <2>8, <3>1, <3>2 DEF Finish
  <2> QED BY <1>4, <2>2, <2>3, <2>4, <2>5, <2>6, <2>7, <2>8 DEF Step
<1> QED BY <1>2, <1>3, <1>4 DEF Next

LEMMA CountedHolds == IInv /\ Counted => ErrorsCountOnce
<1> SUFFICES ASSUME IInv, Counted, NEW i \in Item, GroupOf(i) = "error"
             PROVE  alerted[i] <= docs[i] /\ \A p \in Payload : In(i, p) => alerted[i] = ok[p]
  BY DEF ErrorsCountOnce
<1>1. IsFiniteSet(Passed(i))
  <2>1. Passed(i) \in SUBSET reqs
    BY DEF Passed
  <2> QED BY <2>1, FS_Subset DEF IInv, ReqsOK
<1>2. Cardinality(Passed(i)) \in Nat /\ alerted[i] \in Nat /\ docs[i] \in Nat
  BY <1>1, FS_CardinalityType DEF IInv, CountsOK
<1>3. alerted[i] + Cardinality(Passed(i)) <= docs[i]
  BY DEF IInv, Counts, Stores
<1> QED BY <1>2, <1>3 DEF Counted

(***************************************************************************)
(* ErrorsCountOnce: an error was given to alert_error exactly as often as  *)
(* its request was answered with success, and never before it was stored   *)
(* (record_logs.rs: record, after join_all).                               *)
(***************************************************************************)
THEOREM ErrorsCounted == ErrorsAreOwn => (Spec => []ErrorsCountOnce)
<1> SUFFICES ASSUME ErrorsAreOwn PROVE Spec => []ErrorsCountOnce
  OBVIOUS
<1>1. Init => Counted
  BY DEF Init, Counted
<1>2. IInv /\ Counted /\ [Next]_vars => Counted'
  BY CountedStep
<1> QED BY <1>1, <1>2, Invariant, CountedHolds, PTL DEF Spec
=============================================================================
