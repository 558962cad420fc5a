------------------------ MODULE BrowserSenderProofs ------------------------
(***************************************************************************)
(* Theorems about BrowserSender, for any number of pages, any limits and   *)
(* sizes, and every interleaving of sends, failures and closing pages.     *)
(*                                                                         *)
(* A handler is composed of operators from state to states, and so is its  *)
(* proof: Good is what every function of the code keeps of the state it is *)
(* given, Runs(h, f, K) what may have happened from h to f while nothing   *)
(* was accepted or confirmed, K being the departures that a keepalive send *)
(* was started for.                                                        *)
(***************************************************************************)
EXTENDS BrowserSender, FiniteSetTheorems, FunctionTheorems, WellFoundedInduction, TLAPS

-----------------------------------------------------------------------------
(***************************************************************************)
(* The record collections of ReportQueue and their limits, for every size  *)
(* of the records: what the limits drop and what they leave.               *)
(*                                                                         *)
(* The induction theorems of the library take a predicate as a parameter.  *)
(* That a well-founded relation has minimal elements is a first-order fact *)
(* and serves in their place: the least counterexample does not exist.     *)
(***************************************************************************)
LEMMA LeastMember ==
  ASSUME NEW T \in SUBSET Nat, T # {}
  PROVE  \E x \in T : \A y \in T : x <= y
<1>1. PICK x \in T : \A y \in T : ~ (<<y, x>> \in OpToRel(<, Nat))
  BY NatLessThanWellFounded, WFMin
<1>2. \A y \in T : ~(y < x)
  BY <1>1 DEF OpToRel
<1> QED BY <1>2

LEMMA GreatestMember ==
  ASSUME NEW n \in Nat, NEW T \in SUBSET (0 .. n), T # {}
  PROVE  /\ Max(T) \in T
         /\ \A y \in T : y <= Max(T)
<1> DEFINE U == {n - x : x \in T}
<1>1. U \in SUBSET Nat
  BY T \in SUBSET (0 .. n), n \in Nat
<1>2. PICK z : z \in T
  OBVIOUS
<1>3. n - z \in U
  BY <1>2
<1>4. PICK u \in U : \A v \in U : u <= v
  BY <1>1, <1>3, LeastMember
<1>5. PICK x \in T : u = n - x
  BY <1>4
<1>6. \A y \in T : x >= y
  <2> TAKE y \in T
  <2>1. n - y \in U
    OBVIOUS
  <2>2. n - x <= n - y
    BY <1>4, <1>5, <2>1
  <2> QED BY <2>2
<1>7. /\ Max(T) \in T
      /\ \A y \in T : Max(T) >= y
  BY <1>6 DEF Max
<1>8. T \subseteq Int
  OBVIOUS
<1> QED BY <1>7, <1>8

LEMMA SmallestSet ==
  ASSUME NEW S, IsFiniteSet(S), NEW Bad \in SUBSET (SUBSET S), Bad # {}
  PROVE  \E B \in Bad : \A C \in SUBSET B : C \in Bad => C = B
<1>1. IsWellFoundedOn(StrictSubsetOrdering(S), SUBSET S)
  BY FS_StrictSubsetOrderingWellFounded, FS_FiniteSubsetsOfFinite
<1>2. PICK B \in Bad : \A C \in Bad : ~ (<<C, B>> \in StrictSubsetOrdering(S))
  BY <1>1, WFMin
<1>3. ASSUME NEW C \in SUBSET B, C \in Bad, C # B PROVE FALSE
  <2>1. <<C, B>> \in (SUBSET S) \X (SUBSET S)
    BY <1>3
  <2>2. <<C, B>> \in StrictSubsetOrdering(S)
    BY <1>3, <2>1 DEF StrictSubsetOrdering
  <2> QED BY <1>2, <1>3, <2>2
<1> QED BY <1>3

LEMMA RecordsFinite ==
  /\ IsFiniteSet(Record)
  /\ \A S \in SUBSET Record : IsFiniteSet(S) /\ Cardinality(S) \in Nat
<1>1. IsFiniteSet(Record)
  BY FS_Interval, QueueAssumption DEF Record
<1> QED BY <1>1, FS_Subset, FS_CardinalityType

LEMMA SmallestRecords ==
  ASSUME NEW Bad \in SUBSET (SUBSET Record), Bad # {}
  PROVE  \E B \in Bad : \A C \in SUBSET B : C \in Bad => C = B
BY SmallestSet, RecordsFinite

-----------------------------------------------------------------------------
(***************************************************************************)
(* The size of a list: it is the sum of its records, in any order.         *)
(***************************************************************************)
Pick(s) == CHOOSE x \in s : TRUE

Sums(g, S) == g = [s \in SUBSET S |-> IF s = {} THEN 0
                                      ELSE Size[Pick(s)] + g[s \ {Pick(s)}]]

LEMMA BytesDef == ASSUME NEW S PROVE Bytes(S) = (CHOOSE g : Sums(g, S))[S]
BY DEF Bytes, MapThenSumSet, MapThenFoldSet, Sums, Pick

LEMMA PickIsMember == \A s : s # {} => Pick(s) \in s
BY DEF Pick

LEMMA SumsAgree ==
  ASSUME NEW S \in SUBSET Record, NEW T \in SUBSET S,
         NEW g, Sums(g, S), NEW h, Sums(h, T)
  PROVE  \A s \in SUBSET T : g[s] = h[s]
<1> DEFINE Bad == {s \in SUBSET T : g[s] # h[s]}
<1> SUFFICES ASSUME Bad # {} PROVE FALSE
  OBVIOUS
<1>1. PICK s \in Bad : \A u \in SUBSET s : u \in Bad => u = s
  <2>1. Bad \in SUBSET (SUBSET Record)
    OBVIOUS
  <2> HIDE DEF Bad
  <2> QED BY <2>1, SmallestRecords
<1>2. s \in SUBSET S /\ s \in SUBSET T
  OBVIOUS
<1>3. /\ g[s] = IF s = {} THEN 0 ELSE Size[Pick(s)] + g[s \ {Pick(s)}]
      /\ h[s] = IF s = {} THEN 0 ELSE Size[Pick(s)] + h[s \ {Pick(s)}]
  BY <1>2 DEF Sums
<1>4. s # {}
  BY <1>3
<1>5. s \ {Pick(s)} \in SUBSET T /\ s \ {Pick(s)} # s
  BY <1>4, PickIsMember
<1>6. g[s \ {Pick(s)}] = h[s \ {Pick(s)}]
  BY <1>1, <1>5
<1> QED BY <1>3, <1>6

LEMMA SumsExist == \A S \in SUBSET Record : \E g : Sums(g, S)
<1> DEFINE Bad == {S \in SUBSET Record : ~ \E g : Sums(g, S)}
<1> SUFFICES ASSUME Bad # {} PROVE FALSE
  OBVIOUS
<1>1. PICK S \in Bad : \A u \in SUBSET S : u \in Bad => u = S
  <2>1. Bad \in SUBSET (SUBSET Record)
    OBVIOUS
  <2> HIDE DEF Bad
  <2> QED BY <2>1, SmallestRecords
<1>2. \A u \in SUBSET S : u # S => Sums(CHOOSE g : Sums(g, u), u)
  BY <1>1
<1> DEFINE v(u) == (CHOOSE g : Sums(g, u))[u]
           f == [s \in SUBSET S |-> IF s = {} THEN 0
                                    ELSE Size[Pick(s)] + v(s \ {Pick(s)})]
<1>3. \A u \in SUBSET S : u # S => f[u] = v(u)
  <2> SUFFICES ASSUME NEW u \in SUBSET S, u # S PROVE f[u] = v(u)
    OBVIOUS
  <2> DEFINE g == CHOOSE g : Sums(g, u)
  <2>1. Sums(g, u)
    BY <1>2
  <2>2. g[u] = IF u = {} THEN 0 ELSE Size[Pick(u)] + g[u \ {Pick(u)}]
    BY <2>1 DEF Sums
  <2>3. f[u] = IF u = {} THEN 0 ELSE Size[Pick(u)] + v(u \ {Pick(u)})
    OBVIOUS
  <2>4. CASE u = {}
    BY <2>2, <2>3, <2>4
  <2>5. CASE u # {}
    <3> DEFINE w == u \ {Pick(u)}
               h == CHOOSE h : Sums(h, w)
    <3>1. w \in SUBSET u /\ w \in SUBSET S /\ w # S /\ u \in SUBSET Record
      BY <2>5, PickIsMember
    <3>2. Sums(h, w)
      BY <1>2, <3>1
    <3>3. g[w] = h[w]
      BY <2>1, <3>1, <3>2, SumsAgree
    <3> QED BY <2>2, <2>3, <2>5, <3>3
  <2> QED BY <2>4, <2>5
<1>4. \A s \in SUBSET S : s # {} => f[s \ {Pick(s)}] = v(s \ {Pick(s)})
  <2> SUFFICES ASSUME NEW s \in SUBSET S, s # {} PROVE f[s \ {Pick(s)}] = v(s \ {Pick(s)})
    OBVIOUS
  <2>1. s \ {Pick(s)} \in SUBSET S /\ s \ {Pick(s)} # S
    BY PickIsMember
  <2> QED BY <1>3, <2>1
<1>5. Sums(f, S)
  <2> DEFINE e == [s \in SUBSET S |-> IF s = {} THEN 0
                                      ELSE Size[Pick(s)] + f[s \ {Pick(s)}]]
  <2>1. \A s \in SUBSET S : f[s] = IF s = {} THEN 0 ELSE Size[Pick(s)] + v(s \ {Pick(s)})
    OBVIOUS
  <2>2. \A s \in SUBSET S : f[s] = e[s]
    BY <1>4, <2>1
  <2>3. f = [s \in SUBSET S |-> f[s]]
    OBVIOUS
  <2> HIDE DEF f
  <2>4. f = e
    BY <2>2, <2>3
  <2> QED BY <2>4 DEF Sums
<1> QED BY <1>1, <1>5

LEMMA BytesStep ==
  ASSUME NEW S \in SUBSET Record, S # {}
  PROVE  Bytes(S) = Size[Pick(S)] + Bytes(S \ {Pick(S)})
<1> DEFINE T == S \ {Pick(S)}
           g == CHOOSE g : Sums(g, S)
           h == CHOOSE h : Sums(h, T)
<1>1. Sums(g, S)
  BY SumsExist
<1>2. T \in SUBSET Record /\ T \in SUBSET S
  OBVIOUS
<1>3. Sums(h, T)
  BY <1>2, SumsExist
<1>4. g[S] = Size[Pick(S)] + g[T]
  BY <1>1 DEF Sums
<1>5. g[T] = h[T]
  <2> HIDE DEF T, g, h
  <2> QED BY <1>1, <1>2, <1>3, SumsAgree
<1> QED BY <1>4, <1>5, BytesDef

LEMMA BytesEmpty == Bytes({}) = 0
<1> DEFINE g == CHOOSE g : Sums(g, {})
<1>1. Sums(g, {})
  BY SumsExist
<1>2. g[{}] = 0
  BY <1>1 DEF Sums
<1> QED BY <1>2, BytesDef

LEMMA BytesType == \A S \in SUBSET Record : Bytes(S) \in Nat
<1> DEFINE Bad == {S \in SUBSET Record : Bytes(S) \notin Nat}
<1> SUFFICES ASSUME Bad # {} PROVE FALSE
  OBVIOUS
<1>1. PICK S \in Bad : \A u \in SUBSET S : u \in Bad => u = S
  <2>1. Bad \in SUBSET (SUBSET Record)
    OBVIOUS
  <2> HIDE DEF Bad
  <2> QED BY <2>1, SmallestRecords
<1>2. S # {} /\ S \in SUBSET Record /\ Bytes(S) \notin Nat
  BY BytesEmpty
<1>3. Pick(S) \in S /\ S \ {Pick(S)} # S
  BY <1>2, PickIsMember
<1>4. Bytes(S \ {Pick(S)}) \in Nat
  BY <1>1, <1>3
<1>5. Size[Pick(S)] \in Nat
  BY <1>3, QueueAssumption
<1> HIDE DEF Bad
<1> QED BY <1>2, <1>4, <1>5, BytesStep

LEMMA BytesAny ==
  \A S \in SUBSET Record : \A y \in S : Bytes(S) = Size[y] + Bytes(S \ {y})
<1> DEFINE Bad == {S \in SUBSET Record : \E y \in S : Bytes(S) # Size[y] + Bytes(S \ {y})}
<1> SUFFICES ASSUME Bad # {} PROVE FALSE
  OBVIOUS
<1>1. PICK S \in Bad : \A u \in SUBSET S : u \in Bad => u = S
  <2>1. Bad \in SUBSET (SUBSET Record)
    OBVIOUS
  <2> HIDE DEF Bad
  <2> QED BY <2>1, SmallestRecords
<1>2. PICK y \in S : Bytes(S) # Size[y] + Bytes(S \ {y})
  BY <1>1
<1> DEFINE x == Pick(S)
<1>3. x \in S /\ S \in SUBSET Record
  BY <1>2, PickIsMember
<1>4. Bytes(S) = Size[x] + Bytes(S \ {x})
  BY <1>3, BytesStep
<1>5. x # y
  BY <1>2, <1>4
<1> DEFINE Sx == S \ {x}
           Sy == S \ {y}
<1>6. /\ Sx \in SUBSET S /\ Sx # S /\ Sx \in SUBSET Record /\ y \in Sx
      /\ Sy \in SUBSET S /\ Sy # S /\ Sy \in SUBSET Record /\ x \in Sy
      /\ Sx \ {y} = Sy \ {x} /\ Sx \ {y} \in SUBSET Record
  BY <1>3, <1>5
<1> HIDE DEF Sx, Sy
<1>7. Sx \notin Bad /\ Sy \notin Bad
  BY <1>1, <1>6
<1>8. Bytes(Sx) = Size[y] + Bytes(Sx \ {y}) /\ Bytes(Sy) = Size[x] + Bytes(Sy \ {x})
  BY <1>6, <1>7
<1>9. Size[x] \in Nat /\ Size[y] \in Nat /\ Bytes(Sx \ {y}) \in Nat
  BY <1>3, <1>6, QueueAssumption, BytesType
<1>10. Bytes(S) = Size[x] + Bytes(Sx) /\ Bytes(S) # Size[y] + Bytes(Sy)
  BY <1>2, <1>4 DEF Sx, Sy
<1> HIDE DEF x, Bad
<1> QED BY <1>6, <1>8, <1>9, <1>10

\* A list that loses records does not grow.
LEMMA BytesMonotone ==
  \A T \in SUBSET Record : \A S \in SUBSET T : Bytes(S) <= Bytes(T)
<1> DEFINE Bad == {T \in SUBSET Record : \E S \in SUBSET T : ~(Bytes(S) <= Bytes(T))}
<1> SUFFICES ASSUME Bad # {} PROVE FALSE
  OBVIOUS
<1>1. PICK T \in Bad : \A u \in SUBSET T : u \in Bad => u = T
  <2>1. Bad \in SUBSET (SUBSET Record)
    OBVIOUS
  <2> HIDE DEF Bad
  <2> QED BY <2>1, SmallestRecords
<1>2. PICK S \in SUBSET T : ~(Bytes(S) <= Bytes(T))
  BY <1>1
<1>3. T \in SUBSET Record /\ Bytes(T) \in Nat /\ Bytes(S) \in Nat
  BY BytesType
<1>4. S # T
  BY <1>2, <1>3
<1>5. PICK y \in T : y \notin S
  BY <1>4
<1>6. T \ {y} \notin Bad /\ T \ {y} \in SUBSET Record /\ S \in SUBSET (T \ {y})
  BY <1>1, <1>5
<1>7. Bytes(S) <= Bytes(T \ {y})
  BY <1>6
<1>8. Bytes(T) = Size[y] + Bytes(T \ {y}) /\ Size[y] \in Nat /\ Bytes(T \ {y}) \in Nat
  BY <1>3, <1>5, <1>6, BytesAny, BytesType, QueueAssumption
<1> HIDE DEF Bad
<1> QED BY <1>2, <1>3, <1>7, <1>8

-----------------------------------------------------------------------------
(***************************************************************************)
(* The newest of a list: some of it, and as many as are asked for at most. *)
(***************************************************************************)
LEMMA NewestDrops == ASSUME NEW S, NEW n PROVE Newest(S, n) \subseteq S
BY DEF Newest

LEMMA NewestNone == ASSUME NEW S \in SUBSET Record PROVE Newest(S, 0) = {}
<1> SUFFICES ASSUME NEW r \in Newest(S, 0) PROVE FALSE
  OBVIOUS
<1>1. {s \in S : s > r} \in SUBSET Record /\ Cardinality({s \in S : s > r}) < 0
  BY DEF Newest
<1>2. Cardinality({s \in S : s > r}) \in Nat
  BY <1>1, RecordsFinite
<1> QED BY <1>1, <1>2

LEMMA RecordsAreNat == Record \in SUBSET Nat /\ Record \in SUBSET (0 .. NumRecords)
BY QueueAssumption DEF Record

LEMMA NewestCount ==
  ASSUME NEW S \in SUBSET Record, NEW n \in Nat
  PROVE  Cardinality(Newest(S, n)) <= n
<1> DEFINE N == Newest(S, n)
<1>1. N \in SUBSET Record /\ N \in SUBSET S
  BY NewestDrops
<1>2. CASE N = {}
  BY <1>2, FS_EmptySet
<1>3. CASE N # {}
  <2>1. N \in SUBSET Nat
    BY <1>1, RecordsAreNat
  <2>2. PICK r \in N : \A s \in N : r <= s
    <3> HIDE DEF N
    <3> QED BY <1>3, <2>1, LeastMember
  <2> DEFINE L == {s \in S : s > r}
  <2>3. Cardinality(L) < n /\ L \in SUBSET Record
    BY <2>2 DEF Newest
  <2>4. N \subseteq L \cup {r}
    <3> SUFFICES ASSUME NEW s \in N, s # r PROVE s \in L
      OBVIOUS
    <3>1. s > r /\ s \in S
      BY <1>1, <2>1, <2>2
    <3> QED BY <3>1
  <2> HIDE DEF N, L
  <2>5. IsFiniteSet(L) /\ Cardinality(L) \in Nat
    BY <2>3, RecordsFinite
  <2>6. IsFiniteSet(L \cup {r}) /\ Cardinality(L \cup {r}) <= Cardinality(L) + 1
    BY <2>5, FS_AddElement
  <2>7. Cardinality(N) <= Cardinality(L \cup {r})
    BY <2>4, <2>6, FS_Subset
  <2>8. Cardinality(N) \in Nat /\ Cardinality(L \cup {r}) \in Nat
    BY <1>1, <2>6, RecordsFinite, FS_CardinalityType
  <2> QED BY <2>3, <2>5, <2>6, <2>7, <2>8 DEF N
<1> QED BY <1>2, <1>3

LEMMA NewestSome ==
  ASSUME NEW S \in SUBSET Record, S # {}, NEW n \in Nat \ {0}
  PROVE  Newest(S, n) # {}
<1>1. PICK r \in S : \A s \in S : s <= r
  BY GreatestMember, RecordsAreNat, QueueAssumption
<1>2. {s \in S : s > r} = {}
  <2> SUFFICES ASSUME NEW s \in S, s > r PROVE FALSE
    OBVIOUS
  <2>1. s <= r /\ s \in Nat /\ r \in Nat
    BY <1>1, RecordsAreNat
  <2> QED BY <2>1
<1>3. r \in Newest(S, n)
  BY <1>2, FS_EmptySet DEF Newest
<1> QED BY <1>3

-----------------------------------------------------------------------------
(***************************************************************************)
(* The limits: they only drop, they leave something of what is not empty,  *)
(* and what is over a limit afterwards is device information alone.        *)
(***************************************************************************)
Room(S, max) == Max({0, max - Cardinality(S \cap Info)})

LEMMA RoomFacts ==
  ASSUME NEW S \in SUBSET Record, NEW max \in Nat
  PROVE  /\ Room(S, max) \in Nat
         /\ Room(S, max) + Cardinality(S \cap Info) <= max \/ Room(S, max) = 0
         /\ Room(S, max) >= max - Cardinality(S \cap Info)
         /\ Cardinality(S \cap Info) \in Nat
<1>1. Cardinality(S \cap Info) \in Nat
  BY RecordsFinite
<1> DEFINE c == Cardinality(S \cap Info)
           T == {0, max - c}
<1>2. c \in Nat
  BY <1>1
<1> HIDE DEF c
<1>3. \E x \in T : \A y \in T : x >= y
  BY <1>2
<1>4. Max(T) \in T /\ \A y \in T : Max(T) >= y
  BY <1>3 DEF Max
<1>5. (Max(T) = 0 \/ Max(T) = max - c) /\ Max(T) >= 0 /\ Max(T) >= max - c
  BY <1>4
<1> HIDE DEF T
<1> QED BY <1>2, <1>5 DEF Room, T, c

LEMMA TrimDef ==
  ASSUME NEW S, NEW max
  PROVE  TrimOldest(S, max) = IF Cardinality(S) <= max THEN S
                              ELSE (S \cap Info) \cup Newest(S \ Info, Room(S, max))
BY DEF TrimOldest, Room

LEMMA TrimDrops == ASSUME NEW S, NEW max PROVE TrimOldest(S, max) \subseteq S
<1>1. Newest(S \ Info, Room(S, max)) \subseteq S \ Info
  BY NewestDrops
<1> QED BY <1>1, TrimDef

LEMMA TrimCount ==
  ASSUME NEW S \in SUBSET Record, NEW max \in Nat,
         Cardinality(TrimOldest(S, max)) > max
  PROVE  TrimOldest(S, max) \subseteq Info
<1> DEFINE I == S \cap Info
           N == Newest(S \ Info, Room(S, max))
<1>1. ~(Cardinality(S) <= max)
  <2>1. CASE Cardinality(S) <= max
    <3>1. TrimOldest(S, max) = S /\ Cardinality(S) \in Nat
      BY <2>1, TrimDef, RecordsFinite
    <3> QED BY <2>1, <3>1
  <2> QED BY <2>1
<1>2. TrimOldest(S, max) = I \cup N
  BY <1>1, TrimDef
<1>3. I \in SUBSET Record /\ N \in SUBSET Record /\ S \ Info \in SUBSET Record
  BY NewestDrops
<1>4. /\ IsFiniteSet(I) /\ IsFiniteSet(N) /\ IsFiniteSet(I \cap N)
      /\ Cardinality(I) \in Nat /\ Cardinality(N) \in Nat /\ Cardinality(I \cap N) \in Nat
  <2>1. I \cap N \in SUBSET Record
    BY <1>3
  <2> QED BY <1>3, <2>1, RecordsFinite
<1>5. Cardinality(I \cup N) <= Cardinality(I) + Cardinality(N)
  <2>1. Cardinality(I \cup N) = Cardinality(I) + Cardinality(N) - Cardinality(I \cap N)
    BY <1>4, FS_Union
  <2> QED BY <1>4, <2>1
<1>6. Cardinality(N) <= Room(S, max)
  BY <1>3, RoomFacts, NewestCount
<1>7. CASE Room(S, max) = 0
  <2>1. N = {}
    BY <1>3, <1>7, NewestNone
  <2> QED BY <1>2, <2>1
<1>8. CASE Room(S, max) # 0
  <2>1. Room(S, max) + Cardinality(I) <= max /\ Room(S, max) \in Nat
    BY <1>8, RoomFacts
  <2>2. Cardinality(I \cup N) > max /\ Cardinality(I \cup N) \in Nat
    <3>1. I \cup N \in SUBSET Record
      BY <1>3
    <3> QED BY <1>2, <3>1, RecordsFinite
  <2> HIDE DEF I, N
  <2> QED BY <1>4, <1>5, <1>6, <2>1, <2>2
<1> QED BY <1>7, <1>8

LEMMA TrimSome ==
  ASSUME NEW S \in SUBSET Record, S # {}, NEW max \in Nat \ {0}
  PROVE  TrimOldest(S, max) # {}
<1>1. CASE Cardinality(S) <= max
  BY <1>1, TrimDef
<1>2. CASE ~(Cardinality(S) <= max) /\ S \cap Info # {}
  BY <1>2, TrimDef
<1>3. CASE ~(Cardinality(S) <= max) /\ S \cap Info = {}
  <2>1. S \ Info # {} /\ S \ Info \in SUBSET Record
    BY <1>3
  <2>2. Room(S, max) \in Nat \ {0}
    <3>1. Room(S, max) >= max - 0 /\ Room(S, max) \in Nat
      BY <1>3, RoomFacts, FS_EmptySet
    <3> QED BY <3>1
  <2>3. Newest(S \ Info, Room(S, max)) # {}
    BY <2>1, <2>2, NewestSome
  <2> QED BY <1>3, <2>3, TrimDef
<1> QED BY <1>1, <1>2, <1>3

\* The largest number of ordinary records that fit.
Enough(T) == {n \in 0 .. Cardinality(T \ Info) : n = 0 \/
                Bytes((T \cap Info) \cup Newest(T \ Info, n)) <= MaxQueueBytes}

LEMMA TrimByBytesDef ==
  ASSUME NEW T
  PROVE  TrimByBytes(T) = (T \cap Info) \cup Newest(T \ Info, Max(Enough(T)))
BY DEF TrimByBytes, Enough

LEMMA BytesDrops == ASSUME NEW T PROVE TrimByBytes(T) \subseteq T
<1>1. Newest(T \ Info, Max(Enough(T))) \subseteq T \ Info
  BY NewestDrops
<1> QED BY <1>1, TrimByBytesDef

LEMMA BytesLimit ==
  ASSUME NEW T \in SUBSET Record, Bytes(TrimByBytes(T)) > MaxQueueBytes
  PROVE  TrimByBytes(T) \subseteq Info
<1> DEFINE m == Max(Enough(T))
<1>1. T \ Info \in SUBSET Record /\ Cardinality(T \ Info) \in Nat
  <2>1. T \ Info \in SUBSET Record
    OBVIOUS
  <2> QED BY <2>1, RecordsFinite
<1>2. 0 \in Enough(T) /\ Enough(T) \in SUBSET (0 .. Cardinality(T \ Info))
  BY <1>1 DEF Enough
<1>3. m \in Enough(T)
  <2>1. Enough(T) # {}
    BY <1>2
  <2> QED BY <1>1, <1>2, <2>1, GreatestMember
<1>4. m = 0 \/ Bytes((T \cap Info) \cup Newest(T \ Info, m)) <= MaxQueueBytes
  BY <1>3 DEF Enough
<1>5. TrimByBytes(T) = (T \cap Info) \cup Newest(T \ Info, m)
  BY TrimByBytesDef
<1> HIDE DEF m
<1>6. CASE m = 0
  <2>1. Newest(T \ Info, m) = {}
    BY <1>1, <1>6, NewestNone
  <2> QED BY <1>5, <2>1
<1>7. CASE Bytes((T \cap Info) \cup Newest(T \ Info, m)) <= MaxQueueBytes
  <2>1. Bytes(TrimByBytes(T)) \in Nat
    BY BytesDrops, BytesType
  <2> QED BY <1>5, <1>7, <2>1, QueueAssumption
<1> QED BY <1>4, <1>6, <1>7

LEMMA FitDrops == ASSUME NEW S PROVE Fit(S) \subseteq S
BY TrimDrops, BytesDrops DEF Fit

WithinCount(S) == Cardinality(S) > MaxPersist => S \subseteq Info
WithinBytes(S) == Bytes(S) > MaxQueueBytes => S \subseteq Info

LEMMA FewerWithin ==
  ASSUME NEW S \in SUBSET Record, NEW T \in SUBSET S
  PROVE  /\ WithinCount(S) => WithinCount(T)
         /\ WithinBytes(S) => WithinBytes(T)
<1>1. /\ Cardinality(T) <= Cardinality(S)
      /\ Cardinality(S) \in Nat /\ Cardinality(T) \in Nat
  BY RecordsFinite, FS_Subset
<1>2. Bytes(T) <= Bytes(S) /\ Bytes(S) \in Nat /\ Bytes(T) \in Nat
  BY BytesMonotone, BytesType
<1> QED BY <1>1, <1>2, QueueAssumption DEF WithinCount, WithinBytes

LEMMA FitLimits ==
  ASSUME NEW S \in SUBSET Record
  PROVE  WithinCount(Fit(S)) /\ WithinBytes(Fit(S))
<1> DEFINE T == TrimOldest(S, MaxPersist)
<1>1. T \in SUBSET Record
  BY TrimDrops
<1>2. WithinCount(T)
  BY TrimCount, QueueAssumption DEF WithinCount
<1>3. Fit(S) = TrimByBytes(T)
  BY DEF Fit
<1> HIDE DEF T
<1>4. Fit(S) \in SUBSET T
  BY <1>3, BytesDrops
<1>5. WithinCount(Fit(S))
  BY <1>1, <1>2, <1>4, FewerWithin
<1>6. WithinBytes(Fit(S))
  BY <1>1, <1>3, BytesLimit DEF WithinBytes
<1> QED BY <1>5, <1>6

-----------------------------------------------------------------------------
(***************************************************************************)
(* The budget of the browser takes a prefix of the list, and in a prefix a *)
(* record has the position that it has in the list.                        *)
(***************************************************************************)
PrefixOf(B, S) == B \subseteq S /\ \A r \in B, s \in S : s <= r => s \in B

LEMMA UptoGrows ==
  ASSUME NEW S \in SUBSET Nat, NEW r \in Nat, NEW s \in Nat, s <= r
  PROVE  {t \in S : t <= s} \in SUBSET {t \in S : t <= r}
<1> SUFFICES ASSUME NEW t \in S, t <= s PROVE t <= r
  OBVIOUS
<1> QED BY t \in Nat

LEMMA PickIsPrefix ==
  ASSUME NEW S \in SUBSET Record, NEW budget \in Int
  PROVE  PrefixOf(PickWithinBudget(S, budget), S)
<1> DEFINE B == PickWithinBudget(S, budget)
           upto(r) == {s \in S : s <= r}
<1> SUFFICES ASSUME NEW r \in B, NEW s \in S, s <= r PROVE s \in B
  BY DEF PrefixOf, PickWithinBudget
<1>0. S \in SUBSET Nat
  BY RecordsAreNat
<1>1. r \in S /\ ((\A t \in S : r <= t) \/ Bytes(upto(r)) <= budget)
  BY DEF PickWithinBudget
<1>2. CASE \A t \in S : r <= t
  <2>1. \A t \in S : s <= t
    BY <1>0, <1>1, <1>2
  <2> QED BY <2>1 DEF PickWithinBudget
<1>3. CASE Bytes(upto(r)) <= budget
  <2>1. upto(s) \in SUBSET upto(r) /\ upto(r) \in SUBSET Record
    <3>1. r \in Nat /\ s \in Nat
      BY <1>0, <1>1
    <3> QED BY <1>0, <3>1, UptoGrows
  <2>2. Bytes(upto(s)) <= Bytes(upto(r))
    <3> HIDE DEF upto
    <3> QED BY <2>1, BytesMonotone
  <2>3. Bytes(upto(s)) \in Nat /\ Bytes(upto(r)) \in Nat
    <3> HIDE DEF upto
    <3> QED BY <2>1, BytesType
  <2>4. Bytes(upto(s)) <= budget
    <3> HIDE DEF upto
    <3> QED BY <1>3, <2>2, <2>3
  <2> QED BY <2>4 DEF PickWithinBudget
<1> QED BY <1>1, <1>2, <1>3

LEMMA RankIsExact ==
  ASSUME NEW S \in SUBSET Record, NEW B, PrefixOf(B, S), NEW d \in B
  PROVE  \A r \in S : Rank(S, r) = Rank(B, d) <=> r = d
<1> DEFINE upto(r) == {s \in S : s <= r}
<1>0. S \in SUBSET Nat /\ B \subseteq S /\ d \in S
  BY RecordsAreNat DEF PrefixOf
<1>1. {s \in B : s <= d} = upto(d)
  BY <1>0 DEF PrefixOf
<1>2. Rank(B, d) = Cardinality(upto(d)) /\ \A r \in S : Rank(S, r) = Cardinality(upto(r))
  BY <1>1 DEF Rank
<1> SUFFICES ASSUME NEW r \in S, Cardinality(upto(r)) = Cardinality(upto(d))
             PROVE  r = d
  BY <1>0, <1>2
<1>3. /\ IsFiniteSet(upto(r)) /\ IsFiniteSet(upto(d))
  <2>1. upto(r) \in SUBSET Record /\ upto(d) \in SUBSET Record
    OBVIOUS
  <2> QED BY <2>1, RecordsFinite
<1>4. r \in upto(r) /\ d \in upto(d)
  BY <1>0
<1>5. upto(r) = upto(d)
  <2>1. upto(r) \in SUBSET upto(d) \/ upto(d) \in SUBSET upto(r)
    <3>1. r \in Nat /\ d \in Nat /\ (r <= d \/ d <= r)
      BY <1>0
    <3> QED BY <1>0, <3>1, UptoGrows
  <2> HIDE DEF upto
  <2> QED BY <1>3, <2>1, FS_Subset
<1>6. r <= d /\ d <= r
  BY <1>4, <1>5
<1> QED BY <1>0, <1>6

-----------------------------------------------------------------------------
(***************************************************************************)
(* The state that the operators of a handler pass on.                      *)
(***************************************************************************)
HState ==
  [p : Page, pg : PageState, queue : SUBSET Record, requests : SUBSET Request,
   handed : SUBSET Record, cut : SUBSET Record, unsaved : SUBSET Record,
   failed : BOOLEAN]

Held(h) == h.pg.memory \cup h.queue
Own(h)  == {q \in h.requests : q.page = h.p}

-----------------------------------------------------------------------------
(***************************************************************************)
(* The parts of Good.                                                      *)
(***************************************************************************)
Stopping(h) ==
  /\ h.pg.stopped => ~h.pg.sendTimer /\ ~h.pg.pending
  /\ h.pg.failStreak > MaxRetry => h.pg.stopped

Limited(h) ==
  /\ WithinCount(h.queue) /\ WithinBytes(h.queue)
  /\ WithinCount(h.pg.memory)
  /\ Cardinality(h.pg.cache) <= MaxCache

\* What is buffered has not been sent: it is in no list and not in the queue.
Unsent(h) ==
  /\ h.pg.memory \cap h.queue = {}
  /\ \A q \in h.requests : q.list \cap h.pg.memory = {}

\* With a worker, what a request has of the cache is a prefix of its array.
Whole(q) ==
  /\ q.worker
  /\ IF q.keepalive THEN ~q.alias /\ PrefixOf(q.body, q.array) ELSE q.body = {}

Working(h) ==
  /\ h.pg.open
  /\ WorkerFails \/ /\ h.pg.stopped \/ h.pg.worker
                    /\ \A q \in h.requests : Whole(q)

Good(h) ==
  /\ h \in HState /\ IsFiniteSet(h.requests)
  /\ Stopping(h) /\ Limited(h) /\ Unsent(h) /\ Working(h)

\* The buffer is timed, on pages that are never hidden.
Timed(h) ==
  Lifecycle \/ /\ h.pg.flushSet = h.pg.flushDue
               /\ h.pg.flushDue => h.pg.memory # {}
               /\ h.pg.memory \subseteq h.unsaved \/ h.pg.flushDue

(***************************************************************************)
(* The lock.                                                               *)
(***************************************************************************)
Owned(h) == \E q \in h.requests : q.page = h.p /\ q.owner
Uniq(h)  == \A q, r \in h.requests :
              q.page = h.p /\ r.page = h.p /\ q.owner /\ r.owner => q = r
Lock(h)  == Uniq(h) /\ (h.pg.sending <=> Owned(h))

\* The lock is as it was.
Locks(h, f) ==
  /\ f.pg.sending = h.pg.sending
  /\ Uniq(h) => Uniq(f)
  /\ Owned(f) <=> Owned(h)

-----------------------------------------------------------------------------
(***************************************************************************)
(* The parts of Runs.                                                      *)
(***************************************************************************)
SamePage(h, f) ==
  /\ f.p = h.p /\ f.pg.open = h.pg.open /\ f.pg.visible = h.pg.visible
  /\ f.pg.hiddenReported = h.pg.hiddenReported /\ f.pg.episode = h.pg.episode
  /\ f.pg.mine = h.pg.mine
  /\ h.pg.stopped => f.pg.stopped

\* What is not held any more was cut.
Loses(h, f) ==
  /\ Held(f) \subseteq Held(h) /\ f.pg.memory \subseteq h.pg.memory
  /\ f.cut = h.cut \cup (Held(h) \ Held(f))
  /\ h.unsaved \subseteq f.unsaved

\* What is not in the cache any more was handed over.
Hands(h, f) ==
  /\ f.pg.cache \subseteq h.pg.cache
  /\ h.pg.cache \subseteq f.pg.cache \cup f.handed
  /\ h.handed \subseteq f.handed

SameSend(o, q) ==
  /\ q.page = o.page /\ q.keepalive = o.keepalive /\ q.owner = o.owner
  /\ q.list = o.list /\ q.body = o.body /\ q.worker = o.worker
  /\ q.by = o.by /\ q.episode = o.episode

\* No send begins.
Keeps(h, f) == \A q \in f.requests : \E o \in h.requests : SameSend(o, q)

\* m and c are the records accepted for the queue and for the cache.
NewSend(h, q, m, c, K) ==
  /\ q.page = h.p /\ q.episode = h.pg.episode
  /\ q.keepalive \/ q.owner
  /\ q.keepalive => q.by \in K
  /\ q.list \subseteq Held(h) \cup m /\ q.body \subseteq h.pg.cache \cup c

Asks(h, f, m, c, K) ==
  /\ \A q \in f.requests :
       \/ \E o \in h.requests : SameSend(o, q) /\ (q.page # h.p => q = o)
       \/ NewSend(h, q, m, c, K)
  /\ \A o \in h.requests : o.page # h.p => o \in f.requests
  /\ h.pg.stopped => Cardinality(Own(f)) <= Cardinality(Own(h))

Runs(h, f, K) == SamePage(h, f) /\ Loses(h, f) /\ Hands(h, f) /\ Asks(h, f, {}, {}, K)

LEMMA OwnFinite ==
  ASSUME NEW h, IsFiniteSet(h.requests)
  PROVE  IsFiniteSet(Own(h)) /\ Cardinality(Own(h)) \in Nat
<1>1. Own(h) \in SUBSET h.requests
  BY DEF Own
<1> QED BY <1>1, FS_Subset, FS_CardinalityType

LEMMA SameSendTrans ==
  ASSUME NEW o, NEW q, NEW r, SameSend(o, q), SameSend(q, r)
  PROVE  SameSend(o, r)
BY DEF SameSend

LEMMA AsksTrans ==
  ASSUME NEW h, NEW g, NEW f, NEW m, NEW c, NEW n, NEW d, NEW J, NEW K,
         IsFiniteSet(h.requests), IsFiniteSet(g.requests), IsFiniteSet(f.requests),
         g.p = h.p, g.pg.episode = h.pg.episode, h.pg.stopped => g.pg.stopped,
         Held(g) \subseteq Held(h) \cup m, g.pg.cache \subseteq h.pg.cache \cup c,
         Asks(h, g, m, c, J), Asks(g, f, n, d, K)
  PROVE  Asks(h, f, m \cup n, c \cup d, J \cup K)
<1>1. ASSUME NEW q \in f.requests
      PROVE  \/ \E o \in h.requests : SameSend(o, q) /\ (q.page # h.p => q = o)
             \/ NewSend(h, q, m \cup n, c \cup d, J \cup K)
  <2>1. CASE NewSend(g, q, n, d, K)
    BY <2>1 DEF NewSend
  <2>2. CASE \E o \in g.requests : SameSend(o, q) /\ (q.page # g.p => q = o)
    <3>1. PICK o \in g.requests : SameSend(o, q) /\ (q.page # g.p => q = o)
      BY <2>2
    <3>2. CASE NewSend(h, o, m, c, J)
      BY <3>1, <3>2 DEF NewSend, SameSend
    <3>3. CASE \E x \in h.requests : SameSend(x, o) /\ (o.page # h.p => o = x)
      BY <3>1, <3>3 DEF SameSend
    <3> QED BY <3>2, <3>3 DEF Asks
  <2> QED BY <1>1, <2>1, <2>2 DEF Asks
<1>2. ASSUME NEW o \in h.requests, o.page # h.p PROVE o \in f.requests
  BY <1>2 DEF Asks
<1>3. ASSUME h.pg.stopped PROVE Cardinality(Own(f)) <= Cardinality(Own(h))
  <2>1. /\ Cardinality(Own(f)) <= Cardinality(Own(g))
        /\ Cardinality(Own(g)) <= Cardinality(Own(h))
    BY <1>3 DEF Asks
  <2>2. /\ Cardinality(Own(f)) \in Nat /\ Cardinality(Own(g)) \in Nat
        /\ Cardinality(Own(h)) \in Nat
    BY OwnFinite
  <2> QED BY <2>1, <2>2
<1> QED BY <1>1, <1>2, <1>3 DEF Asks

LEMMA KeepsTrans ==
  ASSUME NEW h, NEW g, NEW f, Keeps(h, g), Keeps(g, f)
  PROVE  Keeps(h, f)
<1> SUFFICES ASSUME NEW q \in f.requests PROVE \E o \in h.requests : SameSend(o, q)
  BY DEF Keeps
<1>1. PICK r \in g.requests : SameSend(r, q)
  BY DEF Keeps
<1>2. PICK o \in h.requests : SameSend(o, r)
  BY DEF Keeps
<1> QED BY <1>1, <1>2, SameSendTrans

LEMMA KeepsNothing ==
  ASSUME NEW h, NEW f, f.requests = h.requests PROVE Keeps(h, f)
BY DEF Keeps, SameSend

LEMMA RunsTrans ==
  ASSUME NEW h, NEW g, NEW f, NEW J, NEW K, Good(h), Good(g), Good(f),
         Runs(h, g, J), Runs(g, f, K)
  PROVE  Runs(h, f, J \cup K)
<1>1. Asks(h, f, {}, {}, J \cup K)
  <2>1. Asks(h, f, {} \cup {}, {} \cup {}, J \cup K)
    BY AsksTrans DEF Runs, SamePage, Loses, Hands, Good
  <2> QED BY <2>1
<1>2. SamePage(h, f)
  BY DEF Runs, SamePage
<1>3. Loses(h, f)
  BY DEF Runs, Loses
<1>4. Hands(h, f)
  BY DEF Runs, Hands
<1> QED BY <1>1, <1>2, <1>3, <1>4 DEF Runs

\* Nothing happens to the requests.
LEMMA AsksNothing ==
  ASSUME NEW h, NEW f, NEW K, Good(h), f.p = h.p, f.requests = h.requests
  PROVE  Asks(h, f, {}, {}, K)
<1>1. Own(f) = Own(h)
  BY DEF Own
<1>2. Cardinality(Own(h)) <= Cardinality(Own(h))
  BY OwnFinite DEF Good
<1>3. \A q : SameSend(q, q)
  BY DEF SameSend
<1> QED BY <1>1, <1>2, <1>3 DEF Asks

LEMMA RunsNothing == ASSUME NEW h, NEW K, Good(h) PROVE Runs(h, h, K)
BY AsksNothing DEF Runs, SamePage, Loses, Hands

LEMMA LocksTrans ==
  ASSUME NEW h, NEW g, NEW f, Locks(h, g), Locks(g, f)
  PROVE  Locks(h, f)
BY DEF Locks

LEMMA LocksNothing ==
  ASSUME NEW h, NEW f, f.p = h.p, f.requests = h.requests, f.pg.sending = h.pg.sending
  PROVE  Locks(h, f)
BY DEF Locks, Uniq, Owned

-----------------------------------------------------------------------------
(***************************************************************************)
(* The buffer and the queue.                                               *)
(***************************************************************************)

\* The fields that only the sends change.
SameControl(h, f) ==
  /\ f.pg.sending = h.pg.sending /\ f.pg.pending = h.pg.pending
  /\ f.pg.sendTimer = h.pg.sendTimer /\ f.pg.failStreak = h.pg.failStreak
  /\ f.pg.stopped = h.pg.stopped /\ f.pg.worker = h.pg.worker
  /\ f.failed = h.failed /\ f.requests = h.requests /\ f.p = h.p
  /\ f.pg.open = h.pg.open /\ f.pg.visible = h.pg.visible
  /\ f.pg.hiddenReported = h.pg.hiddenReported
  /\ f.pg.episode = h.pg.episode /\ f.pg.mine = h.pg.mine

LEMMA ControlFacts ==
  ASSUME NEW h, NEW f, SameControl(h, f), Good(h)
  PROVE  /\ Stopping(f) /\ Working(f) /\ IsFiniteSet(f.requests)
         /\ SamePage(h, f) /\ Locks(h, f) /\ Asks(h, f, {}, {}, {})
<1>1. Stopping(f) /\ Working(f) /\ IsFiniteSet(f.requests)
  BY DEF SameControl, Good, Stopping, Working
<1>2. SamePage(h, f) /\ Locks(h, f)
  BY LocksNothing DEF SameControl, SamePage
<1> QED BY <1>1, <1>2, AsksNothing DEF SameControl

LEMMA FlushFacts ==
  ASSUME NEW h, Good(h), NEW f \in FlushMemoryToStorage(h)
  PROVE  /\ Good(f) /\ Runs(h, f, {}) /\ Locks(h, f) /\ SameControl(h, f)
         /\ f.pg.cache = h.pg.cache
         /\ h.pg.memory # {} \/ Timed(h) => Timed(f)
<1>0. h \in HState
  BY DEF Good
<1>1. CASE h.pg.memory = {}
  <2>1. f = h
    BY <1>1 DEF FlushMemoryToStorage
  <2>2. SameControl(h, h)
    BY DEF SameControl
  <2> QED BY <1>1, <2>1, <2>2, RunsNothing, ControlFacts
<1>2. CASE h.pg.memory # {}
  <2> DEFINE all     == h.queue \cup h.pg.memory
             done    == [h EXCEPT !.pg.flushSet = FALSE, !.pg.flushDue = FALSE]
             written == [done EXCEPT !.queue = Fit(all), !.pg.memory = {},
                                     !.cut = @ \cup (all \ Fit(all))]
             failed  == [done EXCEPT !.unsaved = @ \cup h.pg.memory]
  <2>1. f = written \/ f = failed
    BY <1>2 DEF FlushMemoryToStorage
  <2>2. Fit(all) \subseteq all /\ all \in SUBSET Record
    BY <1>0, FitDrops DEF HState, PageState
  <2>3. WithinCount(Fit(all)) /\ WithinBytes(Fit(all))
    BY <2>2, FitLimits
  <2>4. CASE f = written
    <3>1. f \in HState
      BY <1>0, <2>2, <2>4 DEF HState, PageState
    <3>2. /\ SameControl(h, f) /\ f.pg.cache = h.pg.cache /\ f.pg.memory = {}
          /\ f.queue = Fit(all) /\ f.cut = h.cut \cup (all \ Fit(all))
          /\ f.unsaved = h.unsaved /\ f.handed = h.handed
          /\ f.pg.flushSet = FALSE /\ f.pg.flushDue = FALSE
      BY <1>0, <2>4 DEF HState, PageState, SameControl
    <3> HIDE DEF written
    <3>3. Loses(h, f) /\ Hands(h, f)
      BY <2>2, <3>2 DEF Loses, Hands, Held
    <3>4. WithinCount({})
      BY FS_EmptySet DEF WithinCount
    <3>5. Limited(f) /\ Unsent(f)
      BY <2>3, <3>2, <3>4 DEF Limited, Unsent, SameControl, Good
    <3>6. Timed(f)
      BY <3>2 DEF Timed
    <3> QED BY <3>1, <3>2, <3>3, <3>5, <3>6, ControlFacts DEF Good, Runs
  <2>5. CASE f = failed
    <3>1. f \in HState
      BY <1>0, <2>5 DEF HState, PageState
    <3>2. /\ SameControl(h, f) /\ f.pg.cache = h.pg.cache /\ f.pg.memory = h.pg.memory
          /\ f.queue = h.queue /\ f.cut = h.cut
          /\ f.unsaved = h.unsaved \cup h.pg.memory /\ f.handed = h.handed
          /\ f.pg.flushSet = FALSE /\ f.pg.flushDue = FALSE
      BY <1>0, <2>5 DEF HState, PageState, SameControl
    <3> HIDE DEF failed
    <3>3. Loses(h, f) /\ Hands(h, f)
      BY <3>2 DEF Loses, Hands, Held
    <3>4. Limited(f) /\ Unsent(f)
      BY <3>2 DEF Limited, Unsent, SameControl, Good
    <3>5. Timed(f)
      BY <3>2 DEF Timed
    <3> QED BY <3>1, <3>2, <3>3, <3>4, <3>5, ControlFacts DEF Good, Runs
  <2> QED BY <2>1, <2>4, <2>5
<1> QED BY <1>1, <1>2

\* The delivered records leave the queue, if it can be written.
LEMMA RemoveFacts ==
  ASSUME NEW h, Good(h), NEW S \in SUBSET Record, NEW f \in RemoveSentRecords(h, S)
  PROVE  /\ Good(f) /\ SameControl(h, f) /\ Hands(h, f)
         /\ f.pg.cache = h.pg.cache /\ f.cut = h.cut
         /\ f.pg.memory = h.pg.memory /\ f.queue \subseteq h.queue
         /\ h.queue \ f.queue \subseteq S
         /\ f.queue \cap S \subseteq f.unsaved /\ h.unsaved \subseteq f.unsaved
         /\ Timed(h) => Timed(f)
<1>0. h \in HState
  BY DEF Good
<1>1. \/ f = [h EXCEPT !.queue = @ \ S]
      \/ f = [h EXCEPT !.unsaved = @ \cup S]
  BY DEF RemoveSentRecords
<1>2. f \in HState
  BY <1>0, <1>1 DEF HState
<1>3. /\ SameControl(h, f) /\ f.pg = h.pg /\ f.cut = h.cut /\ f.handed = h.handed
      /\ \/ f.queue = h.queue \ S /\ f.unsaved = h.unsaved
         \/ f.queue = h.queue /\ f.unsaved = h.unsaved \cup S
  BY <1>0, <1>1 DEF HState, SameControl
<1>4. Hands(h, f)
  BY <1>3 DEF Hands
<1>5. h.queue \in SUBSET Record /\ f.queue \in SUBSET h.queue
  BY <1>0, <1>3 DEF HState
<1>6. Limited(f) /\ Unsent(f)
  BY <1>3, <1>5, FewerWithin DEF Limited, Unsent, SameControl, Good
<1>7. Timed(h) => Timed(f)
  BY <1>3 DEF Timed
<1> QED BY <1>2, <1>3, <1>4, <1>5, <1>6, <1>7, ControlFacts DEF Good

-----------------------------------------------------------------------------
(***************************************************************************)
(* The cache and the worker.                                               *)
(***************************************************************************)
Unalias(h, q) == IF q.page = h.p /\ q.alias
                 THEN [q EXCEPT !.alias = FALSE, !.array = h.pg.cache] ELSE q

LEMMA UnaliasFacts ==
  ASSUME NEW h \in HState, NEW q \in h.requests
  PROVE  /\ Unalias(h, q) \in Request /\ SameSend(q, Unalias(h, q))
         /\ q.page # h.p => Unalias(h, q) = q
         /\ ~q.alias => Unalias(h, q) = q
BY DEF HState, PageState, Request, Unalias, SameSend

\* What the array is taken away from the requests that hold it does to them.
LEMMA UnaliasRequests ==
  ASSUME NEW h, Good(h), NEW f, f.p = h.p, f.pg.sending = h.pg.sending,
         f.requests = {Unalias(h, q) : q \in h.requests}
  PROVE  /\ f.requests \in SUBSET Request /\ IsFiniteSet(f.requests)
         /\ Asks(h, f, {}, {}, {}) /\ Locks(h, f)
         /\ (\A q \in h.requests : Whole(q)) => (\A q \in f.requests : Whole(q))
         /\ \A q \in f.requests : \E o \in h.requests : q.list = o.list
         /\ Keeps(h, f)
<1>0. h \in HState /\ IsFiniteSet(h.requests)
  BY DEF Good
<1> DEFINE m == [q \in h.requests |-> Unalias(h, q)]
<1>1. f.requests \in SUBSET Request
  BY <1>0, UnaliasFacts
<1>2. m \in Surjection(h.requests, f.requests)
  <2>1. m \in [h.requests -> f.requests] /\ \A r \in f.requests : \E q \in h.requests : m[q] = r
    OBVIOUS
  <2> QED BY <2>1, Fun_IsSurj
<1>3. IsFiniteSet(f.requests)
  BY <1>0, <1>2, FS_Surjection
<1>4. \A q \in f.requests : \E o \in h.requests :
        q = Unalias(h, o) /\ SameSend(o, q) /\ (q.page # h.p => q = o) /\ (~o.alias => q = o)
  <2> TAKE q \in f.requests
  <2>1. PICK o \in h.requests : q = Unalias(h, o)
    OBVIOUS
  <2> QED BY <1>0, <2>1, UnaliasFacts DEF SameSend
<1>5. \A o \in h.requests : SameSend(o, Unalias(h, o)) /\ Unalias(h, o) \in f.requests
                             /\ (o.page # h.p => Unalias(h, o) = o)
  BY <1>0, UnaliasFacts
<1>6. Cardinality(Own(f)) <= Cardinality(Own(h))
  <2> DEFINE n == [q \in Own(h) |-> Unalias(h, q)]
  <2>1. n \in [Own(h) -> Own(f)] /\ \A r \in Own(f) : \E q \in Own(h) : n[q] = r
    BY <1>4, <1>5 DEF Own, SameSend
  <2>2. n \in Surjection(Own(h), Own(f))
    BY <2>1, Fun_IsSurj
  <2> QED BY <1>0, <2>2, OwnFinite, FS_Surjection
<1>7. Asks(h, f, {}, {}, {})
  BY <1>4, <1>5, <1>6 DEF Asks
<1>8. Locks(h, f)
  <2>1. Uniq(h) => Uniq(f)
    <3> SUFFICES ASSUME Uniq(h), NEW q \in f.requests, NEW r \in f.requests,
                        q.page = h.p, r.page = h.p, q.owner, r.owner
                 PROVE  q = r
      BY DEF Uniq
    <3>1. PICK o \in h.requests : q = Unalias(h, o) /\ SameSend(o, q)
      BY <1>4
    <3>2. PICK x \in h.requests : r = Unalias(h, x) /\ SameSend(x, r)
      BY <1>4
    <3>3. o = x
      BY <3>1, <3>2 DEF Uniq, SameSend
    <3> QED BY <3>1, <3>2, <3>3
  <2>2. Owned(h) <=> Owned(f)
    BY <1>4, <1>5 DEF Owned, SameSend
  <2> QED BY <2>1, <2>2 DEF Locks
<1>9. ASSUME \A q \in h.requests : Whole(q) PROVE \A q \in f.requests : Whole(q)
  <2> TAKE q \in f.requests
  <2>1. PICK o \in h.requests : SameSend(o, q) /\ (~o.alias => q = o)
    BY <1>4
  <2> QED BY <1>9, <2>1 DEF Whole, SameSend
<1>10. \A q \in f.requests : \E o \in h.requests : q.list = o.list
  BY <1>4 DEF SameSend
<1>11. Keeps(h, f)
  BY <1>4 DEF Keeps
<1> QED BY <1>1, <1>3, <1>7, <1>8, <1>9, <1>10, <1>11

\* The fields that a function of the cache leaves alone.
SameRest(h, f) ==
  /\ f.p = h.p /\ f.queue = h.queue /\ f.cut = h.cut /\ f.unsaved = h.unsaved
  /\ f.pg.memory = h.pg.memory /\ f.pg.flushSet = h.pg.flushSet
  /\ f.pg.flushDue = h.pg.flushDue /\ f.pg.sending = h.pg.sending
  /\ f.pg.pending = h.pg.pending /\ f.pg.sendTimer = h.pg.sendTimer
  /\ f.pg.failStreak = h.pg.failStreak /\ f.pg.stopped = h.pg.stopped
  /\ f.pg.open = h.pg.open /\ f.pg.visible = h.pg.visible
  /\ f.pg.hiddenReported = h.pg.hiddenReported
  /\ f.pg.episode = h.pg.episode /\ f.pg.mine = h.pg.mine

LEMMA RestFacts ==
  ASSUME NEW h, NEW f, SameRest(h, f), Good(h)
  PROVE  /\ Stopping(f) /\ SamePage(h, f) /\ Loses(h, f) /\ Held(f) = Held(h)
         /\ (Timed(h) => Timed(f))
         /\ f.pg.cache \subseteq h.pg.cache => Limited(f)
<1>1. Stopping(f) /\ SamePage(h, f) /\ Loses(h, f) /\ Held(f) = Held(h)
  BY DEF SameRest, Good, Stopping, SamePage, Loses, Held
<1>2. Timed(h) => Timed(f)
  BY DEF SameRest, Timed
<1>3. ASSUME f.pg.cache \subseteq h.pg.cache PROVE Limited(f)
  <2>1. h.pg.cache \in SUBSET Record /\ f.pg.cache \in SUBSET Record
    BY <1>3 DEF Good, HState, PageState
  <2>2. /\ Cardinality(f.pg.cache) <= Cardinality(h.pg.cache)
        /\ Cardinality(f.pg.cache) \in Nat /\ Cardinality(h.pg.cache) \in Nat
    BY <1>3, <2>1, RecordsFinite, FS_Subset
  <2> QED BY <2>2, QueueAssumption DEF SameRest, Good, Limited
<1> QED BY <1>1, <1>2, <1>3

LEMMA DropFacts ==
  ASSUME NEW h, Good(h), NEW S \in SUBSET Record
  PROVE  LET f == DropRefs(h, S)
         IN  /\ Good(f) /\ SameRest(h, f) /\ Locks(h, f) /\ Asks(h, f, {}, {}, {})
             /\ f.pg.cache = h.pg.cache \ S /\ f.handed = h.handed
             /\ f.failed = h.failed /\ f.pg.worker = h.pg.worker /\ Keeps(h, f)
<1> DEFINE f == DropRefs(h, S)
<1>0. h \in HState
  BY DEF Good
<1>1. CASE S = {}
  <2>1. f = h /\ SameRest(h, h)
    BY <1>1 DEF DropRefs, SameRest
  <2>2. Locks(h, h) /\ Asks(h, h, {}, {}, {}) /\ Keeps(h, h)
    BY LocksNothing, AsksNothing, KeepsNothing
  <2> HIDE DEF f
  <2> QED BY <1>1, <2>1, <2>2 DEF f
<1>2. CASE S # {}
  <2>0. f = [h EXCEPT !.pg.cache = @ \ S,
                      !.requests = {Unalias(h, q) : q \in h.requests}]
    BY <1>0, <1>2 DEF DropRefs, Unalias
  <2>1. \A q \in h.requests : Unalias(h, q) \in Request
    BY <1>0, UnaliasFacts
  <2> DEFINE R == {Unalias(h, q) : q \in h.requests}
  <2>2. R \in SUBSET Request
    BY <2>1
  <2>3. f = [h EXCEPT !.pg.cache = @ \ S, !.requests = R]
    BY <2>0
  <2> HIDE DEF R, f
  <2>4. /\ f \in HState /\ f.requests = R /\ SameRest(h, f)
        /\ f.pg.cache = h.pg.cache \ S /\ f.handed = h.handed
        /\ f.failed = h.failed /\ f.pg.worker = h.pg.worker
    BY <1>0, <2>2, <2>3 DEF HState, PageState, SameRest
  <2>5. /\ IsFiniteSet(f.requests) /\ Asks(h, f, {}, {}, {}) /\ Locks(h, f)
        /\ (\A q \in h.requests : Whole(q)) => (\A q \in f.requests : Whole(q))
        /\ \A q \in f.requests : \E o \in h.requests : q.list = o.list
        /\ Keeps(h, f)
    BY <2>4, UnaliasRequests DEF R, SameRest
  <2>6. Stopping(f) /\ Limited(f)
    BY <2>4, RestFacts
  <2>7. Unsent(f) /\ Working(f)
    <3>1. h.pg.memory \cap h.queue = {} /\ \A q \in h.requests : q.list \cap h.pg.memory = {}
      BY DEF Good, Unsent
    <3>2. Unsent(f)
      BY <2>4, <2>5, <3>1 DEF Unsent, SameRest
    <3> QED BY <2>4, <2>5, <3>2 DEF Working, Good, SameRest
  <2> QED BY <2>4, <2>5, <2>6, <2>7 DEF Good, f
<1> QED BY <1>1, <1>2

LEMMA PostFacts ==
  ASSUME NEW h, Good(h), NEW S \in SUBSET Record, NEW f \in PostWorkerCache(h, S)
  PROVE  /\ Good(f) /\ SameRest(h, f) /\ Runs(h, f, {}) /\ Locks(h, f)
         /\ f.pg.cache \subseteq h.pg.cache /\ Keeps(h, f)
<1>0. h \in HState
  BY DEF Good
<1>1. CASE f = h
  <2>1. Locks(h, h) /\ SameRest(h, h) /\ Keeps(h, h)
    BY LocksNothing, KeepsNothing DEF SameRest
  <2> QED BY <1>1, <2>1, RunsNothing
<1>2. CASE h.pg.worker /\ f = DropRefs([h EXCEPT !.handed = @ \cup S], S)
  <2> DEFINE g == [h EXCEPT !.handed = @ \cup S]
  <2>1. /\ g \in HState /\ SameRest(h, g) /\ g.requests = h.requests
        /\ g.handed = h.handed \cup S /\ g.pg = h.pg /\ g.failed = h.failed
    BY <1>0 DEF HState, SameRest
  <2>0. f = DropRefs(g, S)
    BY <1>2
  <2> HIDE DEF g
  <2>2. Stopping(g) /\ Limited(g) /\ Unsent(g) /\ Working(g)
    BY <2>1 DEF Good, Stopping, Limited, Unsent, Working, SameRest
  <2>3. Good(g)
    BY <2>1, <2>2 DEF Good
  <2>4. /\ Good(f) /\ SameRest(g, f) /\ Locks(g, f) /\ Asks(g, f, {}, {}, {})
        /\ f.pg.cache = g.pg.cache \ S /\ f.handed = g.handed
        /\ f.failed = g.failed /\ f.pg.worker = g.pg.worker /\ Keeps(g, f)
    BY <2>0, <2>3, DropFacts
  <2>5. SameRest(h, f)
    BY <2>1, <2>4 DEF SameRest
  <2>6. Locks(h, f)
    BY <2>1, <2>4, LocksNothing, LocksTrans DEF SameRest
  <2>7. Hands(h, f)
    BY <2>1, <2>4 DEF Hands
  <2>8. Hands(h, g) /\ SamePage(h, g) /\ Loses(h, g)
    BY <2>1, RestFacts DEF Hands
  <2>9. Asks(h, g, {}, {}, {})
    BY <2>1, AsksNothing DEF SameRest
  <2>10. Asks(h, f, {}, {}, {})
    <3>1. Asks(h, f, {} \cup {}, {} \cup {}, {} \cup {})
      BY <2>3, <2>4, <2>8, <2>9, AsksTrans DEF Good, SamePage, Loses, Hands
    <3> QED BY <3>1
  <2>11. SamePage(h, f) /\ Loses(h, f)
    BY <2>5, RestFacts
  <2>12. Keeps(h, f)
    BY <2>1, <2>4, KeepsNothing, KeepsTrans
  <2> QED BY <2>1, <2>4, <2>5, <2>6, <2>7, <2>10, <2>11, <2>12 DEF Runs
<1>3. CASE WorkerFails /\ f = [h EXCEPT !.pg.worker = FALSE, !.failed = TRUE]
  <2>1. /\ f \in HState /\ SameRest(h, f) /\ f.requests = h.requests
        /\ f.pg.cache = h.pg.cache /\ f.handed = h.handed /\ ~f.pg.worker
    BY <1>0, <1>3 DEF HState, PageState, SameRest
  <2>2. Stopping(f) /\ Limited(f) /\ SamePage(h, f) /\ Loses(h, f)
    BY <2>1, RestFacts
  <2>3. Unsent(f) /\ Working(f)
    BY <1>3, <2>1 DEF Good, Unsent, Working, SameRest
  <2>4. Good(f)
    BY <2>1, <2>2, <2>3 DEF Good
  <2>5. Hands(h, f)
    BY <2>1 DEF Hands
  <2>6. Locks(h, f) /\ Asks(h, f, {}, {}, {}) /\ Keeps(h, f)
    BY <2>1, LocksNothing, AsksNothing, KeepsNothing DEF SameRest
  <2> QED BY <2>1, <2>2, <2>4, <2>5, <2>6 DEF Runs
<1> QED
  <2> DEFINE d == DropRefs([h EXCEPT !.handed = @ \cup S], S)
             t == [h EXCEPT !.pg.worker = FALSE, !.failed = TRUE]
  <2>1. S = {} => PostWorkerCache(h, S) = {h}
    BY DEF PostWorkerCache
  <2>2. S # {} => PostWorkerCache(h, S) =
                    {IF h.pg.worker THEN d ELSE h} \cup (IF WorkerFails THEN {t} ELSE {})
    BY DEF PostWorkerCache
  <2>3. (h.pg.worker /\ f = d) \/ (WorkerFails /\ f = t) \/ f = h
    <3> HIDE DEF d, t
    <3> QED BY <2>1, <2>2
  <2> QED BY <1>1, <1>2, <1>3, <2>3

-----------------------------------------------------------------------------
(***************************************************************************)
(* Timers, the end of a send, the end of all sending.                      *)
(***************************************************************************)
SameStore(h, f) ==
  /\ f.p = h.p /\ f.queue = h.queue /\ f.cut = h.cut /\ f.unsaved = h.unsaved
  /\ f.handed = h.handed /\ f.requests = h.requests
  /\ f.pg.memory = h.pg.memory /\ f.pg.cache = h.pg.cache
  /\ f.pg.flushSet = h.pg.flushSet /\ f.pg.flushDue = h.pg.flushDue
  /\ f.pg.open = h.pg.open /\ f.pg.visible = h.pg.visible
  /\ f.pg.hiddenReported = h.pg.hiddenReported
  /\ f.pg.episode = h.pg.episode /\ f.pg.mine = h.pg.mine

LEMMA StoreFacts ==
  ASSUME NEW h, Good(h), NEW f \in HState, SameStore(h, f), Stopping(f),
         h.pg.stopped => f.pg.stopped,
         f.pg.stopped \/ f.pg.worker = h.pg.worker
  PROVE  /\ Good(f) /\ Runs(h, f, {}) /\ (Timed(h) => Timed(f))
         /\ f.pg.sending = h.pg.sending => Locks(h, f)
<1>1. Limited(f) /\ Unsent(f) /\ Working(f)
  BY DEF Good, SameStore, Limited, Unsent, Working
<1>2. Good(f)
  BY <1>1 DEF Good, SameStore
<1>3. SamePage(h, f) /\ Loses(h, f) /\ Hands(h, f)
  BY DEF SameStore, SamePage, Loses, Hands, Held
<1>4. Asks(h, f, {}, {}, {})
  BY AsksNothing DEF SameStore
<1>5. Timed(h) => Timed(f)
  BY DEF SameStore, Timed
<1>6. f.pg.sending = h.pg.sending => Locks(h, f)
  BY LocksNothing DEF SameStore
<1> QED BY <1>2, <1>3, <1>4, <1>5, <1>6 DEF Runs

LEMMA ScheduleFacts ==
  ASSUME NEW h, Good(h)
  PROVE  LET f == ScheduleSend(h)
         IN  /\ Good(f) /\ Runs(h, f, {}) /\ Locks(h, f) /\ (Timed(h) => Timed(f))
             /\ SameStore(h, f) /\ f.pg.stopped = h.pg.stopped
<1> DEFINE f == ScheduleSend(h)
<1>1. /\ f \in HState /\ SameStore(h, f) /\ f.pg.sending = h.pg.sending
      /\ f.pg.stopped = h.pg.stopped /\ f.pg.pending = h.pg.pending
      /\ f.pg.failStreak = h.pg.failStreak /\ f.pg.worker = h.pg.worker
      /\ h.pg.stopped => f.pg.sendTimer = h.pg.sendTimer
  <2>1. CASE h.pg.stopped
    <3>1. f = h /\ h \in HState
      BY <2>1 DEF Good, ScheduleSend
    <3> HIDE DEF f
    <3> QED BY <3>1 DEF SameStore
  <2>2. CASE ~h.pg.stopped
    <3>1. f = [h EXCEPT !.pg.sendTimer = TRUE] /\ h \in HState
      BY <2>2 DEF Good, ScheduleSend
    <3> HIDE DEF f
    <3>2. f \in HState
      BY <3>1 DEF HState, PageState
    <3>3. SameStore(h, f)
      BY <3>1 DEF HState, PageState, SameStore
    <3>4. /\ f.pg.sending = h.pg.sending
          /\ f.pg.stopped = h.pg.stopped /\ f.pg.pending = h.pg.pending
          /\ f.pg.failStreak = h.pg.failStreak /\ f.pg.worker = h.pg.worker
      BY <3>1 DEF HState, PageState
    <3> QED BY <2>2, <3>2, <3>3, <3>4
  <2> QED BY <2>1, <2>2
<1> HIDE DEF f
<1>2. Stopping(f)
  BY <1>1 DEF Good, Stopping
<1> QED BY <1>1, <1>2, StoreFacts DEF f

LEMMA AbortFacts ==
  ASSUME NEW h, Good(h)
  PROVE  LET f == Abort(h)
         IN  /\ Good(f) /\ Runs(h, f, {}) /\ Locks(h, f) /\ (Timed(h) => Timed(f))
<1> DEFINE f == Abort(h)
<1>1. /\ f \in HState /\ SameStore(h, f) /\ f.pg.sending = h.pg.sending
      /\ f.pg.stopped /\ ~f.pg.pending /\ ~f.pg.sendTimer
  BY DEF Good, Abort, HState, PageState, SameStore
<1> HIDE DEF f
<1>2. Stopping(f)
  BY <1>1 DEF Stopping
<1> QED BY <1>1, <1>2, StoreFacts DEF f

LEMMA IdleFacts ==
  ASSUME NEW h \in HState, NEW n \in Nat
  PROVE  LET free == [h EXCEPT !.pg.sending = FALSE]
             f    == [[free EXCEPT !.pg.pending = FALSE] EXCEPT !.pg.failStreak = n]
         IN  /\ f \in HState /\ SameStore(h, f) /\ ~f.pg.sending /\ ~f.pg.pending
             /\ f.pg.failStreak = n /\ f.pg.worker = h.pg.worker
             /\ f.pg.stopped = h.pg.stopped /\ f.failed = h.failed
<1> DEFINE free == [h EXCEPT !.pg.sending = FALSE]
           idle == [free EXCEPT !.pg.pending = FALSE]
           f    == [idle EXCEPT !.pg.failStreak = n]
<1>1. /\ free \in HState /\ SameStore(h, free) /\ ~free.pg.sending
      /\ free.pg.worker = h.pg.worker /\ free.pg.stopped = h.pg.stopped
      /\ free.failed = h.failed
  BY DEF HState, PageState, SameStore
<1> HIDE DEF free
<1>2. /\ idle \in HState /\ SameStore(free, idle) /\ ~idle.pg.sending
      /\ ~idle.pg.pending /\ idle.pg.worker = free.pg.worker
      /\ idle.pg.stopped = free.pg.stopped /\ idle.failed = free.failed
  BY <1>1 DEF HState, PageState, SameStore
<1> HIDE DEF idle
<1>3. f \in HState
  BY <1>2 DEF HState, PageState
<1>4. /\ SameStore(idle, f) /\ ~f.pg.sending /\ ~f.pg.pending
      /\ f.pg.failStreak = n /\ f.pg.worker = idle.pg.worker
      /\ f.pg.stopped = idle.pg.stopped /\ f.failed = idle.failed
  BY <1>2 DEF HState, PageState, SameStore
<1> HIDE DEF f
<1>5. SameStore(h, f)
  BY <1>1, <1>2, <1>4 DEF SameStore
<1> QED BY <1>1, <1>2, <1>3, <1>4, <1>5 DEF f, idle, free

LEMMA SettleFacts ==
  ASSUME NEW h, Good(h)
  PROVE  LET f == Settle(h)
         IN  /\ Good(f) /\ Runs(h, f, {}) /\ (Timed(h) => Timed(f))
             /\ ~f.pg.sending /\ f.requests = h.requests /\ f.p = h.p
             /\ SameStore(h, f) /\ f.failed = h.failed
<1> DEFINE f    == Settle(h)
           free == [h EXCEPT !.pg.sending = FALSE]
           idle == [free EXCEPT !.pg.pending = FALSE]
           bad  == [idle EXCEPT !.pg.failStreak = @ + 1]
<1>0. f = IF h.pg.stopped THEN free
          ELSE IF ~h.failed THEN Succeed(idle)
          ELSE IF Exhausted(bad) THEN Abort(bad)
          ELSE ScheduleSend(bad)
  BY DEF Settle
<1>1. h \in HState /\ h.pg.failStreak \in Nat /\ h.pg.failStreak + 1 \in Nat /\ 0 \in Nat
  BY DEF Good, HState, PageState
<1>2. CASE h.pg.stopped
  <2>1. f = free
    BY <1>0, <1>2
  <2> HIDE DEF f
  <2>4. f \in HState
    BY <1>1, <2>1 DEF HState, PageState
  <2>5. SameStore(h, f)
    BY <1>1, <2>1 DEF HState, PageState, SameStore
  <2>2. /\ f \in HState /\ SameStore(h, f) /\ ~f.pg.sending
        /\ f.pg.stopped /\ f.pg.pending = h.pg.pending /\ f.pg.sendTimer = h.pg.sendTimer
        /\ f.failed = h.failed
    BY <1>1, <1>2, <2>1, <2>4, <2>5 DEF HState, PageState
  <2>3. Stopping(f)
    BY <1>2, <2>2 DEF Good, Stopping
  <2> QED BY <2>2, <2>3, StoreFacts DEF f, SameStore
<1>3. CASE ~h.pg.stopped /\ ~h.failed
  <2>1. f = [idle EXCEPT !.pg.failStreak = 0]
    BY <1>0, <1>3 DEF Succeed
  <2>2. /\ f \in HState /\ SameStore(h, f) /\ ~f.pg.sending
        /\ ~f.pg.stopped /\ f.pg.failStreak = 0 /\ f.pg.worker = h.pg.worker
        /\ f.failed = h.failed
    <3> HIDE DEF f
    <3> QED BY <1>1, <1>3, <2>1, IdleFacts
  <2> HIDE DEF f
  <2>3. Stopping(f)
    BY <2>2, SenderAssumption DEF Stopping
  <2> QED BY <1>3, <2>2, <2>3, StoreFacts DEF f, SameStore
<1>4. CASE ~h.pg.stopped /\ h.failed
  <2>1. /\ bad \in HState /\ SameStore(h, bad) /\ ~bad.pg.sending /\ ~bad.pg.pending
        /\ ~bad.pg.stopped /\ bad.pg.failStreak = h.pg.failStreak + 1
        /\ bad.pg.worker = h.pg.worker /\ bad.failed = h.failed
    <3>1. idle.pg.failStreak = h.pg.failStreak
      BY <1>1 DEF HState, PageState
    <3>2. bad = [idle EXCEPT !.pg.failStreak = h.pg.failStreak + 1]
      BY <1>1, <3>1 DEF HState, PageState
    <3> HIDE DEF bad
    <3> QED BY <1>1, <1>4, <3>2, IdleFacts
  <2>2. f = IF bad.pg.failStreak > MaxRetry THEN Abort(bad) ELSE ScheduleSend(bad)
    BY <1>0, <1>4 DEF Exhausted
  <2> HIDE DEF f, bad
  <2>3. CASE bad.pg.failStreak > MaxRetry
    <3>1. /\ f \in HState /\ SameStore(bad, f) /\ ~f.pg.sending /\ f.pg.stopped
          /\ ~f.pg.pending /\ ~f.pg.sendTimer /\ f.failed = bad.failed
      BY <2>1, <2>2, <2>3 DEF Abort, HState, PageState, SameStore
    <3>2. Stopping(f) /\ SameStore(h, f)
      BY <2>1, <3>1 DEF Stopping, SameStore
    <3> QED BY <1>4, <2>1, <3>1, <3>2, StoreFacts DEF f, SameStore
  <2>4. CASE ~(bad.pg.failStreak > MaxRetry)
    <3>1. /\ f \in HState /\ SameStore(bad, f) /\ ~f.pg.sending /\ ~f.pg.stopped
          /\ f.pg.failStreak = bad.pg.failStreak /\ f.pg.worker = bad.pg.worker
          /\ f.failed = bad.failed
      BY <2>1, <2>2, <2>4 DEF ScheduleSend, HState, PageState, SameStore
    <3>2. Stopping(f) /\ SameStore(h, f)
      BY <2>1, <2>4, <3>1 DEF Stopping, SameStore
    <3> QED BY <1>4, <2>1, <3>1, <3>2, StoreFacts DEF f, SameStore
  <2> QED BY <2>3, <2>4
<1> QED BY <1>2, <1>3, <1>4
-----------------------------------------------------------------------------
(***************************************************************************)
(* A send.                                                                 *)
(***************************************************************************)
LEMMA AddFacts ==
  ASSUME NEW h, Good(h), ~h.pg.stopped, NEW K, NEW q \in Request, NewSend(h, q, {}, {}, K),
         q.list \cap h.pg.memory = {}, WorkerFails \/ Whole(q)
  PROVE  LET f == [h EXCEPT !.requests = @ \cup {q}]
         IN  /\ Good(f) /\ Runs(h, f, K) /\ (Timed(h) => Timed(f))
             /\ f.requests = h.requests \cup {q} /\ f.pg = h.pg /\ f.p = h.p
<1> DEFINE f == [h EXCEPT !.requests = @ \cup {q}]
<1>1. /\ f \in HState /\ f.pg = h.pg /\ f.p = h.p /\ f.queue = h.queue
      /\ f.requests = h.requests \cup {q} /\ f.handed = h.handed
      /\ f.cut = h.cut /\ f.unsaved = h.unsaved
  BY DEF Good, HState
<1> HIDE DEF f
<1>2. IsFiniteSet(f.requests)
  BY <1>1, FS_AddElement DEF Good
<1>3. Stopping(f) /\ Limited(f) /\ Unsent(f) /\ Working(f)
  BY <1>1 DEF Good, Stopping, Limited, Unsent, Working
<1>4. SamePage(h, f) /\ Loses(h, f) /\ Hands(h, f)
  BY <1>1 DEF SamePage, Loses, Hands, Held
<1>5. \A o : SameSend(o, o)
  BY DEF SameSend
<1>6. Asks(h, f, {}, {}, K)
  BY <1>1, <1>5 DEF Asks
<1>7. Timed(h) => Timed(f)
  BY <1>1 DEF Timed
<1> QED BY <1>1, <1>2, <1>3, <1>4, <1>6, <1>7 DEF Good, Runs, f

\* The lock is taken: its flag is set, and no request has it yet.
Taken(h) == h.pg.sending /\ Uniq(h) /\ ~Owned(h)

LEMMA BeginNormalFacts ==
  ASSUME NEW h, Good(h), ~h.pg.stopped, Taken(h), NEW f \in BeginNormal(h)
  PROVE  Good(f) /\ Lock(f) /\ Runs(h, f, {}) /\ (Timed(h) => Timed(f))
<1> DEFINE body == IF h.pg.worker THEN {} ELSE h.pg.cache
           q    == [page |-> h.p, keepalive |-> FALSE, owner |-> TRUE,
                    list |-> h.queue, body |-> body, alias |-> TRUE, array |-> {},
                    worker |-> h.pg.worker, by |-> 0, episode |-> h.pg.episode]
<1>0. h \in HState /\ h.pg.cache \in SUBSET Record
  BY DEF Good, HState, PageState
<1>1. CASE h.queue = {} /\ body = {}
  <2>1. PICK g \in IF h.pg.worker THEN PostWorkerCache(h, h.pg.cache) ELSE {h} :
               f = Settle(g)
    BY <1>1 DEF BeginNormal
  <2>2. Good(g) /\ Runs(h, g, {}) /\ Locks(h, g) /\ (Timed(h) => Timed(g))
    <3>1. CASE h.pg.worker
      <4>1. Good(g) /\ SameRest(h, g) /\ Runs(h, g, {}) /\ Locks(h, g)
        BY <1>0, <2>1, <3>1, PostFacts
      <4> QED BY <4>1, RestFacts
    <3>2. CASE ~h.pg.worker
      BY <2>1, <3>2, RunsNothing, LocksNothing
    <3> QED BY <3>1, <3>2
  <2>3. /\ Good(f) /\ Runs(g, f, {}) /\ (Timed(g) => Timed(f))
        /\ ~f.pg.sending /\ f.requests = g.requests /\ f.p = g.p
    BY <2>1, <2>2, SettleFacts
  <2>4. Runs(h, f, {} \cup {})
    BY <2>2, <2>3, RunsTrans
  <2>5. Lock(f)
    BY <2>2, <2>3 DEF Taken, Lock, Locks, Uniq, Owned, Runs, SamePage
  <2> QED BY <2>2, <2>3, <2>4, <2>5
<1>2. CASE ~(h.queue = {} /\ body = {})
  <2>1. f = [h EXCEPT !.requests = @ \cup {q}]
    BY <1>2 DEF BeginNormal
  <2>2. body \in SUBSET Record /\ body \subseteq h.pg.cache
    BY <1>0
  <2>3. q \in Request
    <3> HIDE DEF body
    <3> QED BY <1>0, <2>2 DEF HState, PageState, Request
  <2>4. /\ q.page = h.p /\ ~q.keepalive /\ q.owner /\ q.list = h.queue
        /\ q.body = body /\ q.worker = h.pg.worker /\ q.episode = h.pg.episode
        /\ q.worker => q.body = {}
    OBVIOUS
  <2> HIDE DEF q
  <2>5. NewSend(h, q, {}, {}, {})
    BY <2>2, <2>4 DEF NewSend, Held
  <2>6. q.list \cap h.pg.memory = {} /\ (WorkerFails \/ Whole(q))
    BY <2>4 DEF Good, Unsent, Working, Whole
  <2>7. /\ Good(f) /\ Runs(h, f, {}) /\ (Timed(h) => Timed(f))
        /\ f.requests = h.requests \cup {q} /\ f.pg = h.pg /\ f.p = h.p
    BY <2>1, <2>3, <2>5, <2>6, AddFacts
  <2>8. Lock(f)
    BY <2>4, <2>7 DEF Taken, Lock, Uniq, Owned
  <2> QED BY <2>7, <2>8
<1> QED BY <1>1, <1>2

LEMMA BeginKeepaliveFacts ==
  ASSUME NEW h, Good(h), ~h.pg.stopped, h.pg.sending, Uniq(h),
         NEW owner \in BOOLEAN, Owned(h) <=> ~owner,
         NEW by \in Nat, NEW f \in BeginKeepalive(h, owner, by)
  PROVE  Good(f) /\ Lock(f) /\ Runs(h, f, {by}) /\ (Timed(h) => Timed(f))
<1> DEFINE main == IF h.pg.worker THEN h.pg.cache \ Track ELSE h.pg.cache
           list == PickWithinBudget(h.queue, KeepaliveBudget)
           body == PickWithinBudget(main, KeepaliveBudget - Bytes(list))
           q    == [page |-> h.p, keepalive |-> TRUE, owner |-> owner,
                    list |-> list, body |-> body, alias |-> ~h.pg.worker,
                    array |-> main, worker |-> h.pg.worker, by |-> by,
                    episode |-> h.pg.episode]
           free == [h EXCEPT !.pg.sending = ~owner]
           more == [h EXCEPT !.requests = @ \cup {q}]
           sent == IF list \cup body = {} THEN free ELSE more
<1>0. h \in HState /\ h.pg.cache \in SUBSET Record /\ h.queue \in SUBSET Record
  BY DEF Good, HState, PageState
<1>1. list \in SUBSET h.queue /\ list \in SUBSET Record
  BY <1>0 DEF PickWithinBudget
<1>2. main \in SUBSET h.pg.cache /\ main \in SUBSET Record
  BY <1>0
<1>3. body \in SUBSET main /\ PrefixOf(body, main)
  <2>1. KeepaliveBudget - Bytes(list) \in Int
    BY <1>1, BytesType, SenderAssumption
  <2>2. body \in SUBSET main
    BY DEF PickWithinBudget
  <2> QED BY <1>2, <2>1, <2>2, PickIsPrefix
<1>4. f \in IF h.pg.worker THEN PostWorkerCache(sent, h.pg.cache \cap Track) ELSE {sent}
  BY DEF BeginKeepalive
<1>5. q \in Request
  <2> HIDE DEF list, body, main
  <2> QED BY <1>0, <1>1, <1>2, <1>3 DEF HState, PageState, Request
<1>6. /\ q.page = h.p /\ q.keepalive /\ q.owner = owner /\ q.list = list
      /\ q.body = body /\ q.alias = ~h.pg.worker /\ q.array = main
      /\ q.worker = h.pg.worker /\ q.by = by /\ q.episode = h.pg.episode
  OBVIOUS
<1> HIDE DEF q, list, body, main
<1>7. Good(sent) /\ Lock(sent) /\ Runs(h, sent, {by}) /\ (Timed(h) => Timed(sent))
  <2>1. CASE list \cup body = {}
    <3>1. sent = free
      BY <2>1
    <3>2. free \in HState
      BY <1>0 DEF HState, PageState
    <3>3. SameStore(h, free)
      BY <1>0 DEF HState, PageState, SameStore
    <3>4. /\ free.pg.sending = ~owner /\ free.pg.stopped = h.pg.stopped
          /\ free.pg.pending = h.pg.pending /\ free.pg.sendTimer = h.pg.sendTimer
          /\ free.pg.failStreak = h.pg.failStreak /\ free.pg.worker = h.pg.worker
      BY <1>0 DEF HState, PageState
    <3> HIDE DEF free, sent
    <3>5. Stopping(free)
      BY <3>4 DEF Good, Stopping
    <3>6. Good(free) /\ Runs(h, free, {}) /\ (Timed(h) => Timed(free))
      BY <3>2, <3>3, <3>4, <3>5, StoreFacts
    <3>7. Lock(free)
      BY <3>3, <3>4 DEF Lock, Uniq, Owned, SameStore
    <3>8. Runs(h, free, {} \cup {by})
      BY <3>6, RunsNothing, RunsTrans
    <3> QED BY <3>1, <3>6, <3>7, <3>8
  <2>2. CASE list \cup body # {}
    <3>1. sent = more
      BY <2>2
    <3>2. NewSend(h, q, {}, {}, {by})
      BY <1>1, <1>2, <1>3, <1>6 DEF NewSend, Held
    <3>3. q.list \cap h.pg.memory = {} /\ (WorkerFails \/ Whole(q))
      BY <1>1, <1>3, <1>6 DEF Good, Unsent, Working, Whole
    <3>4. /\ Good(more) /\ Runs(h, more, {by}) /\ (Timed(h) => Timed(more))
          /\ more.requests = h.requests \cup {q} /\ more.pg = h.pg /\ more.p = h.p
      BY <1>5, <3>2, <3>3, AddFacts
    <3> HIDE DEF more, sent
    <3>5. Lock(more)
      BY <1>6, <3>4 DEF Lock, Uniq, Owned
    <3> QED BY <3>1, <3>4, <3>5
  <2> QED BY <2>1, <2>2
<1> HIDE DEF sent
<1>8. CASE h.pg.worker
  <2>1. f \in PostWorkerCache(sent, h.pg.cache \cap Track)
    BY <1>4, <1>8
  <2>2. Good(f) /\ SameRest(sent, f) /\ Runs(sent, f, {}) /\ Locks(sent, f)
    BY <1>0, <1>7, <2>1, PostFacts
  <2>3. Timed(sent) => Timed(f)
    BY <1>7, <2>2, RestFacts
  <2>4. Runs(h, f, {by} \cup {})
    BY <1>7, <2>2, RunsTrans
  <2>5. Lock(f)
    BY <1>7, <2>2 DEF Lock, Locks
  <2> QED BY <1>7, <2>2, <2>3, <2>4, <2>5
<1>9. CASE ~h.pg.worker
  BY <1>4, <1>7, <1>9
<1> QED BY <1>8, <1>9

LEMMA SendFacts ==
  ASSUME NEW h, Good(h), Lock(h), NEW keepalive \in BOOLEAN, NEW by \in Nat,
         NEW K, keepalive => by \in K, NEW f \in SendRequest(h, keepalive, by)
  PROVE  Good(f) /\ Lock(f) /\ Runs(h, f, K) /\ (Timed(h) => Timed(f))
<1>0. h \in HState
  BY DEF Good
<1>1. CASE h.pg.stopped
  BY <1>1, RunsNothing DEF SendRequest
<1>2. CASE ~h.pg.stopped /\ h.pg.sending /\ ~keepalive
  <2>1. f = [h EXCEPT !.pg.pending = TRUE]
    BY <1>2 DEF SendRequest
  <2>2. f \in HState
    BY <1>0, <2>1 DEF HState, PageState
  <2>3. SameStore(h, f)
    BY <1>0, <2>1 DEF HState, PageState, SameStore
  <2>4. /\ f.pg.sending = h.pg.sending /\ f.pg.stopped = h.pg.stopped
        /\ f.pg.failStreak = h.pg.failStreak /\ f.pg.worker = h.pg.worker
    BY <1>0, <2>1 DEF HState, PageState
  <2>5. Stopping(f)
    BY <1>2, <2>4 DEF Good, Stopping
  <2>6. Good(f) /\ Runs(h, f, {}) /\ (Timed(h) => Timed(f)) /\ Locks(h, f)
    BY <2>2, <2>3, <2>4, <2>5, StoreFacts
  <2>7. Runs(h, f, {} \cup K)
    BY <2>6, RunsNothing, RunsTrans
  <2> QED BY <2>6, <2>7 DEF Lock, Locks
<1>3. CASE ~h.pg.stopped /\ (~h.pg.sending \/ keepalive)
  <2> DEFINE owner == ~h.pg.sending
             h1    == IF keepalive THEN h
                      ELSE [h EXCEPT !.pg.sendTimer = FALSE, !.pg.pending = FALSE]
             h2    == [h1 EXCEPT !.pg.sending = TRUE]
  <2>1. PICK g \in FlushMemoryToStorage(h2) :
               f \in IF keepalive THEN BeginKeepalive(g, owner, by) ELSE BeginNormal(g)
    BY <1>3 DEF SendRequest
  <2>2. /\ h1 \in HState /\ SameStore(h, h1) /\ h1.pg.stopped = h.pg.stopped
        /\ h1.pg.failStreak = h.pg.failStreak /\ h1.pg.worker = h.pg.worker
    <3>1. CASE keepalive
      BY <1>0, <3>1 DEF SameStore
    <3>2. CASE ~keepalive
      <4>1. h1 = [h EXCEPT !.pg.sendTimer = FALSE, !.pg.pending = FALSE]
        BY <3>2
      <4> HIDE DEF h1
      <4>2. h1 \in HState
        BY <1>0, <4>1 DEF HState, PageState
      <4>3. SameStore(h, h1)
        BY <1>0, <4>1 DEF HState, PageState, SameStore
      <4>4. /\ h1.pg.stopped = h.pg.stopped
            /\ h1.pg.failStreak = h.pg.failStreak /\ h1.pg.worker = h.pg.worker
        BY <1>0, <4>1 DEF HState, PageState
      <4> QED BY <4>2, <4>3, <4>4
    <3> QED BY <3>1, <3>2
  <2> HIDE DEF h1
  <2>3. h2 \in HState
    BY <2>2 DEF HState, PageState
  <2>4. SameStore(h1, h2)
    BY <2>2 DEF HState, PageState, SameStore
  <2>5. /\ h2.pg.sending /\ h2.pg.stopped = h1.pg.stopped
        /\ h2.pg.failStreak = h1.pg.failStreak /\ h2.pg.worker = h1.pg.worker
    BY <2>2 DEF HState, PageState
  <2> HIDE DEF h2
  <2>6. SameStore(h, h2)
    BY <2>2, <2>4 DEF SameStore
  <2>7. Stopping(h2)
    BY <1>3, <2>2, <2>5 DEF Good, Stopping
  <2>8. Good(h2) /\ Runs(h, h2, {}) /\ (Timed(h) => Timed(h2))
    BY <2>2, <2>3, <2>5, <2>6, <2>7, StoreFacts
  <2>9. /\ Good(g) /\ Runs(h2, g, {}) /\ Locks(h2, g) /\ SameControl(h2, g)
        /\ Timed(h2) => Timed(g)
    BY <2>1, <2>8, FlushFacts
  <2>10. /\ Uniq(g) /\ (Owned(g) <=> ~owner) /\ g.pg.sending /\ ~g.pg.stopped
    BY <1>3, <2>2, <2>5, <2>6, <2>9 DEF Lock, Locks, Uniq, Owned, SameStore, SameControl
  <2>11. /\ Good(f) /\ Lock(f) /\ Runs(g, f, K) /\ (Timed(g) => Timed(f))
    <3>1. CASE keepalive
      <4>1. Good(f) /\ Lock(f) /\ Runs(g, f, {by}) /\ (Timed(g) => Timed(f))
        BY <2>1, <2>9, <2>10, <3>1, BeginKeepaliveFacts
      <4>2. {by} \cup K = K
        BY <3>1
      <4>3. Runs(g, f, {by} \cup K)
        BY <2>9, <4>1, RunsNothing, RunsTrans
      <4> QED BY <4>1, <4>2, <4>3
    <3>2. CASE ~keepalive
      <4>1. Taken(g)
        BY <1>3, <2>10, <3>2 DEF Taken
      <4>2. Good(f) /\ Lock(f) /\ Runs(g, f, {}) /\ (Timed(g) => Timed(f))
        BY <2>1, <2>9, <2>10, <3>2, <4>1, BeginNormalFacts
      <4>3. Runs(g, f, {} \cup K)
        BY <2>9, <4>2, RunsNothing, RunsTrans
      <4> QED BY <4>2, <4>3
    <3> QED BY <3>1, <3>2
  <2>12. Runs(h, g, {} \cup {})
    BY <2>8, <2>9, RunsTrans
  <2>13. Runs(h, f, ({} \cup {}) \cup K)
    BY <2>9, <2>11, <2>12, RunsTrans
  <2> QED BY <2>8, <2>9, <2>11, <2>13
<1> QED BY <1>1, <1>2, <1>3

LEMMA FollowUpFacts ==
  ASSUME NEW h, Good(h), Lock(h), NEW needed, NEW f \in FollowUp(h, needed)
  PROVE  Good(f) /\ Lock(f) /\ Runs(h, f, {}) /\ (Timed(h) => Timed(f))
<1>1. f \in SendRequest(h, FALSE, 0) \/ f = h
  BY DEF FollowUp
<1>2. CASE f = h
  BY <1>2, RunsNothing
<1>3. CASE f \in SendRequest(h, FALSE, 0)
  BY <1>3, SendFacts
<1> QED BY <1>1, <1>2, <1>3

-----------------------------------------------------------------------------
(***************************************************************************)
(* What a whole handler does: m and c are the records that it accepted for *)
(* the queue and for the cache, A those that it was told are delivered, K  *)
(* the departures it started keepalive sends for.                          *)
(***************************************************************************)
Stays(h, f) ==
  /\ f.p = h.p /\ f.pg.open = h.pg.open /\ f.pg.visible = h.pg.visible
  /\ f.pg.hiddenReported = h.pg.hiddenReported /\ f.pg.episode = h.pg.episode
  /\ h.pg.stopped => f.pg.stopped

Drops(h, f, m, c, A) ==
  /\ Held(f) \subseteq Held(h) \cup m /\ f.pg.memory \subseteq h.pg.memory \cup m
  /\ (Held(h) \cup m) \ Held(f) \subseteq f.cut \cup A
  /\ h.cut \subseteq f.cut
  /\ f.cut \subseteq h.cut \cup ((Held(h) \cup m) \ Held(f)) \cup h.pg.cache \cup c
  /\ h.unsaved \subseteq f.unsaved

Yields(h, f, c, A) ==
  /\ f.pg.cache \subseteq h.pg.cache \cup c /\ h.handed \subseteq f.handed
  /\ WorkerFails \/ h.pg.cache \cup c \subseteq f.pg.cache \cup f.handed \cup f.cut \cup A

Went(h, f, m, c, K, A) ==
  /\ Stays(h, f) /\ f.pg.mine = h.pg.mine \cup m \cup c
  /\ Drops(h, f, m, c, A) /\ Yields(h, f, c, A) /\ Asks(h, f, m, c, K)

LEMMA RunsWent ==
  ASSUME NEW h, NEW f, NEW K, Runs(h, f, K) PROVE Went(h, f, {}, {}, K, {})
<1>1. Stays(h, f) /\ f.pg.mine = h.pg.mine \cup {} \cup {}
  BY DEF Runs, SamePage, Stays
<1>2. Drops(h, f, {}, {}, {})
  BY DEF Runs, Loses, Drops
<1>3. Yields(h, f, {}, {})
  BY DEF Runs, Hands, Yields
<1> QED BY <1>1, <1>2, <1>3 DEF Runs, Went

LEMMA WentTrans ==
  ASSUME NEW h, NEW g, NEW f, NEW m, NEW n, NEW c, NEW d, NEW J, NEW K, NEW A, NEW B,
         Good(h), Good(g), Good(f), n \cap (Held(h) \cup m) = {},
         Went(h, g, m, c, J, A), Went(g, f, n, d, K, B)
  PROVE  Went(h, f, m \cup n, c \cup d, J \cup K, A \cup B)
<1>1. Stays(h, f) /\ f.pg.mine = h.pg.mine \cup (m \cup n) \cup (c \cup d)
  BY DEF Went, Stays
<1>2. Drops(h, f, m \cup n, c \cup d, A \cup B)
  <2>1. Drops(h, g, m, c, A) /\ Drops(g, f, n, d, B) /\ g.pg.cache \subseteq h.pg.cache \cup c
    BY DEF Went, Yields
  <2>2. Held(f) \subseteq Held(h) \cup (m \cup n)
        /\ f.pg.memory \subseteq h.pg.memory \cup (m \cup n)
        /\ h.cut \subseteq f.cut /\ h.unsaved \subseteq f.unsaved
    BY <2>1 DEF Drops
  <2>3. (Held(h) \cup (m \cup n)) \ Held(f) \subseteq f.cut \cup (A \cup B)
    BY <2>1 DEF Drops
  <2>4. f.cut \subseteq h.cut \cup ((Held(h) \cup (m \cup n)) \ Held(f))
                        \cup h.pg.cache \cup (c \cup d)
    BY <2>1 DEF Drops
  <2> QED BY <2>2, <2>3, <2>4 DEF Drops
<1>3. Yields(h, f, c \cup d, A \cup B)
  <2>1. g.cut \subseteq f.cut
    BY DEF Went, Drops
  <2> QED BY <2>1 DEF Went, Yields
<1>4. Asks(h, f, m \cup n, c \cup d, J \cup K)
  BY AsksTrans DEF Went, Stays, Drops, Yields, Good
<1> QED BY <1>1, <1>2, <1>3, <1>4 DEF Went

LEMMA WentRuns ==
  ASSUME NEW h, NEW g, NEW f, NEW m, NEW c, NEW J, NEW K, NEW A,
         Good(h), Good(g), Good(f), Went(h, g, m, c, J, A), Runs(g, f, K)
  PROVE  Went(h, f, m, c, J \cup K, A)
<1>1. Went(h, f, m \cup {}, c \cup {}, J \cup K, A \cup {})
  BY RunsWent, WentTrans
<1> QED BY <1>1

-----------------------------------------------------------------------------
(***************************************************************************)
(* report.                                                                 *)
(***************************************************************************)
Fresh(h, r) ==
  /\ r \in Record /\ r \notin Held(h) \cup h.pg.cache
  /\ \A q \in h.requests : r \notin q.list

\* The fields that buffering or caching the record r leaves alone.
SameBesides(h, f, r) ==
  /\ f.pg.sending = h.pg.sending /\ f.pg.pending = h.pg.pending
  /\ f.pg.sendTimer = h.pg.sendTimer /\ f.pg.failStreak = h.pg.failStreak
  /\ f.pg.stopped = h.pg.stopped /\ f.pg.worker = h.pg.worker
  /\ f.failed = h.failed /\ f.requests = h.requests /\ f.p = h.p
  /\ f.pg.open = h.pg.open /\ f.pg.visible = h.pg.visible
  /\ f.pg.hiddenReported = h.pg.hiddenReported
  /\ f.pg.episode = h.pg.episode /\ f.pg.mine = h.pg.mine \cup {r}
  /\ f.handed = h.handed /\ f.queue = h.queue /\ f.unsaved = h.unsaved

LEMMA BesidesFacts ==
  ASSUME NEW h, NEW f, NEW r, SameBesides(h, f, r), Good(h)
  PROVE  /\ Stopping(f) /\ Working(f) /\ IsFiniteSet(f.requests)
         /\ Stays(h, f) /\ Locks(h, f) /\ \A m, c : Asks(h, f, m, c, {})
<1>1. Stopping(f) /\ Working(f) /\ IsFiniteSet(f.requests)
  BY DEF SameBesides, Good, Stopping, Working
<1>2. Stays(h, f) /\ Locks(h, f)
  BY LocksNothing DEF SameBesides, Stays
<1>3. ASSUME NEW m, NEW c PROVE Asks(h, f, m, c, {})
  <2>1. Asks(h, f, {}, {}, {})
    BY AsksNothing DEF SameBesides
  <2>2. \A q : SameSend(q, q)
    BY DEF SameSend
  <2> QED BY <2>1, <2>2 DEF Asks, SameBesides
<1> QED BY <1>1, <1>2, <1>3

LEMMA PushFacts ==
  ASSUME NEW h, Good(h), NEW r, Fresh(h, r)
  PROVE  LET f == PushCache([h EXCEPT !.pg.mine = @ \cup {r}], r)
         IN  /\ Good(f) /\ SameBesides(h, f, r) /\ Locks(h, f)
             /\ Went(h, f, {}, {r}, {}, {}) /\ (Timed(h) => Timed(f))
<1> DEFINE new  == [h EXCEPT !.pg.mine = @ \cup {r}]
           all  == h.pg.cache \cup {r}
           kept == Newest(all, MaxCache)
           f    == PushCache(new, r)
<1>0. h \in HState /\ r \in Record /\ h.pg.cache \in SUBSET Record
  BY DEF Good, HState, PageState, Fresh
<1>1. all \in SUBSET Record /\ kept \in SUBSET all /\ Cardinality(kept) <= MaxCache
  <2>1. all \in SUBSET Record
    BY <1>0
  <2> QED BY <2>1, NewestDrops, NewestCount, QueueAssumption
<1>2. f = [new EXCEPT !.pg.cache = kept, !.cut = @ \cup (all \ kept)]
  BY <1>0 DEF PushCache, HState, PageState
<1> HIDE DEF all, kept, f
<1>3. f \in HState
  BY <1>0, <1>1, <1>2 DEF HState, PageState
<1>4. SameBesides(h, f, r)
  BY <1>0, <1>2 DEF HState, PageState, SameBesides
<1>5. /\ f.pg.cache = kept /\ f.cut = h.cut \cup (all \ kept) /\ f.pg.memory = h.pg.memory
      /\ f.pg.flushSet = h.pg.flushSet /\ f.pg.flushDue = h.pg.flushDue
  BY <1>0, <1>2 DEF HState, PageState
<1>6. Limited(f) /\ Unsent(f)
  BY <1>1, <1>4, <1>5 DEF Good, Limited, Unsent, SameBesides
<1>7. Good(f) /\ Locks(h, f) /\ Stays(h, f) /\ Asks(h, f, {}, {r}, {})
  BY <1>3, <1>4, <1>6, BesidesFacts DEF Good
<1>8. Drops(h, f, {}, {r}, {}) /\ Yields(h, f, {r}, {})
  BY <1>1, <1>4, <1>5 DEF Drops, Yields, Held, SameBesides, all
<1>9. Timed(h) => Timed(f)
  BY <1>4, <1>5 DEF Timed, SameBesides
<1>10. f.pg.mine = h.pg.mine \cup {} \cup {r}
  BY <1>4 DEF SameBesides
<1> QED BY <1>4, <1>7, <1>8, <1>9, <1>10 DEF Went, f

LEMMA TrimFacts ==
  ASSUME NEW h, Good(h), NEW r, Fresh(h, r)
  PROVE  LET all  == h.pg.memory \cup {r}
             kept == TrimOldest(all, MaxPersist)
             f    == [[h EXCEPT !.pg.mine = @ \cup {r}]
                         EXCEPT !.pg.memory = kept, !.cut = @ \cup (all \ kept)]
         IN  /\ Good(f) /\ SameBesides(h, f, r) /\ Went(h, f, {r}, {}, {}, {})
             /\ f.pg.memory # {} /\ f.pg.flushSet = h.pg.flushSet
             /\ f.pg.flushDue = h.pg.flushDue
<1> DEFINE all  == h.pg.memory \cup {r}
           kept == TrimOldest(all, MaxPersist)
           new  == [h EXCEPT !.pg.mine = @ \cup {r}]
           f    == [new EXCEPT !.pg.memory = kept, !.cut = @ \cup (all \ kept)]
<1>0. h \in HState /\ r \in Record /\ h.pg.memory \in SUBSET Record
  BY DEF Good, HState, PageState, Fresh
<1>1. all \in SUBSET Record /\ all # {} /\ kept \in SUBSET all /\ kept # {} /\ WithinCount(kept)
  <2>1. all \in SUBSET Record /\ all # {}
    BY <1>0
  <2>2. MaxPersist \in Nat /\ MaxPersist \in Nat \ {0}
    BY QueueAssumption
  <2> QED BY <2>1, <2>2, TrimDrops, TrimCount, TrimSome DEF WithinCount
<1> HIDE DEF kept
<1>3. f \in HState
  BY <1>0, <1>1 DEF HState, PageState
<1>4. SameBesides(h, f, r)
  BY <1>0 DEF HState, PageState, SameBesides
<1>5. /\ f.pg.memory = kept /\ f.cut = h.cut \cup (all \ kept) /\ f.pg.cache = h.pg.cache
      /\ f.pg.flushSet = h.pg.flushSet /\ f.pg.flushDue = h.pg.flushDue
  BY <1>0 DEF HState, PageState
<1> HIDE DEF f
<1>6. Limited(f)
  BY <1>1, <1>4, <1>5 DEF Good, Limited, SameBesides
<1>7. Unsent(f)
  BY <1>1, <1>4, <1>5 DEF Good, Unsent, SameBesides, Fresh, Held
<1>8. Good(f) /\ Stays(h, f) /\ Asks(h, f, {r}, {}, {})
  BY <1>3, <1>4, <1>6, <1>7, BesidesFacts DEF Good
<1>9. Drops(h, f, {r}, {}, {})
  BY <1>1, <1>4, <1>5 DEF Drops, Held, SameBesides, Good, Unsent, Fresh
<1>10. Yields(h, f, {}, {})
  BY <1>4, <1>5 DEF Yields, SameBesides
<1>11. f.pg.mine = h.pg.mine \cup {r} \cup {}
  BY <1>4 DEF SameBesides
<1> QED BY <1>1, <1>4, <1>5, <1>8, <1>9, <1>10, <1>11 DEF Went, f, kept

LEMMA WriteFacts ==
  ASSUME NEW h, Good(h), NEW r, Fresh(h, r), NEW flush \in BOOLEAN, flush => Lifecycle,
         NEW f \in WriteMemory([h EXCEPT !.pg.mine = @ \cup {r}], r, flush)
  PROVE  /\ Good(f) /\ Locks(h, f) /\ f.pg.stopped = h.pg.stopped
         /\ f.pg.pending = h.pg.pending
         /\ Went(h, f, {r}, {}, {}, {}) /\ (Timed(h) => Timed(f))
<1> DEFINE all  == h.pg.memory \cup {r}
           kept == TrimOldest(all, MaxPersist)
           h1   == [[h EXCEPT !.pg.mine = @ \cup {r}]
                       EXCEPT !.pg.memory = kept, !.cut = @ \cup (all \ kept)]
<1>0. h \in HState
  BY DEF Good
<1>1. PICK g \in IF flush THEN FlushMemoryToStorage(h1) ELSE {h1} :
             f = [g EXCEPT !.pg.flushDue = @ \/ ~g.pg.flushSet, !.pg.flushSet = TRUE]
  BY <1>0 DEF WriteMemory, HState, PageState
<1>2. /\ Good(h1) /\ SameBesides(h, h1, r) /\ Went(h, h1, {r}, {}, {}, {})
      /\ h1.pg.memory # {} /\ h1.pg.flushSet = h.pg.flushSet
      /\ h1.pg.flushDue = h.pg.flushDue
  BY TrimFacts
<1> HIDE DEF h1
<1>3. Good(g) /\ Runs(h1, g, {}) /\ SameControl(h1, g)
  <2>1. CASE flush
    BY <1>1, <1>2, <2>1, FlushFacts
  <2>2. CASE ~flush
    <3>1. g = h1
      BY <1>1, <2>2
    <3>2. SameControl(h1, h1)
      BY DEF SameControl
    <3> QED BY <1>2, <3>1, <3>2, RunsNothing
  <2> QED BY <2>1, <2>2
<1>4. g \in HState
  BY <1>3 DEF Good
<1> DEFINE due == g.pg.flushDue \/ ~g.pg.flushSet
<1>5. f = [g EXCEPT !.pg.flushDue = due, !.pg.flushSet = TRUE] /\ due \in BOOLEAN
  BY <1>1, <1>4 DEF HState, PageState
<1> HIDE DEF due
<1>6. f \in HState
  BY <1>4, <1>5 DEF HState, PageState
<1>7. SameControl(g, f)
  BY <1>4, <1>5 DEF HState, PageState, SameControl
<1>8. /\ f.pg.memory = g.pg.memory /\ f.queue = g.queue /\ f.cut = g.cut
      /\ f.pg.cache = g.pg.cache /\ f.handed = g.handed /\ f.unsaved = g.unsaved
      /\ f.pg.flushSet = TRUE /\ f.pg.flushDue = due
  BY <1>4, <1>5 DEF HState, PageState
<1>9. Good(f)
  <2>1. Limited(f) /\ Unsent(f)
    BY <1>3, <1>7, <1>8 DEF Good, Limited, Unsent, SameControl
  <2> QED BY <1>3, <1>6, <1>7, <2>1, ControlFacts DEF Good
<1>10. Runs(g, f, {})
  <2>1. SamePage(g, f) /\ Asks(g, f, {}, {}, {})
    BY <1>3, <1>7, ControlFacts
  <2>2. Loses(g, f) /\ Hands(g, f)
    BY <1>8 DEF Loses, Hands, Held
  <2> QED BY <2>1, <2>2 DEF Runs
<1>11. Went(h, f, {r}, {}, {}, {})
  <2>1. Went(h, g, {r}, {}, {} \cup {}, {})
    BY <1>2, <1>3, WentRuns
  <2>2. Went(h, f, {r}, {}, ({} \cup {}) \cup {}, {})
    BY <1>3, <1>9, <1>10, <2>1, WentRuns
  <2> QED BY <2>2
<1>12. Timed(h) => Timed(f)
  <2>1. CASE Lifecycle
    BY <2>1 DEF Timed
  <2>2. CASE ~Lifecycle
    <3>1. g = h1
      BY <1>1, <2>2
    <3> QED BY <1>2, <1>8, <3>1 DEF Timed, due
  <2> QED BY <2>1, <2>2
<1>13. Locks(h, f) /\ f.pg.stopped = h.pg.stopped /\ f.pg.pending = h.pg.pending
  BY <1>2, <1>3, <1>7, LocksNothing DEF SameBesides, SameControl
<1> QED BY <1>9, <1>11, <1>12, <1>13

Options == [store : BOOLEAN, flush : BOOLEAN, immediate : BOOLEAN, keepalive : BOOLEAN]

LEMMA AcceptFacts ==
  ASSUME NEW h, Good(h), Lock(h), ~h.pg.stopped, NEW r, Fresh(h, r),
         NEW o \in Options, o.flush => Lifecycle, NEW K, o.keepalive => r \in K,
         NEW f \in Accept(h, r, o)
  PROVE  /\ Good(f) /\ Lock(f) /\ (Timed(h) => Timed(f))
         /\ Went(h, f, IF o.store THEN {r} ELSE {}, IF o.store THEN {} ELSE {r}, K, {})
         /\ ~o.immediate => ~f.pg.stopped
<1> DEFINE new  == [h EXCEPT !.pg.mine = @ \cup {r}]
           kept == IF o.store THEN WriteMemory(new, r, o.flush) ELSE {PushCache(new, r)}
           m    == IF o.store THEN {r} ELSE {}
           c    == IF o.store THEN {} ELSE {r}
           seen == {[k EXCEPT !.pg.pending = @ \/ k.pg.sending] : k \in kept}
<1>0. o.store \in BOOLEAN /\ o.flush \in BOOLEAN /\ o.keepalive \in BOOLEAN /\ r \in Nat
  BY RecordsAreNat DEF Options, Fresh
<1> DEFINE sent(s) == IF o.immediate THEN SendRequest(s, o.keepalive, r) ELSE {s}
<1>1. PICK s \in seen : \E g \in sent(s) : f = ScheduleSend(g)
  <2> HIDE DEF seen
  <2>1. f \in {ScheduleSend(x) :
                 x \in IF o.immediate
                       THEN UNION {SendRequest(s, o.keepalive, r) : s \in seen}
                       ELSE seen}
    BY DEF Accept, seen
  <2> QED BY <2>1
<1>1a. PICK g \in sent(s) : f = ScheduleSend(g)
  BY <1>1
<1>2. PICK k \in kept : s = [k EXCEPT !.pg.pending = @ \/ k.pg.sending]
  <2> HIDE DEF kept
  <2> QED OBVIOUS
<1>3. /\ Good(k) /\ Locks(h, k) /\ (Timed(h) => Timed(k))
      /\ Went(h, k, m, c, {}, {}) /\ ~k.pg.stopped
  <2>1. CASE o.store
    <3>1. k \in WriteMemory(new, r, o.flush)
      BY <1>2, <2>1
    <3>2. /\ Good(k) /\ Locks(h, k) /\ (Timed(h) => Timed(k))
          /\ Went(h, k, {r}, {}, {}, {}) /\ ~k.pg.stopped
      BY <1>0, <3>1, WriteFacts
    <3> QED BY <2>1, <3>2
  <2>2. CASE ~o.store
    <3> DEFINE x == PushCache(new, r)
    <3>1. k = x
      BY <1>2, <2>2
    <3> HIDE DEF kept
    <3>3. /\ Good(x) /\ SameBesides(h, x, r) /\ Locks(h, x)
          /\ Went(h, x, {}, {r}, {}, {}) /\ (Timed(h) => Timed(x))
      BY PushFacts
    <3> HIDE DEF x
    <3>2. /\ Good(k) /\ Locks(h, k) /\ (Timed(h) => Timed(k))
          /\ Went(h, k, {}, {r}, {}, {}) /\ ~k.pg.stopped
      BY <3>1, <3>3 DEF SameBesides
    <3> QED BY <2>2, <3>2
  <2> QED BY <2>1, <2>2
<1> HIDE DEF kept, seen, new, m, c
<1>4. k \in HState
  BY <1>3 DEF Good
<1> DEFINE pend == k.pg.pending \/ k.pg.sending
<1>5. s = [k EXCEPT !.pg.pending = pend] /\ pend \in BOOLEAN
  BY <1>2, <1>4 DEF HState, PageState
<1> HIDE DEF pend
<1>6. s \in HState
  BY <1>4, <1>5 DEF HState, PageState
<1>7. SameStore(k, s)
  BY <1>4, <1>5 DEF HState, PageState, SameStore
<1>8. /\ s.pg.sending = k.pg.sending /\ s.pg.stopped = k.pg.stopped
      /\ s.pg.failStreak = k.pg.failStreak /\ s.pg.worker = k.pg.worker
  BY <1>4, <1>5 DEF HState, PageState
<1>9. Stopping(s)
  BY <1>3, <1>8 DEF Good, Stopping
<1>10. Good(s) /\ Runs(k, s, {}) /\ (Timed(k) => Timed(s)) /\ Locks(k, s)
  BY <1>3, <1>6, <1>7, <1>8, <1>9, StoreFacts
<1>11. Lock(s) /\ ~s.pg.stopped
  BY <1>3, <1>7, <1>8, <1>10 DEF Lock, Locks
<1>12. /\ Good(g) /\ Lock(g) /\ Runs(s, g, K) /\ (Timed(s) => Timed(g))
       /\ ~o.immediate => ~g.pg.stopped
  <2>1. CASE o.immediate
    BY <1>0, <1>1a, <1>10, <1>11, <2>1, SendFacts
  <2>2. CASE ~o.immediate
    <3>1. g = s
      BY <1>1a, <2>2
    <3> QED BY <1>10, <1>11, <3>1, RunsNothing
  <2> QED BY <2>1, <2>2
<1>13. /\ Good(f) /\ Runs(g, f, {}) /\ Locks(g, f) /\ (Timed(g) => Timed(f))
       /\ SameStore(g, f) /\ f.pg.stopped = g.pg.stopped
  BY <1>1a, <1>12, ScheduleFacts
<1>14. Lock(f)
  BY <1>12, <1>13 DEF Lock, Locks
<1>15. Went(h, f, m, c, K, {})
  <2>1. Went(h, s, m, c, {} \cup {}, {})
    BY <1>3, <1>10, WentRuns
  <2>2. Went(h, g, m, c, ({} \cup {}) \cup K, {})
    BY <1>10, <1>12, <2>1, WentRuns
  <2>3. Went(h, f, m, c, (({} \cup {}) \cup K) \cup {}, {})
    BY <1>12, <1>13, <2>2, WentRuns
  <2> QED BY <2>3
<1> QED BY <1>3, <1>10, <1>12, <1>13, <1>14, <1>15 DEF m, c

-----------------------------------------------------------------------------
(***************************************************************************)
(* A request settles.  h is the state without the request q.               *)
(***************************************************************************)

\* What is buffered, queued and cached is not mixed up with what q carried.
Apart(h, q) ==
  /\ q.list \cap (h.pg.memory \cup h.pg.cache) = {}
  /\ q.body \cap Held(h) = {}

\* No send begins with a record that was just confirmed.
Avoids(h, f, A) ==
  \A x \in f.requests : \/ \E o \in h.requests : SameSend(o, x)
                        \/ WorkerFails
                        \/ (x.list \cup x.body) \cap A \subseteq f.unsaved

Clean(f, A) ==
  /\ Held(f) \cap A \subseteq f.unsaved
  /\ WorkerFails \/ f.pg.cache \cap A = {}

LEMMA RemoveWent ==
  ASSUME NEW h, Good(h), NEW S \in SUBSET Record, NEW f \in RemoveSentRecords(h, S),
         NEW A, S \subseteq A
  PROVE  Went(h, f, {}, {}, {}, A)
<1>1. /\ Good(f) /\ SameControl(h, f) /\ Hands(h, f)
      /\ f.pg.cache = h.pg.cache /\ f.cut = h.cut
      /\ f.pg.memory = h.pg.memory /\ f.queue \subseteq h.queue
      /\ h.queue \ f.queue \subseteq S /\ h.unsaved \subseteq f.unsaved
  BY RemoveFacts
<1>2. SamePage(h, f) /\ Asks(h, f, {}, {}, {})
  BY <1>1, ControlFacts
<1>3. Drops(h, f, {}, {}, A)
  BY <1>1 DEF Drops, Held
<1>4. Yields(h, f, {}, A)
  BY <1>1 DEF Yields, Hands
<1>5. Stays(h, f) /\ f.pg.mine = h.pg.mine \cup {} \cup {}
  BY <1>2 DEF SamePage, Stays
<1> QED BY <1>2, <1>3, <1>4, <1>5 DEF Went

LEMMA DropWent ==
  ASSUME NEW h, Good(h), NEW S \in SUBSET Record, NEW A, WorkerFails \/ S \subseteq A
  PROVE  Went(h, DropRefs(h, S), {}, {}, {}, A)
<1> DEFINE f == DropRefs(h, S)
<1>1. /\ Good(f) /\ SameRest(h, f) /\ Asks(h, f, {}, {}, {})
      /\ f.pg.cache = h.pg.cache \ S /\ f.handed = h.handed
  BY DropFacts
<1> HIDE DEF f
<1>2. SamePage(h, f) /\ Loses(h, f)
  BY <1>1, RestFacts
<1>3. Drops(h, f, {}, {}, A)
  BY <1>2 DEF Loses, Drops
<1>4. Yields(h, f, {}, A)
  BY <1>1 DEF Yields
<1>5. Stays(h, f) /\ f.pg.mine = h.pg.mine \cup {} \cup {}
  BY <1>2 DEF SamePage, Stays
<1> QED BY <1>1, <1>3, <1>4, <1>5 DEF Went, f

LEMMA NormalFacts ==
  ASSUME NEW h, Good(h), Taken(h), NEW q \in Request, ~q.keepalive, Apart(h, q),
         WorkerFails \/ Whole(q), NEW ok \in BOOLEAN, h.failed = ~ok,
         NEW a \in IF q.worker THEN PostWorkerCache(h, HeldCache(h, q)) ELSE {h},
         NEW b \in IF ok THEN RemoveSentRecords(a, q.list) ELSE {a},
         NEW d, d = IF ok /\ ~q.worker THEN DropRefs(b, HeldCache(b, q)) ELSE b,
         NEW f \in FollowUp(Settle(d), d.pg.pending),
         NEW A, A = IF ok THEN q.list \cup q.body ELSE {}
  PROVE  /\ Good(f) /\ Lock(f) /\ (Timed(h) => Timed(f))
         /\ Went(h, f, {}, {}, {}, A) /\ Clean(f, A) /\ Avoids(h, f, A)
<1>0. /\ h \in HState /\ q.list \in SUBSET Record /\ q.array \in SUBSET Record
      /\ h.pg.cache \in SUBSET Record
  BY DEF Good, HState, PageState, Request
<1>1. /\ Good(a) /\ Runs(h, a, {}) /\ Locks(h, a) /\ Keeps(h, a)
      /\ (Timed(h) => Timed(a)) /\ a.pg.memory = h.pg.memory /\ a.pg.cache \subseteq h.pg.cache
  <2>1. CASE q.worker
    <3>1. HeldCache(h, q) \in SUBSET Record
      BY <1>0 DEF HeldCache
    <3>2. /\ Good(a) /\ Runs(h, a, {}) /\ Locks(h, a) /\ Keeps(h, a)
          /\ SameRest(h, a) /\ a.pg.cache \subseteq h.pg.cache
      BY <2>1, <3>1, PostFacts
    <3> QED BY <3>2, RestFacts DEF SameRest
  <2>2. CASE ~q.worker
    <3>1. a = h
      BY <2>2
    <3> QED BY <3>1, RunsNothing, LocksNothing, KeepsNothing
  <2> QED BY <2>1, <2>2
<1>2. Went(h, a, {}, {}, {}, {})
  BY <1>1, RunsWent
<1>3. /\ Good(b) /\ Went(a, b, {}, {}, {}, A) /\ Locks(a, b) /\ Keeps(a, b)
      /\ (Timed(a) => Timed(b)) /\ b.pg.cache = a.pg.cache /\ b.pg.memory = a.pg.memory
      /\ ok => b.queue \cap q.list \subseteq b.unsaved
  <2>1. CASE ok
    <3>1. b \in RemoveSentRecords(a, q.list) /\ q.list \subseteq A
      BY <2>1
    <3>2. /\ Good(b) /\ SameControl(a, b) /\ (Timed(a) => Timed(b))
          /\ b.pg.cache = a.pg.cache /\ b.pg.memory = a.pg.memory
          /\ b.queue \cap q.list \subseteq b.unsaved
      BY <1>0, <1>1, <3>1, RemoveFacts
    <3>3. Locks(a, b) /\ Keeps(a, b)
      BY <3>2, LocksNothing, KeepsNothing DEF SameControl
    <3>4. Went(a, b, {}, {}, {}, A)
      BY <1>0, <1>1, <3>1, RemoveWent
    <3> QED BY <3>2, <3>3, <3>4
  <2>2. CASE ~ok
    <3>1. b = a /\ A = {}
      BY <2>2
    <3>2. Went(a, a, {}, {}, {}, {})
      BY <1>1, RunsNothing, RunsWent
    <3> QED BY <1>1, <2>2, <3>1, <3>2, LocksNothing, KeepsNothing
  <2> QED BY <2>1, <2>2
<1>4. /\ Good(d) /\ Went(b, d, {}, {}, {}, A) /\ Locks(b, d) /\ Keeps(b, d)
      /\ (Timed(b) => Timed(d)) /\ d.pg.cache \subseteq b.pg.cache
      /\ d.pg.memory = b.pg.memory /\ d.queue = b.queue /\ d.unsaved = b.unsaved
  <2>1. CASE ok /\ ~q.worker
    <3>1. HeldCache(b, q) \in SUBSET Record
      BY <1>0, <1>1, <1>3 DEF HeldCache
    <3>2. /\ Good(d) /\ SameRest(b, d) /\ Locks(b, d) /\ Keeps(b, d)
          /\ d.pg.cache \subseteq b.pg.cache
      BY <1>3, <2>1, <3>1, DropFacts
    <3>3. Went(b, d, {}, {}, {}, A)
      BY <1>3, <2>1, <3>1, DropWent DEF Whole
    <3> QED BY <1>3, <3>2, <3>3, RestFacts DEF SameRest
  <2>2. CASE ~(ok /\ ~q.worker)
    <3>1. d = b
      BY <2>2
    <3>2. Went(b, b, {}, {}, {}, A)
      <4>1. Went(b, b, {}, {}, {}, {})
        BY <1>3, RunsNothing, RunsWent
      <4> QED BY <4>1 DEF Went, Drops, Yields
    <3> QED BY <1>3, <3>1, <3>2, LocksNothing, KeepsNothing
  <2> QED BY <2>1, <2>2
<1> DEFINE e == Settle(d)
<1>5. /\ Good(e) /\ Runs(d, e, {}) /\ (Timed(d) => Timed(e))
      /\ ~e.pg.sending /\ e.requests = d.requests /\ e.p = d.p /\ SameStore(d, e)
  BY <1>4, SettleFacts
<1> HIDE DEF e
<1>6. Lock(e)
  BY <1>1, <1>3, <1>4, <1>5 DEF Taken, Lock, Locks, Uniq, Owned, Runs, SamePage, Went, Stays
<1>7. Good(f) /\ Lock(f) /\ Runs(e, f, {}) /\ (Timed(e) => Timed(f))
  BY <1>5, <1>6, FollowUpFacts DEF e
<1>8. Went(h, f, {}, {}, {}, A)
  <2>1. Went(h, b, {} \cup {}, {} \cup {}, {} \cup {}, {} \cup A)
    BY <1>1, <1>2, <1>3, WentTrans
  <2>2. Went(h, b, {}, {}, {}, A)
    BY <2>1
  <2>3. Went(h, d, {} \cup {}, {} \cup {}, {} \cup {}, A \cup A)
    BY <1>3, <1>4, <2>2, WentTrans
  <2>4. Went(h, d, {}, {}, {}, A)
    BY <2>3
  <2>5. Went(h, e, {}, {}, {} \cup {}, A)
    BY <1>4, <1>5, <2>4, WentRuns
  <2>6. Went(h, f, {}, {}, ({} \cup {}) \cup {}, A)
    BY <1>5, <1>7, <2>5, WentRuns
  <2> QED BY <2>6
<1>9. Held(e) \cap A \subseteq e.unsaved /\ e.unsaved \subseteq f.unsaved
      /\ e.pg.cache \subseteq h.pg.cache /\ Held(f) \subseteq Held(e)
      /\ f.pg.cache \subseteq e.pg.cache
  <2>1. e.pg.cache \subseteq h.pg.cache
    BY <1>1, <1>3, <1>4, <1>5 DEF SameStore
  <2>2. e.unsaved \subseteq f.unsaved /\ Held(f) \subseteq Held(e) /\ f.pg.cache \subseteq e.pg.cache
    BY <1>7 DEF Runs, Loses, Hands
  <2>3. Held(d) \subseteq Held(h)
    <3>1. Held(a) \subseteq Held(h) /\ Held(b) \subseteq Held(a) /\ Held(d) \subseteq Held(b)
      BY <1>2, <1>3, <1>4 DEF Went, Drops
    <3> QED BY <3>1
  <2>4. Held(d) \cap A \subseteq d.unsaved
    BY <1>1, <1>3, <1>4, <2>3 DEF Apart, Held
  <2> QED BY <1>5, <2>1, <2>2, <2>4 DEF SameStore, Held
<1>10. Clean(f, A)
  BY <1>9 DEF Clean, Apart, Whole
<1>11. Avoids(h, f, A)
  <2>1. Keeps(h, e)
    <3>1. Keeps(h, b)
      BY <1>1, <1>3, KeepsTrans
    <3>2. Keeps(h, d)
      BY <1>4, <3>1, KeepsTrans
    <3> QED BY <1>5, <3>2 DEF Keeps
  <2> SUFFICES ASSUME NEW x \in f.requests, ~WorkerFails
               PROVE  \/ \E o \in h.requests : SameSend(o, x)
                      \/ (x.list \cup x.body) \cap A \subseteq f.unsaved
    BY DEF Avoids
  <2>2. CASE NewSend(e, x, {}, {}, {})
    <3>1. ~x.keepalive /\ x.list \subseteq Held(e)
      BY <2>2 DEF NewSend
    <3>2. x.body = {}
      BY <1>7, <3>1 DEF Good, Working, Whole
    <3> QED BY <1>9, <3>1, <3>2
  <2>3. CASE \E o \in e.requests : SameSend(o, x)
    BY <2>1, <2>3, SameSendTrans DEF Keeps
  <2> QED BY <1>7, <2>2, <2>3 DEF Runs, Asks
<1> QED BY <1>1, <1>3, <1>4, <1>5, <1>7, <1>8, <1>10, <1>11

LEMMA KeepaliveFacts ==
  ASSUME NEW h, Good(h), Uniq(h), NEW q \in Request, q.keepalive, Apart(h, q),
         h.pg.sending <=> q.owner \/ Owned(h), q.owner => ~Owned(h),
         WorkerFails \/ Whole(q), NEW done \in SUBSET (q.list \cup q.body),
         NEW sent,
         sent = {r \in HeldCache(h, q) : \E d \in done \cap q.body :
                                Rank(HeldCache(h, q), r) = Rank(q.body, d)},
         NEW b \in RemoveSentRecords(h, done \cap q.list),
         NEW d, d = DropRefs(b, sent)
  PROVE  LET f == [d EXCEPT !.pg.sending = @ /\ ~q.owner]
         IN  /\ Good(f) /\ Lock(f) /\ (Timed(h) => Timed(f))
             /\ Went(h, f, {}, {}, {}, done) /\ Clean(f, done) /\ Avoids(h, f, done)
<1> DEFINE f == [d EXCEPT !.pg.sending = @ /\ ~q.owner]
<1>0. /\ h \in HState /\ q.list \in SUBSET Record /\ q.array \in SUBSET Record
      /\ h.pg.cache \in SUBSET Record /\ done \cap q.list \in SUBSET Record
      /\ q.owner \in BOOLEAN
  BY DEF Good, HState, PageState, Request
<1>1. sent \in SUBSET Record
  BY <1>0 DEF HeldCache
<1>2. WorkerFails \/ sent = done \cap q.body
  <2> SUFFICES ASSUME ~WorkerFails PROVE sent = done \cap q.body
    OBVIOUS
  <2>1. HeldCache(h, q) = q.array /\ PrefixOf(q.body, q.array)
    BY DEF HeldCache, Whole
  <2>2. \A x \in done \cap q.body, r \in q.array : Rank(q.array, r) = Rank(q.body, x) <=> r = x
    BY <1>0, <2>1, RankIsExact
  <2>3. q.body \subseteq q.array
    BY <2>1 DEF PrefixOf
  <2> QED BY <2>1, <2>2, <2>3
<1>3. /\ Good(b) /\ SameControl(h, b) /\ b.pg.cache = h.pg.cache
      /\ b.pg.memory = h.pg.memory /\ b.queue \subseteq h.queue
      /\ b.queue \cap (done \cap q.list) \subseteq b.unsaved /\ (Timed(h) => Timed(b))
  BY <1>0, RemoveFacts
<1>4. Went(h, b, {}, {}, {}, done)
  BY <1>0, RemoveWent
<1>5. /\ Good(d) /\ SameRest(b, d) /\ Locks(b, d) /\ Keeps(b, d)
      /\ d.pg.cache = b.pg.cache \ sent /\ d.pg.worker = b.pg.worker
  BY <1>1, <1>3, DropFacts
<1>6. Went(b, d, {}, {}, {}, done)
  BY <1>1, <1>2, <1>3, DropWent
<1>7. d \in HState
  BY <1>5 DEF Good
<1> DEFINE lock == d.pg.sending /\ ~q.owner
<1>8. f = [d EXCEPT !.pg.sending = lock] /\ lock \in BOOLEAN
  BY <1>0, <1>7 DEF HState, PageState
<1> HIDE DEF lock, f
<1>9. f \in HState
  BY <1>7, <1>8 DEF HState, PageState
<1>10. SameStore(d, f)
  BY <1>7, <1>8 DEF HState, PageState, SameStore
<1>11. /\ f.pg.sending = lock /\ f.pg.stopped = d.pg.stopped
       /\ f.pg.pending = d.pg.pending /\ f.pg.sendTimer = d.pg.sendTimer
       /\ f.pg.failStreak = d.pg.failStreak /\ f.pg.worker = d.pg.worker
  BY <1>7, <1>8 DEF HState, PageState
<1>12. Stopping(f)
  BY <1>5, <1>11 DEF Good, Stopping
<1>13. Good(f) /\ Runs(d, f, {}) /\ (Timed(d) => Timed(f))
  BY <1>5, <1>9, <1>10, <1>11, <1>12, StoreFacts
<1>14. Lock(f)
  <2>1. Locks(h, b)
    BY <1>3, LocksNothing DEF SameControl
  <2>2. Locks(h, d) /\ d.p = h.p
    BY <1>3, <1>5, <2>1, LocksTrans DEF SameControl, SameRest
  <2>3. Uniq(f) /\ (Owned(f) <=> Owned(h)) /\ f.p = h.p
    BY <1>10, <2>2 DEF Locks, Uniq, Owned, SameStore
  <2>4. lock <=> h.pg.sending /\ ~q.owner
    BY <2>2 DEF Locks, lock
  <2> QED BY <1>11, <2>3, <2>4 DEF Lock
<1>15. Went(h, f, {}, {}, {}, done)
  <2>1. Went(h, d, {} \cup {}, {} \cup {}, {} \cup {}, done \cup done)
    BY <1>3, <1>4, <1>5, <1>6, WentTrans
  <2>2. Went(h, d, {}, {}, {}, done)
    BY <2>1
  <2>3. Went(h, f, {}, {}, {} \cup {}, done)
    BY <1>5, <1>13, <2>2, WentRuns
  <2> QED BY <2>3
<1>16. Clean(f, done)
  <2>1. f.queue = b.queue /\ f.pg.memory = h.pg.memory /\ f.unsaved = b.unsaved
        /\ f.pg.cache = h.pg.cache \ sent
    BY <1>3, <1>5, <1>10 DEF SameRest, SameStore
  <2>2. Held(f) \cap done \subseteq f.unsaved
    BY <1>3, <2>1 DEF Held, Apart
  <2>3. WorkerFails \/ f.pg.cache \cap done = {}
    BY <1>2, <2>1 DEF Apart
  <2> QED BY <2>2, <2>3 DEF Clean
<1>17. Avoids(h, f, done)
  <2>1. Keeps(h, d)
    BY <1>3, <1>5, KeepsNothing, KeepsTrans DEF SameControl
  <2> QED BY <1>10, <2>1 DEF Keeps, Avoids, SameStore
<1>18. Timed(h) => Timed(f)
  BY <1>3, <1>5, <1>13, RestFacts
<1> QED BY <1>13, <1>14, <1>15, <1>16, <1>17, <1>18 DEF f

-----------------------------------------------------------------------------
(***************************************************************************)
(* The inductive invariant.                                                *)
(***************************************************************************)
Pages == \A p \in Page :
           page[p].open => Good(Enter(p)) /\ Lock(Enter(p)) /\ Timed(Enter(p))

\* What holds of the stored queue and the requests also when no page is open.
Shared == IsFiniteSet(requests) /\ WithinCount(queue) /\ WithinBytes(queue)

Shut ==
  /\ \A p \in Page : ~page[p].open => page[p] = Closed
  /\ \A q \in requests : page[q.page].open

\* No record is in the memory of two pages.
Alone ==
  \A p, x \in Page : p # x => /\ page[p].memory \cap page[x].memory = {}
                              /\ page[p].cache \cap page[x].cache = {}

\* What a request carries was accepted, and is in no other page's cache.
Carried ==
  \A q \in requests :
    /\ q.keepalive \/ q.owner
    /\ q.list \subseteq stored /\ q.body \subseteq cached
    /\ \A x \in Page : x # q.page => q.body \cap page[x].cache = {}

\* The departure a keepalive send is for has been reported.
Departures ==
  /\ \A q \in requests :
       q.keepalive => /\ q.episode <= page[q.page].episode
                      /\ q.episode = page[q.page].episode => Silent(q.page)
  /\ OneKeepalivePerHide

Numbered ==
  /\ stored \cup cached \subseteq 1 .. last /\ stored \cap cached = {}
  /\ acked \cup cut \cup gone \subseteq stored \cup cached
  /\ InMemory \cup queue \subseteq stored /\ InCache \subseteq cached

Accounted ==
  /\ stored \subseteq InMemory \cup queue \cup acked \cup cut \cup gone
  /\ WorkerFails \/ NoCacheLoss

\* What was delivered and is still held could not be taken off the queue, or
\* arrived when its page was gone.
Marked ==
  /\ (InMemory \cup queue) \cap acked \subseteq unsaved \cup outlived
  /\ WorkerFails \/ InCache \cap acked = {}

\* What may still arrive without its page is in no page's cache.
Adrift == late \subseteq stored \cup cached /\ late \cap InCache = {}

IInv == /\ TypeOK /\ Pages /\ Shared /\ Shut /\ Alone /\ Carried /\ Departures
        /\ Numbered /\ Accounted /\ Marked /\ Adrift

-----------------------------------------------------------------------------
(***************************************************************************)
(* A handler of page p that begins in h and ends in f.                     *)
(***************************************************************************)
Begins(p, h) ==
  /\ h.p = p /\ h.queue = queue /\ h.handed = handed /\ h.cut = cut
  /\ h.unsaved = unsaved /\ h.pg.memory = page[p].memory
  /\ h.pg.cache = page[p].cache /\ h.pg.open = page[p].open
  /\ h.pg.episode = page[p].episode /\ h.pg.mine = page[p].mine
  /\ h.pg.stopped = page[p].stopped
  /\ page[p].hiddenReported => h.pg.hiddenReported
  /\ h.requests \subseteq requests
  /\ \A q \in requests : q.page # p => q \in h.requests

Ends(h, f, m, c, K, A) ==
  /\ Good(f) /\ Lock(f) /\ Timed(f) /\ Went(h, f, m, c, K, A)
  /\ Clean(f, A) /\ Avoids(h, f, A)

\* The history of the records that it accepted, and of those delivered.
Counts(p, m, c, A) ==
  /\ last' \in 0 .. NumRecords /\ m \cup c \subseteq (last + 1) .. last'
  /\ last <= last' /\ m \cap c = {}
  /\ m = {} \/ (A = {} /\ \E r : m = {r})
  /\ stored' = stored \cup m /\ cached' = cached \cup c /\ acked' = acked \cup A
  /\ A \subseteq stored \cup cached
  /\ \A x \in Page : x # p => A \cap (page[x].memory \cup page[x].cache) = {}
  /\ page[p].stopped => m = {} /\ c = {}
  /\ gone' = gone /\ opens' = opens /\ late' = late /\ outlived' = outlived

\* A keepalive send is for a departure that was not reported before.
Departs(p, h, K) == K = {} \/ (~Silent(p) /\ h.pg.hiddenReported /\ \E l : K = {l})

Handled(p, h, f, m, c, K, A) ==
  /\ p \in Page /\ page[p].open
  /\ Begins(p, h) /\ Ends(h, f, m, c, K, A) /\ Counts(p, m, c, A) /\ Departs(p, h, K)
  /\ Leave(f)

\* Of the state of a handler, all that its page keeps.
SameState(h, f) ==
  /\ f.p = h.p /\ f.pg = h.pg /\ f.queue = h.queue /\ f.requests = h.requests
  /\ f.handed = h.handed /\ f.cut = h.cut /\ f.unsaved = h.unsaved

LEMMA StateFacts ==
  ASSUME NEW h, NEW f \in HState, SameState(h, f), Good(h)
  PROVE  Good(f) /\ (Lock(h) => Lock(f)) /\ (Timed(h) => Timed(f))
<1>1. Good(f)
  BY DEF SameState, Good, Stopping, Limited, Unsent, Working
<1>2. Lock(h) => Lock(f)
  BY DEF SameState, Lock, Uniq, Owned
<1>3. Timed(h) => Timed(f)
  BY DEF SameState, Timed
<1> QED BY <1>1, <1>2, <1>3

LEMMA EnterFacts ==
  ASSUME TypeOK, NEW p \in Page
  PROVE  Enter(p) \in HState
BY DEF TypeOK, Enter, HState

LEMMA EnterPrime ==
  ASSUME TypeOK', NEW p \in Page
  PROVE  /\ Enter(p)' \in HState
         /\ Enter(p)' = [p |-> p, pg |-> page'[p], queue |-> queue',
                         requests |-> requests', handed |-> handed', cut |-> cut',
                         unsaved |-> unsaved', failed |-> FALSE]
BY DEF TypeOK, Enter, HState

LEMMA HandledEffect ==
  ASSUME TypeOK, NEW p, NEW h, NEW f, NEW m, NEW c, NEW K, NEW A,
         Handled(p, h, f, m, c, K, A)
  PROVE  /\ f.p = p /\ page'[p] = f.pg /\ page' \in [Page -> PageState]
         /\ \A x \in Page : x # p => page'[x] = page[x]
         /\ queue' = f.queue /\ requests' = f.requests /\ handed' = f.handed
         /\ cut' = f.cut /\ unsaved' = f.unsaved /\ f \in HState
<1>1. f.p = p /\ f \in HState /\ Leave(f)
  BY DEF Handled, Begins, Ends, Went, Stays, Good
<1>2. page' = [page EXCEPT ![p] = f.pg] /\ f.pg \in PageState
  BY <1>1 DEF Leave, HState
<1>3. p \in Page /\ page \in [Page -> PageState]
  BY DEF Handled, TypeOK
<1> QED BY <1>1, <1>2, <1>3 DEF Leave

LEMMA HandledType ==
  ASSUME TypeOK, Numbered, NEW p, NEW h, NEW f, NEW m, NEW c, NEW K, NEW A,
         Handled(p, h, f, m, c, K, A)
  PROVE  TypeOK' /\ stored' \cup cached' \subseteq 1 .. last'
<1>1. /\ page' \in [Page -> PageState] /\ queue' = f.queue /\ requests' = f.requests
      /\ handed' = f.handed /\ cut' = f.cut /\ unsaved' = f.unsaved /\ f \in HState
  BY HandledEffect
<1>2. Counts(p, m, c, A)
  BY DEF Handled
<1>3. last \in 0 .. NumRecords /\ NumRecords \in Nat
  BY QueueAssumption DEF TypeOK
<1>4. stored' \cup cached' \subseteq 1 .. last'
  BY <1>2, <1>3 DEF Counts, Numbered
<1>5. 1 .. last' \subseteq Record
  BY <1>2, <1>3 DEF Counts, Record
<1>6. /\ acked' \subseteq Record /\ gone' \subseteq Record
      /\ late' \subseteq Record /\ outlived' \subseteq Record
  BY <1>2 DEF Counts, Numbered, TypeOK
<1>7. /\ queue' \in SUBSET Record /\ requests' \in SUBSET Request
      /\ handed' \subseteq Record /\ cut' \subseteq Record /\ unsaved' \subseteq Record
  BY <1>1 DEF HState
<1>8. last' \in 0 .. NumRecords /\ opens' \in Nat
  BY <1>2 DEF Counts, TypeOK
<1> QED BY <1>1, <1>4, <1>5, <1>6, <1>7, <1>8 DEF TypeOK

\* What a handler may do to the records, without the states it goes through.
LEMMA HandledRecords ==
  ASSUME TypeOK, NEW p, NEW h, NEW f, NEW m, NEW c, NEW K, NEW A,
         Handled(p, h, f, m, c, K, A)
  PROVE  LET had == page[p].memory \cup queue
             has == page'[p].memory \cup queue'
         IN  /\ has \subseteq had \cup m
             /\ page'[p].memory \subseteq page[p].memory \cup m
             /\ (had \cup m) \ has \subseteq cut' \cup A
             /\ cut \subseteq cut'
             /\ cut' \subseteq cut \cup ((had \cup m) \ has) \cup page[p].cache \cup c
             /\ unsaved \subseteq unsaved' /\ has \cap A \subseteq unsaved'
             /\ page'[p].cache \subseteq page[p].cache \cup c
             /\ handed \subseteq handed'
             /\ WorkerFails \/ page[p].cache \cup c
                                  \subseteq page'[p].cache \cup handed' \cup cut' \cup A
             /\ WorkerFails \/ page'[p].cache \cap A = {}
<1>1. /\ page'[p] = f.pg /\ queue' = f.queue /\ handed' = f.handed
      /\ cut' = f.cut /\ unsaved' = f.unsaved
  BY HandledEffect
<1>2. Begins(p, h) /\ Drops(h, f, m, c, A) /\ Yields(h, f, c, A) /\ Clean(f, A)
  BY DEF Handled, Ends, Went
<1> QED BY <1>1, <1>2 DEF Begins, Drops, Yields, Clean, Held

LEMMA HandledNumbered ==
  ASSUME IInv, NEW p, NEW h, NEW f, NEW m, NEW c, NEW K, NEW A,
         Handled(p, h, f, m, c, K, A)
  PROVE  Numbered'
<1>1. /\ p \in Page /\ Counts(p, m, c, A) /\ TypeOK /\ Numbered
      /\ \A x \in Page : x # p => page'[x] = page[x]
  BY HandledEffect DEF Handled, IInv
<1>2. stored' \cup cached' \subseteq 1 .. last'
  BY <1>1, HandledType
<1>3. (m \cup c) \cap (1 .. last) = {} /\ m \cap c = {}
  BY <1>1 DEF Counts, TypeOK
<1>4. stored' \cap cached' = {}
  BY <1>1, <1>3 DEF Counts, Numbered
<1>5. page[p].memory \cup queue \subseteq stored /\ page[p].cache \subseteq cached
  BY <1>1 DEF Numbered, InMemory, InCache
<1>6. cut' \subseteq stored' \cup cached'
  <2>1. cut' \subseteq cut \cup (page[p].memory \cup queue \cup m) \cup page[p].cache \cup c
    BY <1>1, HandledRecords
  <2> QED BY <1>1, <1>5, <2>1 DEF Counts, Numbered
<1>7. acked' \cup gone' \subseteq stored' \cup cached'
  BY <1>1 DEF Counts, Numbered
<1>8. page'[p].memory \cup queue' \subseteq stored' /\ page'[p].cache \subseteq cached'
  <2>1. /\ page'[p].memory \cup queue' \subseteq page[p].memory \cup queue \cup m
        /\ page'[p].cache \subseteq page[p].cache \cup c
    BY <1>1, HandledRecords
  <2> QED BY <1>1, <1>5, <2>1 DEF Counts
<1>9. \A x \in Page : page'[x].memory \subseteq stored' /\ page'[x].cache \subseteq cached'
  BY <1>1, <1>8 DEF Counts, Numbered, InMemory, InCache
<1>10. InMemory' \cup queue' \subseteq stored' /\ InCache' \subseteq cached'
  BY <1>8, <1>9 DEF InMemory, InCache
<1> QED BY <1>2, <1>4, <1>6, <1>7, <1>10 DEF Numbered

LEMMA HandledRequests ==
  ASSUME TypeOK, NEW p, NEW h, NEW f, NEW m, NEW c, NEW K, NEW A,
         Handled(p, h, f, m, c, K, A)
  PROVE  /\ \A q \in requests' :
              \/ \E o \in requests : SameSend(o, q) /\ (q.page # p => q = o)
              \/ /\ q.page = p /\ q.episode = page[p].episode
                 /\ q.keepalive \/ q.owner
                 /\ q.keepalive => q.by \in K
                 /\ q.list \subseteq page[p].memory \cup queue \cup m
                 /\ q.body \subseteq page[p].cache \cup c
         /\ \A o \in requests : o.page # p => o \in requests'
<1>1. requests' = f.requests /\ Begins(p, h) /\ Asks(h, f, m, c, K)
  BY HandledEffect DEF Handled, Ends, Went
<1>2. h.p = p /\ Held(h) = page[p].memory \cup queue /\ h.pg.cache = page[p].cache
      /\ h.pg.episode = page[p].episode /\ h.requests \subseteq requests
      /\ \A q \in requests : q.page # p => q \in h.requests
  BY <1>1 DEF Begins, Held
<1> QED BY <1>1, <1>2 DEF Asks, NewSend

LEMMA HandledPages ==
  ASSUME IInv, NEW p, NEW h, NEW f, NEW m, NEW c, NEW K, NEW A,
         Handled(p, h, f, m, c, K, A)
  PROVE  Pages' /\ Shared'
<1>1. /\ f.p = p /\ page'[p] = f.pg /\ queue' = f.queue /\ requests' = f.requests
      /\ handed' = f.handed /\ cut' = f.cut /\ unsaved' = f.unsaved
      /\ \A x \in Page : x # p => page'[x] = page[x]
  BY HandledEffect DEF IInv
<1>2. /\ p \in Page /\ Good(f) /\ Lock(f) /\ Timed(f) /\ Counts(p, m, c, A)
      /\ Begins(p, h)
  BY DEF Handled, Ends
<1>3. TypeOK'
  BY HandledType DEF IInv
<1>4. Shared'
  BY <1>1, <1>2 DEF Shared, Good, Limited
<1>5. ASSUME NEW x \in Page, page'[x].open
      PROVE  Good(Enter(x)') /\ Lock(Enter(x)') /\ Timed(Enter(x)')
  <2> DEFINE e == Enter(x)'
             s == Enter(x)
  <2>1. /\ e \in HState
        /\ e = [p |-> x, pg |-> page'[x], queue |-> queue',
                requests |-> requests', handed |-> handed', cut |-> cut',
                unsaved |-> unsaved', failed |-> FALSE]
    BY <1>3, EnterPrime
  <2>2. /\ e.p = x /\ e.pg = page'[x] /\ e.queue = queue' /\ e.requests = requests'
        /\ e.handed = handed' /\ e.cut = cut' /\ e.unsaved = unsaved'
    BY <2>1
  <2>3. /\ s.p = x /\ s.pg = page[x] /\ s.queue = queue /\ s.requests = requests
        /\ s.unsaved = unsaved
    BY DEF Enter
  <2> HIDE DEF e, s
  <2>4. CASE x = p
    <3>1. SameState(f, e)
      BY <1>1, <2>2, <2>4 DEF SameState
    <3> QED BY <1>2, <2>1, <3>1, StateFacts DEF e
  <2>5. CASE x # p
    <3>1. page'[x] = page[x]
      BY <1>1, <2>5
    <3>2. Good(s) /\ Lock(s) /\ Timed(s)
      BY <1>5, <3>1 DEF IInv, Pages, s
    <3>3. Stopping(e) /\ Limited(e)
      BY <1>2, <1>1, <2>2, <2>3, <3>1, <3>2 DEF Good, Stopping, Limited
    <3>4. page[x].memory \cap (page[p].memory \cup queue \cup m) = {}
      <4>1. page[x].memory \cap page[p].memory = {}
        BY <1>2, <2>5 DEF IInv, Alone
      <4>2. page[x].memory \cap queue = {}
        BY <2>3, <3>2 DEF Good, Unsent
      <4>3. page[x].memory \subseteq 1 .. last
        BY DEF IInv, Numbered, InMemory
      <4>4. m \cap (1 .. last) = {}
        BY <1>2 DEF Counts, IInv, TypeOK
      <4> QED BY <4>1, <4>2, <4>3, <4>4
    <3>5. Unsent(e)
      <4>1. queue' \subseteq page[p].memory \cup queue \cup m
        BY HandledRecords DEF IInv
      <4>2. \A q \in requests' : q.list \cap page[x].memory = {}
        <5> TAKE q \in requests'
        <5>1. CASE \E o \in requests : SameSend(o, q)
          BY <2>3, <3>2, <5>1 DEF Good, Unsent, SameSend
        <5>2. CASE q.list \subseteq page[p].memory \cup queue \cup m
          BY <3>4, <5>2
        <5> QED BY <5>1, <5>2, HandledRequests DEF IInv
      <4> QED BY <2>2, <3>1, <3>4, <4>1, <4>2 DEF Unsent
    <3>6. Working(e)
      BY <1>1, <1>2, <2>2, <2>3, <3>1, <3>2 DEF Good, Working
    <3>7. IsFiniteSet(e.requests)
      BY <1>1, <1>2, <2>2 DEF Good
    <3>8. Lock(e)
      <4>1. \A q \in requests' : q.page = x => q \in requests
        BY <2>5, HandledRequests DEF IInv
      <4>2. \A q \in requests : q.page = x => q \in requests'
        BY <2>5, HandledRequests DEF IInv
      <4>3. Uniq(e)
        BY <2>2, <2>3, <3>2, <4>1 DEF Lock, Uniq
      <4>4. Owned(e) <=> Owned(s)
        BY <2>2, <2>3, <4>1, <4>2 DEF Owned
      <4> QED BY <2>2, <2>3, <3>1, <3>2, <4>3, <4>4 DEF Lock
    <3>9. Timed(e)
      <4>1. unsaved \subseteq unsaved'
        BY HandledRecords DEF IInv
      <4> QED BY <2>2, <2>3, <3>1, <3>2, <4>1 DEF Timed
    <3> QED BY <2>1, <3>3, <3>5, <3>6, <3>7, <3>8, <3>9 DEF Good, e
  <2> QED BY <2>4, <2>5
<1> QED BY <1>4, <1>5 DEF Pages

LEMMA HandledApart ==
  ASSUME IInv, NEW p, NEW h, NEW f, NEW m, NEW c, NEW K, NEW A,
         Handled(p, h, f, m, c, K, A)
  PROVE  Shut' /\ Alone' /\ Carried'
<1>0. /\ p \in Page /\ page[p].open /\ Counts(p, m, c, A) /\ TypeOK
      /\ \A x \in Page : x # p => page'[x] = page[x]
      /\ page'[p] = f.pg /\ f.pg.open
  <2>1. Begins(p, h) /\ Stays(h, f) /\ page[p].open
    BY DEF Handled, Ends, Went
  <2>2. f.pg.open
    BY <2>1 DEF Begins, Stays
  <2> QED BY <2>2, HandledEffect DEF Handled, IInv
<1>1. /\ page'[p].memory \subseteq page[p].memory \cup m
      /\ page'[p].cache \subseteq page[p].cache \cup c
  BY HandledRecords DEF IInv
<1>2. (m \cup c) \cap (1 .. last) = {} /\ m \subseteq stored' /\ c \subseteq cached'
      /\ stored \subseteq stored' /\ cached \subseteq cached'
  BY <1>0 DEF Counts, TypeOK
<1>3. \A x \in Page : /\ page[x].memory \subseteq stored /\ page[x].cache \subseteq cached
                      /\ page[x].memory \subseteq 1 .. last /\ page[x].cache \subseteq 1 .. last
  BY DEF IInv, Numbered, InMemory, InCache
<1>4. \A q \in requests' : (\E o \in requests : SameSend(o, q)) \/ q.page = p
  BY HandledRequests DEF IInv
<1>5. \A q \in requests : q.page \in Page
  BY DEF IInv, TypeOK, Request
<1>6. Shut'
  <2>1. \A x \in Page : ~page'[x].open => page'[x] = Closed
    BY <1>0 DEF IInv, Shut
  <2>2. ASSUME NEW q \in requests' PROVE page'[q.page].open
    <3>1. CASE q.page = p
      BY <1>0, <3>1
    <3>2. CASE q.page # p
      <4>1. PICK o \in requests : q.page = o.page
        BY <1>4, <2>2, <3>2 DEF SameSend
      <4>2. page[o.page].open
        BY DEF IInv, Shut
      <4> QED BY <1>0, <1>5, <3>2, <4>1, <4>2
    <3> QED BY <3>1, <3>2
  <2> QED BY <2>1, <2>2 DEF Shut, Closed
<1>7. Alone'
  <2> SUFFICES ASSUME NEW y \in Page, NEW x \in Page, y # x
               PROVE  /\ page'[y].memory \cap page'[x].memory = {}
                      /\ page'[y].cache \cap page'[x].cache = {}
    BY DEF Alone
  <2>1. page[y].memory \cap page[x].memory = {} /\ page[y].cache \cap page[x].cache = {}
    BY DEF IInv, Alone
  <2>2. CASE y = p
    BY <1>0, <1>1, <1>2, <1>3, <2>1, <2>2
  <2>3. CASE x = p
    BY <1>0, <1>1, <1>2, <1>3, <2>1, <2>3
  <2>4. CASE y # p /\ x # p
    BY <1>0, <2>1, <2>4
  <2> QED BY <2>2, <2>3, <2>4
<1>8. Carried'
  <2> SUFFICES ASSUME NEW q \in requests'
               PROVE  /\ q.keepalive \/ q.owner
                      /\ q.list \subseteq stored' /\ q.body \subseteq cached'
                      /\ \A x \in Page : x # q.page => q.body \cap page'[x].cache = {}
    BY DEF Carried
  <2>1. CASE \E o \in requests : SameSend(o, q)
    <3>1. PICK o \in requests : SameSend(o, q)
      BY <2>1
    <3>2. /\ o.keepalive \/ o.owner
          /\ o.list \subseteq stored /\ o.body \subseteq cached
          /\ \A x \in Page : x # o.page => o.body \cap page[x].cache = {}
      BY DEF IInv, Carried
    <3>3. o.body \subseteq 1 .. last
      BY <3>2 DEF IInv, Numbered
    <3>4. \A x \in Page : x # o.page => o.body \cap page'[x].cache = {}
      BY <1>0, <1>1, <1>2, <3>2, <3>3
    <3> QED BY <1>2, <3>1, <3>2, <3>4 DEF SameSend
  <2>2. CASE /\ q.page = p
             /\ q.keepalive \/ q.owner
             /\ q.list \subseteq page[p].memory \cup queue \cup m
             /\ q.body \subseteq page[p].cache \cup c
    <3>1. page[p].memory \cup queue \subseteq stored /\ page[p].cache \subseteq cached
      BY <1>0 DEF IInv, Numbered, InMemory, InCache
    <3>2. \A x \in Page : x # p => page[p].cache \cap page[x].cache = {}
      BY <1>0 DEF IInv, Alone
    <3>3. ASSUME NEW x \in Page, x # p PROVE q.body \cap page'[x].cache = {}
      <4>1. page'[x].cache = page[x].cache /\ page[x].cache \subseteq 1 .. last
        BY <1>0, <1>3, <3>3
      <4>2. c \cap (1 .. last) = {} /\ q.body \subseteq page[p].cache \cup c
        BY <1>2, <2>2
      <4> HIDE DEF Carried
      <4> QED BY <3>2, <3>3, <4>1, <4>2
    <3>4. q.list \subseteq stored' /\ q.body \subseteq cached'
      BY <1>2, <2>2, <3>1
    <3> QED BY <2>2, <3>3, <3>4
  <2> QED BY <2>1, <2>2, HandledRequests DEF IInv
<1> QED BY <1>6, <1>7, <1>8

LEMMA HandledDepartures ==
  ASSUME IInv, NEW p, NEW h, NEW f, NEW m, NEW c, NEW K, NEW A,
         Handled(p, h, f, m, c, K, A)
  PROVE  Departures'
<1>0. /\ p \in Page /\ TypeOK /\ Departs(p, h, K) /\ Begins(p, h)
      /\ \A x \in Page : x # p => page'[x] = page[x]
      /\ page'[p] = f.pg /\ Stays(h, f)
  BY HandledEffect DEF Handled, Ends, Went, IInv
<1>1. /\ page'[p].episode = page[p].episode
      /\ Silent(p) => Silent(p)'
      /\ h.pg.hiddenReported => Silent(p)'
      /\ \A x \in Page : x # p => (Silent(x)' <=> Silent(x))
  BY <1>0 DEF Begins, Stays, Silent
<1>2. \A x \in Page : page'[x].episode = page[x].episode /\ page[x].episode \in Nat
  BY <1>0, <1>1 DEF TypeOK, PageState
<1>3. \A q \in requests : q.page \in Page
  BY DEF IInv, TypeOK, Request
<1>4. ASSUME NEW q \in requests', q.keepalive
      PROVE  \/ \E o \in requests : SameSend(o, q)
             \/ (q.page = p /\ q.episode = page[p].episode /\ q.by \in K)
  BY <1>4, HandledRequests DEF IInv
<1>5. ASSUME NEW q \in requests', q.keepalive
      PROVE  /\ q.episode <= page'[q.page].episode
             /\ q.episode = page'[q.page].episode => Silent(q.page)'
  <2>1. CASE \E o \in requests : SameSend(o, q)
    BY <1>1, <1>2, <1>3, <1>5, <2>1 DEF IInv, Departures, SameSend
  <2>2. CASE q.page = p /\ q.episode = page[p].episode /\ q.by \in K
    BY <1>0, <1>1, <1>2, <2>2 DEF Departs
  <2> QED BY <1>4, <1>5, <2>1, <2>2
<1>6. ASSUME NEW q \in requests', NEW r \in requests', q.keepalive, r.keepalive,
             q.page = r.page, q.episode = r.episode
      PROVE  q.by = r.by
  <2> DEFINE Old(x) == \E o \in requests : SameSend(o, x)
             New(x) == x.page = p /\ x.episode = page[p].episode /\ x.by \in K
  <2>1. (Old(q) \/ New(q)) /\ (Old(r) \/ New(r))
    BY <1>4, <1>6
  <2>2. CASE Old(q) /\ Old(r)
    <3>1. PICK o \in requests, x \in requests : SameSend(o, q) /\ SameSend(x, r)
      BY <2>2
    <3> QED BY <1>6, <3>1 DEF SameSend, IInv, Departures, OneKeepalivePerHide
  <2>3. CASE New(q) /\ New(r)
    BY <1>0, <2>3 DEF Departs
  <2>4. ASSUME NEW x \in requests', NEW y \in requests', x.keepalive, y.keepalive,
               x.page = y.page, x.episode = y.episode, Old(x), New(y)
        PROVE  FALSE
    <3>1. PICK o \in requests : SameSend(o, x)
      BY <2>4
    <3>2. o.keepalive /\ o.page = p /\ o.episode = page[p].episode
      BY <2>4, <3>1 DEF SameSend
    <3>3. Silent(p)
      BY <3>2 DEF IInv, Departures
    <3> QED BY <1>0, <2>4, <3>3 DEF Departs
  <2> QED BY <1>6, <2>1, <2>2, <2>3, <2>4
<1>7. OneKeepalivePerHide'
  BY <1>6 DEF OneKeepalivePerHide
<1> QED BY <1>5, <1>7 DEF Departures

LEMMA HandledAccounted ==
  ASSUME IInv, NEW p, NEW h, NEW f, NEW m, NEW c, NEW K, NEW A,
         Handled(p, h, f, m, c, K, A)
  PROVE  Accounted' /\ Marked' /\ Adrift'
<1> DEFINE had  == page[p].memory \cup queue
           has  == page'[p].memory \cup queue'
           M    == UNION {page[x].memory : x \in Page \ {p}}
           C    == UNION {page[x].cache : x \in Page \ {p}}
<1>0. /\ p \in Page /\ Counts(p, m, c, A) /\ TypeOK /\ Numbered /\ Accounted /\ Marked
      /\ Adrift /\ \A x \in Page : x # p => page'[x] = page[x]
  BY HandledEffect DEF Handled, IInv
<1>1. /\ InMemory \cup queue = M \cup had /\ InMemory' \cup queue' = M \cup has
      /\ InCache = C \cup page[p].cache /\ InCache' = C \cup page'[p].cache
  BY <1>0 DEF InMemory, InCache
<1>2. /\ has \subseteq had \cup m
      /\ (had \cup m) \ has \subseteq cut' \cup A
      /\ cut \subseteq cut' /\ unsaved \subseteq unsaved' /\ has \cap A \subseteq unsaved'
      /\ page'[p].cache \subseteq page[p].cache \cup c
      /\ handed \subseteq handed'
      /\ WorkerFails \/ page[p].cache \cup c
                           \subseteq page'[p].cache \cup handed' \cup cut' \cup A
      /\ WorkerFails \/ page'[p].cache \cap A = {}
  BY <1>0, HandledRecords
<1>3. M \cap A = {} /\ C \cap A = {}
  BY <1>0 DEF Counts
<1>4. (m \cup c) \cap acked = {} /\ c \cap late = {}
  BY <1>0 DEF Counts, Numbered, Adrift, TypeOK
<1> HIDE DEF had, has, M, C
<1>5. stored' \subseteq InMemory' \cup queue' \cup acked' \cup cut' \cup gone'
  BY <1>0, <1>1, <1>2 DEF Counts, Accounted
<1>6. WorkerFails \/ NoCacheLoss'
  BY <1>0, <1>1, <1>2 DEF Counts, Accounted, NoCacheLoss
<1>7. (InMemory' \cup queue') \cap acked' \subseteq unsaved' \cup outlived'
  BY <1>0, <1>1, <1>2, <1>3, <1>4 DEF Counts, Marked
<1>8. WorkerFails \/ InCache' \cap acked' = {}
  BY <1>0, <1>1, <1>2, <1>3, <1>4 DEF Counts, Marked
<1>9. Adrift'
  BY <1>0, <1>1, <1>2, <1>4 DEF Counts, Adrift
<1> QED BY <1>5, <1>6, <1>7, <1>8, <1>9 DEF Accounted, Marked

LEMMA HandledKeepsInvariant ==
  ASSUME IInv, NEW p, NEW h, NEW f, NEW m, NEW c, NEW K, NEW A,
         Handled(p, h, f, m, c, K, A)
  PROVE  IInv'
BY HandledType, HandledPages, HandledApart, HandledDepartures, HandledNumbered,
   HandledAccounted DEF IInv

-----------------------------------------------------------------------------
(***************************************************************************)
(* What a handler does to the promises: it keeps those of Delivery, leaves *)
(* a stopped page silent, and starts no send with what was delivered.      *)
(***************************************************************************)
Final(p) ==
  page[p].stopped /\ page'[p].open =>
    /\ page'[p].stopped /\ ~page'[p].sendTimer /\ ~page'[p].pending
    /\ page'[p].mine = page[p].mine
    /\ Cardinality(Requests(p)') <= Cardinality(Requests(p))

NotResent ==
  \A q \in requests' :
    Started(q) => (q.list \cup q.body) \cap acked' \subseteq unsaved' \cup outlived'

LEMMA HandledDelivers ==
  ASSUME IInv, NEW p, NEW h, NEW f, NEW m, NEW c, NEW K, NEW A,
         Handled(p, h, f, m, c, K, A)
  PROVE  D!Next
<1> DEFINE had  == page[p].memory \cup queue
           has  == page'[p].memory \cup queue'
           M    == UNION {page[x].memory : x \in Page \ {p}}
           held     == InMemory \cup queue
           dropped  == (cut \cup gone) \cap stored
           lost     == (had \cup m) \ has
<1>0. /\ p \in Page /\ Counts(p, m, c, A) /\ TypeOK /\ Numbered /\ Accounted
      /\ \A x \in Page : x # p => page'[x] = page[x]
  BY HandledEffect DEF Handled, IInv
<1>1. held = M \cup had /\ InMemory' \cup queue' = M \cup has
  BY <1>0 DEF InMemory
<1>2. /\ has \subseteq had \cup m /\ lost \subseteq cut' \cup A /\ cut \subseteq cut'
      /\ cut' \subseteq cut \cup lost \cup page[p].cache \cup c
  BY <1>0, HandledRecords
<1>3. M \cap had = {}
  <2>1. \A x \in Page : x # p => page[x].memory \cap page[p].memory = {}
    BY <1>0 DEF IInv, Alone
  <2>2. \A x \in Page : page[x].memory \cap queue = {}
    <3> TAKE x \in Page
    <3>1. CASE page[x].open
      BY <3>1 DEF IInv, Pages, Good, Unsent, Enter
    <3>2. CASE ~page[x].open
      BY <3>2 DEF IInv, Shut, Closed
    <3> QED BY <3>1, <3>2
  <2> QED BY <2>1, <2>2
<1>4. held \subseteq stored /\ page[p].cache \subseteq cached /\ stored \cap cached = {}
  BY <1>0 DEF Numbered, InCache
<1>5. /\ (m \cup c) \cap (1 .. last) = {} /\ m \cap c = {}
      /\ stored \cup cached \cup acked \cup cut \cup gone \subseteq 1 .. last
      /\ m \subseteq Record
  <2>1. stored \cup cached \cup acked \cup cut \cup gone \subseteq 1 .. last
    BY <1>0 DEF Numbered
  <2> QED BY <1>0, <2>1, QueueAssumption DEF Counts, TypeOK, Record
<1>6. stored' = stored \cup m /\ gone' = gone /\ acked' = acked \cup A
  BY <1>0 DEF Counts
<1> HIDE DEF had, has, M, held, lost
<1>7. /\ (cut' \cup gone') \cap stored' \subseteq dropped \cup lost
      /\ dropped \subseteq (cut' \cup gone') \cap stored'
  BY <1>2, <1>4, <1>5, <1>6
<1>8. held \cup m = M \cup (had \cup m) /\ held \subseteq M \cup had
  BY <1>1
<1>9. (held \cup m) \ (InMemory' \cup queue') = lost /\ InMemory' \cup queue' \subseteq held \cup m
  BY <1>1, <1>2, <1>3, <1>4, <1>5 DEF lost
<1>10. lost \subseteq stored'
  BY <1>4, <1>6, <1>9
<1>11. CASE m = {} /\ A = {}
  <2>1. (cut' \cup gone') \cap stored' = dropped \cup (held \ (InMemory' \cup queue'))
    BY <1>2, <1>7, <1>9, <1>10, <1>11
  <2>2. acked' \cap stored' = acked \cap stored
    BY <1>6, <1>11
  <2>3. InMemory' \cup queue' \subseteq held
    BY <1>9, <1>11
  <2> QED BY <2>1, <2>2, <2>3 DEF D!Next, D!Lose, held
<1>12. CASE A = {} /\ \E r : m = {r}
  <2>1. PICK r : m = {r}
    BY <1>12
  <2>2. (cut' \cup gone') \cap stored' = dropped \cup ((held \cup {r}) \ (InMemory' \cup queue'))
    BY <1>2, <1>7, <1>9, <1>10, <1>12, <2>1
  <2>3. acked' \cap stored' = acked \cap stored
    BY <1>5, <1>6, <1>12
  <2>4. InMemory' \cup queue' \subseteq held \cup {r}
    BY <1>9, <2>1
  <2>5. r \in Record \ (held \cup (acked \cap stored) \cup dropped)
    BY <1>4, <1>5, <2>1
  <2> QED BY <2>2, <2>3, <2>4, <2>5 DEF D!Next, D!Accept, D!Accepted, held
<1>13. CASE m = {}
  <2> DEFINE S == A \cap stored
  <2>1. acked' \cap stored' = (acked \cap stored) \cup S
    BY <1>6, <1>13
  <2>2. InMemory' \cup queue' \subseteq held /\ held \ (InMemory' \cup queue') = lost
    BY <1>9, <1>13
  <2>3. lost \subseteq S \cup ((cut' \cup gone') \cap stored')
    BY <1>2, <1>6, <1>10, <1>13
  <2>4. lost \subseteq held
    BY <2>2
  <2>5. S \in SUBSET (held \cup (acked \cap stored) \cup dropped)
    BY <1>0 DEF Accounted, held
  <2>6. /\ dropped \subseteq (cut' \cup gone') \cap stored'
        /\ (cut' \cup gone') \cap stored' \subseteq dropped \cup held
    BY <1>7, <2>4
  <2> HIDE DEF S
  <2> QED BY <2>1, <2>2, <2>3, <2>5, <2>6 DEF D!Next, D!Confirm, D!Accepted, held
<1> QED BY <1>0, <1>11, <1>12, <1>13 DEF Counts

LEMMA HandledFinal ==
  ASSUME IInv, NEW p, NEW h, NEW f, NEW m, NEW c, NEW K, NEW A,
         Handled(p, h, f, m, c, K, A), NEW x \in Page
  PROVE  Final(x)
<1>0. /\ p \in Page /\ Counts(p, m, c, A) /\ Begins(p, h) /\ Good(f) /\ Went(h, f, m, c, K, A)
      /\ TypeOK /\ f.p = p /\ page'[p] = f.pg /\ requests' = f.requests
      /\ \A y \in Page : y # p => page'[y] = page[y]
  BY HandledEffect DEF Handled, Ends, IInv
<1> SUFFICES ASSUME page[x].stopped, page'[x].open
             PROVE  /\ page'[x].stopped /\ ~page'[x].sendTimer /\ ~page'[x].pending
                    /\ page'[x].mine = page[x].mine
                    /\ Cardinality(Requests(x)') <= Cardinality(Requests(x))
  BY DEF Final
<1>1. IsFiniteSet(Requests(x)) /\ Cardinality(Requests(x)) \in Nat
  <2>1. Requests(x) \in SUBSET requests /\ IsFiniteSet(requests)
    BY DEF Requests, IInv, Shared
  <2> QED BY <2>1, FS_Subset, FS_CardinalityType
<1>2. CASE x = p
  <2>1. Stays(h, f) /\ f.pg.mine = h.pg.mine \cup m \cup c /\ Asks(h, f, m, c, K)
    BY <1>0 DEF Went
  <2>2. h.pg.stopped /\ f.pg.stopped
    BY <1>0, <1>2, <2>1 DEF Begins, Stays
  <2>3. f.pg.mine = page[p].mine
    BY <1>0, <1>2, <2>1 DEF Begins, Counts
  <2>4. ~f.pg.sendTimer /\ ~f.pg.pending
    BY <1>0, <2>2 DEF Good, Stopping
  <2>5. Cardinality(Own(f)) <= Cardinality(Own(h))
    BY <2>1, <2>2 DEF Asks
  <2>6. Requests(x)' = Own(f)
    BY <1>0, <1>2 DEF Requests, Own
  <2>7. Own(h) \in SUBSET Requests(x)
    BY <1>0, <1>2 DEF Requests, Own, Begins
  <2>8. Cardinality(Own(h)) <= Cardinality(Requests(x)) /\ Cardinality(Own(h)) \in Nat
    BY <1>1, <2>7, FS_Subset, FS_CardinalityType
  <2>9. Cardinality(Own(f)) \in Nat
    BY <1>0, OwnFinite DEF Good
  <2> QED BY <1>0, <1>1, <1>2, <2>2, <2>3, <2>4, <2>5, <2>6, <2>8, <2>9
<1>3. CASE x # p
  <2>1. page'[x] = page[x]
    BY <1>0, <1>3
  <2>2. ~page[x].sendTimer /\ ~page[x].pending
    BY <2>1 DEF IInv, Pages, Good, Stopping, Enter
  <2>3. Requests(x)' = Requests(x)
    BY <1>3, HandledRequests DEF Requests, IInv, SameSend
  <2> QED BY <1>1, <2>1, <2>2, <2>3
<1> QED BY <1>2, <1>3

LEMMA HandledNotResent ==
  ASSUME IInv, ~WorkerFails, NEW p, NEW h, NEW f, NEW m, NEW c, NEW K, NEW A,
         Handled(p, h, f, m, c, K, A)
  PROVE  NotResent
<1>0. /\ p \in Page /\ Counts(p, m, c, A) /\ Begins(p, h) /\ Avoids(h, f, A)
      /\ requests' = f.requests /\ unsaved' = f.unsaved
  BY HandledEffect DEF Handled, Ends, IInv
<1> SUFFICES ASSUME NEW q \in requests', Started(q)
             PROVE  (q.list \cup q.body) \cap acked' \subseteq unsaved' \cup outlived'
  BY DEF NotResent
<1>1. ~\E o \in requests : SameSend(o, q)
  BY DEF Started, SameSend
<1>2. (q.list \cup q.body) \cap A \subseteq unsaved'
  BY <1>0, <1>1 DEF Avoids, Begins
<1>3. /\ q.list \subseteq page[p].memory \cup queue \cup m
      /\ q.body \subseteq page[p].cache \cup c
  BY <1>1, HandledRequests DEF IInv
<1>4. (m \cup c) \cap acked = {}
  BY <1>0 DEF Counts, IInv, Numbered, TypeOK
<1>5. /\ (page[p].memory \cup queue) \cap acked \subseteq unsaved \cup outlived
      /\ page[p].cache \cap acked = {}
  BY <1>0 DEF IInv, Marked, InMemory, InCache
<1>6. unsaved \subseteq unsaved'
  BY HandledRecords DEF IInv
<1> QED BY <1>0, <1>2, <1>3, <1>4, <1>5, <1>6 DEF Counts

-----------------------------------------------------------------------------
(***************************************************************************)
(* A step of page p that leaves the records and the requests alone.        *)
(***************************************************************************)
SameRecords ==
  /\ queue' = queue /\ requests' = requests /\ last' = last /\ stored' = stored
  /\ cached' = cached /\ acked' = acked /\ handed' = handed /\ cut' = cut
  /\ unsaved' = unsaved /\ gone' = gone /\ late' = late /\ outlived' = outlived

Quiet(p, g) ==
  /\ p \in Page /\ page' = [page EXCEPT ![p] = g] /\ g \in PageState /\ g.open
  /\ g.memory = page[p].memory /\ g.cache = page[p].cache
  /\ g.flushSet = page[p].flushSet /\ g.flushDue = page[p].flushDue
  /\ g.sendTimer = page[p].sendTimer /\ g.sending = page[p].sending
  /\ g.pending = page[p].pending /\ g.failStreak = page[p].failStreak
  /\ g.stopped = page[p].stopped /\ g.mine = page[p].mine
  /\ WorkerFails \/ g.worker \/ (page[p].open /\ g.worker = page[p].worker)
  /\ g.episode >= page[p].episode
  /\ g.episode = page[p].episode /\ Silent(p) => g.hiddenReported \/ g.stopped
  /\ SameRecords /\ opens' \in Nat

LEMMA QuietKeepsInvariant ==
  ASSUME IInv, NEW p, NEW g, Quiet(p, g)
  PROVE  IInv'
<1>0. /\ p \in Page /\ SameRecords /\ opens' \in Nat /\ TypeOK
      /\ page'[p] = g /\ page' \in [Page -> PageState]
      /\ \A x \in Page : x # p => page'[x] = page[x]
      /\ g.memory = page[p].memory /\ g.cache = page[p].cache /\ g.open
  BY DEF Quiet, IInv, TypeOK
<1>1. /\ \A x \in Page : page'[x].memory = page[x].memory /\ page'[x].cache = page[x].cache
      /\ InMemory' = InMemory /\ InCache' = InCache
  <2>1. \A x \in Page : page'[x].memory = page[x].memory /\ page'[x].cache = page[x].cache
    BY <1>0
  <2> QED BY <2>1 DEF InMemory, InCache
<1>2. TypeOK'
  BY <1>0 DEF TypeOK, SameRecords
<1>3. Shared' /\ Alone' /\ Numbered'
  BY <1>0, <1>1 DEF IInv, Shared, Alone, Numbered, SameRecords
<1>4. Carried'
  BY <1>0, <1>1 DEF IInv, Carried, SameRecords
<1>5. Accounted' /\ Marked' /\ Adrift'
  BY <1>0, <1>1 DEF IInv, Accounted, NoCacheLoss, Marked, Adrift, SameRecords
<1>6. Shut'
  <2>1. \A x \in Page : ~page'[x].open => page'[x] = Closed
    BY <1>0 DEF IInv, Shut
  <2>2. \A q \in requests' : q.page \in Page
    BY <1>2 DEF TypeOK, Request
  <2>3. \A q \in requests' : page'[q.page].open
    BY <1>0, <2>2 DEF IInv, Shut, SameRecords
  <2> QED BY <2>1, <2>3 DEF Shut, Closed
<1>7. Departures'
  <2>1. OneKeepalivePerHide'
    BY <1>0 DEF IInv, Departures, OneKeepalivePerHide, SameRecords
  <2>2. ASSUME NEW q \in requests', q.keepalive
        PROVE  /\ q.episode <= page'[q.page].episode
               /\ q.episode = page'[q.page].episode => Silent(q.page)'
    <3>1. /\ q \in requests /\ q.page \in Page /\ q.episode \in Nat
          /\ q.episode <= page[q.page].episode
          /\ q.episode = page[q.page].episode => Silent(q.page)
      BY <1>0, <2>2 DEF IInv, Departures, SameRecords, TypeOK, Request
    <3>2. CASE q.page # p
      BY <1>0, <3>1, <3>2 DEF Silent
    <3>3. CASE q.page = p
      <4>1. /\ g.episode \in Nat /\ page[p].episode \in Nat
            /\ g.episode >= page[p].episode
            /\ g.episode = page[p].episode /\ Silent(p) => g.hiddenReported \/ g.stopped
        BY <1>0 DEF Quiet, TypeOK, PageState
      <4> QED BY <1>0, <3>1, <3>3, <4>1 DEF Silent
    <3> QED BY <3>2, <3>3
  <2> QED BY <2>1, <2>2 DEF Departures
<1>8. ASSUME NEW x \in Page, page'[x].open
      PROVE  Good(Enter(x)') /\ Lock(Enter(x)') /\ Timed(Enter(x)')
  <2> DEFINE e == Enter(x)'
             s == Enter(x)
  <2>1. e \in HState
    BY <1>2, EnterPrime
  <2>2. /\ e.p = x /\ e.pg = page'[x] /\ e.queue = queue /\ e.requests = requests
        /\ e.handed = handed /\ e.cut = cut /\ e.unsaved = unsaved
    BY <1>0 DEF Enter, SameRecords
  <2>3. /\ s.p = x /\ s.pg = page[x] /\ s.queue = queue /\ s.requests = requests
        /\ s.handed = handed /\ s.cut = cut /\ s.unsaved = unsaved
    BY DEF Enter
  <2> HIDE DEF e, s
  <2>4. CASE x # p
    <3>1. SameState(s, e) /\ page[x].open
      BY <1>0, <1>8, <2>2, <2>3, <2>4 DEF SameState
    <3>2. Good(s) /\ Lock(s) /\ Timed(s)
      BY <3>1 DEF IInv, Pages, s
    <3> QED BY <2>1, <3>1, <3>2, StateFacts DEF e
  <2>5. CASE x = p /\ page[p].open
    <3>1. Good(s) /\ Lock(s) /\ Timed(s)
      BY <2>5 DEF IInv, Pages, s
    <3>2. Stopping(e) /\ Limited(e) /\ Unsent(e)
      BY <1>0, <2>2, <2>3, <2>5, <3>1 DEF Quiet, Good, Stopping, Limited, Unsent
    <3>3. Working(e)
      BY <1>0, <2>2, <2>3, <2>5, <3>1 DEF Quiet, Good, Working
    <3>4. Lock(e)
      <4>1. e.requests = s.requests /\ e.p = s.p /\ e.pg.sending = s.pg.sending
        BY <1>0, <2>2, <2>3, <2>5 DEF Quiet
      <4> QED BY <3>1, <4>1 DEF Lock, Uniq, Owned
    <3>5. Timed(e)
      BY <1>0, <2>2, <2>3, <2>5, <3>1 DEF Quiet, Timed
    <3>6. IsFiniteSet(e.requests)
      BY <2>2, <2>3, <3>1 DEF Good
    <3> QED BY <2>1, <3>2, <3>3, <3>4, <3>5, <3>6 DEF Good, e
  <2>6. CASE x = p /\ ~page[p].open
    <3>1. page[p] = Closed /\ \A q \in requests : q.page # p
      BY <1>0, <2>6 DEF IInv, Shut
    <3>2. /\ e.pg.memory = {} /\ e.pg.cache = {}
          /\ e.pg.flushSet = FALSE /\ e.pg.flushDue = FALSE
          /\ ~e.pg.sendTimer /\ ~e.pg.sending /\ ~e.pg.pending /\ e.pg.failStreak = 0
          /\ ~e.pg.stopped /\ (WorkerFails \/ e.pg.worker) /\ e.pg.open
      <4>1. /\ g.flushSet = page[p].flushSet /\ g.flushDue = page[p].flushDue
            /\ g.sendTimer = page[p].sendTimer /\ g.sending = page[p].sending
            /\ g.pending = page[p].pending /\ g.failStreak = page[p].failStreak
            /\ g.stopped = page[p].stopped /\ (WorkerFails \/ g.worker)
        BY <2>6 DEF Quiet
      <4>2. e.pg = g
        BY <1>0, <2>2, <2>6
      <4>3. /\ page[p].memory = {} /\ page[p].cache = {} /\ page[p].flushSet = FALSE
            /\ page[p].flushDue = FALSE /\ ~page[p].sendTimer /\ ~page[p].sending
            /\ ~page[p].pending /\ page[p].failStreak = 0 /\ ~page[p].stopped
        BY <3>1 DEF Closed
      <4> QED BY <1>0, <4>1, <4>2, <4>3
    <3>3. Stopping(e)
      BY <3>2, SenderAssumption DEF Stopping
    <3>4. Limited(e)
      <4>1. WithinCount({}) /\ Cardinality({}) <= MaxCache
        BY FS_EmptySet, QueueAssumption DEF WithinCount
      <4> QED BY <2>2, <3>2, <4>1 DEF Limited, IInv, Shared
    <3>5. Unsent(e)
      BY <3>2 DEF Unsent
    <3>6. Working(e)
      <4> SUFFICES ASSUME ~WorkerFails, NEW q \in requests PROVE Whole(q)
        BY <2>2, <3>2 DEF Working
      <4>1. q.page \in Page /\ page[q.page].open
        BY <1>0 DEF IInv, Shut, TypeOK, Request
      <4> QED BY <4>1 DEF IInv, Pages, Good, Working, Enter
    <3>7. Lock(e)
      BY <2>2, <2>6, <3>1, <3>2 DEF Lock, Uniq, Owned
    <3>8. Timed(e)
      BY <3>2 DEF Timed
    <3>9. IsFiniteSet(e.requests)
      BY <2>2 DEF IInv, Shared
    <3> QED BY <2>1, <3>3, <3>4, <3>5, <3>6, <3>7, <3>8, <3>9 DEF Good, e
  <2> QED BY <2>4, <2>5, <2>6
<1> QED BY <1>2, <1>3, <1>4, <1>5, <1>6, <1>7, <1>8 DEF IInv, Pages

LEMMA QuietPromises ==
  ASSUME IInv, NEW p, NEW g, Quiet(p, g)
  PROVE  /\ UNCHANGED D!vars /\ NotResent /\ \A x \in Page : Final(x)
<1>0. /\ p \in Page /\ SameRecords /\ TypeOK
      /\ page'[p] = g /\ \A x \in Page : x # p => page'[x] = page[x]
  BY DEF Quiet, IInv, TypeOK
<1>1. \A x \in Page : page'[x].memory = page[x].memory
  BY <1>0 DEF Quiet
<1>2. UNCHANGED D!vars
  BY <1>0, <1>1 DEF D!vars, InMemory, SameRecords
<1>3. NotResent
  BY <1>0 DEF NotResent, Started, SameRecords
<1>4. ASSUME NEW x \in Page, page[x].stopped PROVE Final(x)
  <2>1. page[x].open
    BY <1>4 DEF IInv, Shut, Closed
  <2>2. ~page[x].sendTimer /\ ~page[x].pending
    BY <1>4, <2>1 DEF IInv, Pages, Good, Stopping, Enter
  <2>3. Requests(x)' = Requests(x)
    BY <1>0 DEF Requests, SameRecords
  <2>4. Cardinality(Requests(x)) \in Nat
    <3>1. Requests(x) \in SUBSET requests /\ IsFiniteSet(requests)
      BY DEF Requests, IInv, Shared
    <3> QED BY <3>1, FS_Subset, FS_CardinalityType
  <2>5. /\ page'[x].stopped = page[x].stopped /\ page'[x].sendTimer = page[x].sendTimer
        /\ page'[x].pending = page[x].pending /\ page'[x].mine = page[x].mine
    BY <1>0 DEF Quiet
  <2> QED BY <1>4, <2>2, <2>3, <2>4, <2>5 DEF Final
<1> QED BY <1>2, <1>3, <1>4 DEF Final

-----------------------------------------------------------------------------
(***************************************************************************)
(* A page is closed.                                                       *)
(***************************************************************************)
LEMMA CloseKeepsInvariant ==
  ASSUME IInv, NEW p \in Page, Close(p)
  PROVE  IInv'
<1> DEFINE M == UNION {page[x].memory : x \in Page \ {p}}
           C == UNION {page[x].cache : x \in Page \ {p}}
<1>0. /\ TypeOK /\ page'[p] = Closed /\ \A x \in Page : x # p => page'[x] = page[x]
      /\ requests' = {q \in requests : q.page # p}
      /\ gone' = gone \cup page[p].memory \cup page[p].cache
      /\ queue' = queue /\ last' = last /\ opens' = opens /\ stored' = stored
      /\ cached' = cached /\ acked' = acked /\ handed' = handed /\ cut' = cut
      /\ unsaved' = unsaved /\ outlived' = outlived
      /\ late' = late \cup UNION {q.list \cup q.body : q \in Requests(p)}
  BY DEF Close, IInv, TypeOK, Requests
<1>1. /\ Closed.memory = {} /\ Closed.cache = {} /\ Closed.open = FALSE
      /\ Closed \in PageState
  BY DEF Closed, PageState
<1>2. /\ InMemory = M \cup page[p].memory /\ InMemory' = M
      /\ InCache = C \cup page[p].cache /\ InCache' = C
  BY <1>0, <1>1 DEF InMemory, InCache
<1> HIDE DEF M, C
<1>3. TypeOK'
  <2>1. page' \in [Page -> PageState]
    BY <1>1 DEF Close, IInv, TypeOK
  <2>2. page[p].memory \subseteq Record /\ page[p].cache \subseteq Record
    BY <1>0 DEF TypeOK, PageState
  <2>3. /\ gone' \subseteq Record /\ requests' \in SUBSET Request
        /\ late' \subseteq Record
    BY <1>0, <2>2 DEF TypeOK, Requests, Request
  <2> QED BY <1>0, <2>1, <2>3 DEF TypeOK
<1>4. Shared'
  <2>1. requests' \in SUBSET requests
    BY <1>0
  <2> QED BY <1>0, <2>1, FS_Subset DEF IInv, Shared
<1>5. Shut' /\ Alone'
  <2>1. \A q \in requests : q.page \in Page
    BY <1>0 DEF TypeOK, Request
  <2>2. Shut'
    BY <1>0, <1>1, <2>1 DEF IInv, Shut, Closed
  <2>3. Alone'
    BY <1>0, <1>1 DEF IInv, Alone
  <2> QED BY <2>2, <2>3
<1>6. Carried'
  <2> SUFFICES ASSUME NEW q \in requests'
               PROVE  /\ q.keepalive \/ q.owner
                      /\ q.list \subseteq stored /\ q.body \subseteq cached
                      /\ \A x \in Page : x # q.page => q.body \cap page'[x].cache = {}
    BY <1>0 DEF Carried
  <2>1. q \in requests
    BY <1>0
  <2>2. \A x \in Page : page'[x].cache \subseteq page[x].cache
    BY <1>0, <1>1
  <2> QED BY <2>1, <2>2 DEF IInv, Carried
<1>7. Departures'
  <2>1. OneKeepalivePerHide'
    BY <1>0 DEF IInv, Departures, OneKeepalivePerHide
  <2>2. ASSUME NEW q \in requests', q.keepalive
        PROVE  /\ q.episode <= page'[q.page].episode
               /\ q.episode = page'[q.page].episode => Silent(q.page)'
    <3>1. q \in requests /\ q.page \in Page /\ page'[q.page] = page[q.page]
      BY <1>0, <2>2 DEF TypeOK, Request
    <3> QED BY <2>2, <3>1 DEF IInv, Departures, Silent
  <2> QED BY <2>1, <2>2 DEF Departures
<1>8. Numbered'
  BY <1>0, <1>2 DEF IInv, Numbered
<1>9. Accounted' /\ Marked'
  BY <1>0, <1>2 DEF IInv, Accounted, NoCacheLoss, Marked
<1>11. Adrift'
  <2>1. \A q \in Requests(p) : /\ q.list \subseteq stored /\ q.body \subseteq cached
                               /\ \A x \in Page \ {p} : q.body \cap page[x].cache = {}
    BY DEF IInv, Carried, Requests
  <2>2. C \subseteq cached /\ stored \cap cached = {}
    BY <1>2 DEF IInv, Numbered
  <2>3. \A q \in Requests(p) : (q.list \cup q.body) \cap C = {}
    BY <2>1, <2>2 DEF C
  <2>4. late \subseteq stored \cup cached /\ late \cap C = {}
    BY <1>2 DEF IInv, Adrift
  <2> QED BY <1>0, <1>2, <2>1, <2>3, <2>4 DEF Adrift
<1>10. ASSUME NEW x \in Page, page'[x].open
       PROVE  Good(Enter(x)') /\ Lock(Enter(x)') /\ Timed(Enter(x)')
  <2> DEFINE e == Enter(x)'
             s == Enter(x)
  <2>1. e \in HState /\ x # p /\ page[x].open
    BY <1>0, <1>1, <1>3, <1>10, EnterPrime
  <2>2. /\ e.p = x /\ e.pg = page[x] /\ e.queue = queue
        /\ e.requests = {q \in requests : q.page # p}
        /\ e.handed = handed /\ e.cut = cut /\ e.unsaved = unsaved
    BY <1>0, <2>1 DEF Enter
  <2>3. /\ s.p = x /\ s.pg = page[x] /\ s.queue = queue /\ s.requests = requests
        /\ s.handed = handed /\ s.cut = cut /\ s.unsaved = unsaved
    BY DEF Enter
  <2>4. Good(s) /\ Lock(s) /\ Timed(s)
    BY <2>1 DEF IInv, Pages
  <2> HIDE DEF e, s
  <2>5. Stopping(e) /\ Limited(e) /\ Unsent(e) /\ Working(e)
    BY <2>2, <2>3, <2>4 DEF Good, Stopping, Limited, Unsent, Working
  <2>6. Lock(e) /\ Timed(e)
    BY <2>1, <2>2, <2>3, <2>4 DEF Lock, Uniq, Owned, Timed
  <2>7. IsFiniteSet(e.requests)
    BY <1>0, <1>4, <2>2 DEF Shared
  <2> QED BY <2>1, <2>5, <2>6, <2>7 DEF Good, e
<1> QED BY <1>3, <1>4, <1>5, <1>6, <1>7, <1>8, <1>9, <1>10, <1>11 DEF IInv, Pages

LEMMA CloseDelivers ==
  ASSUME IInv, NEW p \in Page, Close(p)
  PROVE  D!Next
<1> DEFINE M == UNION {page[x].memory : x \in Page \ {p}}
           lost == page[p].memory
<1>0. /\ page'[p] = Closed /\ \A x \in Page : x # p => page'[x] = page[x]
      /\ gone' = gone \cup page[p].memory \cup page[p].cache
      /\ queue' = queue /\ stored' = stored /\ acked' = acked /\ cut' = cut
  BY DEF Close, IInv, TypeOK
<1>1. InMemory = M \cup lost /\ InMemory' = M
  <2>1. Closed.memory = {}
    BY DEF Closed
  <2> QED BY <1>0, <2>1 DEF InMemory
<1>2. lost \cap M = {} /\ lost \cap queue = {}
  <2>1. \A x \in Page : x # p => page[p].memory \cap page[x].memory = {}
    BY DEF IInv, Alone
  <2>2. page[p].open
    BY DEF Close
  <2>3. lost \cap queue = {}
    BY <2>2 DEF IInv, Pages, Good, Unsent, Enter
  <2> QED BY <2>1, <2>3
<1>3. lost \subseteq stored /\ page[p].cache \cap stored = {}
  BY DEF IInv, Numbered, InMemory, InCache
<1> HIDE DEF M, lost
<1>4. (InMemory \cup queue) \ (InMemory' \cup queue') = lost
  BY <1>0, <1>1, <1>2
<1>5. (cut' \cup gone') \cap stored' = ((cut \cup gone) \cap stored) \cup lost
  BY <1>0, <1>3 DEF lost
<1> QED BY <1>0, <1>1, <1>4, <1>5 DEF D!Next, D!Lose

LEMMA ClosePromises ==
  ASSUME IInv, NEW p \in Page, Close(p)
  PROVE  NotResent /\ \A x \in Page : Final(x)
<1>0. /\ page'[p] = Closed /\ \A x \in Page : x # p => page'[x] = page[x]
      /\ requests' = {q \in requests : q.page # p}
  BY DEF Close, IInv, TypeOK
<1>1. NotResent
  BY <1>0 DEF NotResent, Started
<1>2. ASSUME NEW x \in Page, page[x].stopped, page'[x].open PROVE Final(x)
  <2>1. x # p /\ page'[x] = page[x]
    BY <1>0, <1>2 DEF Closed
  <2>2. ~page[x].sendTimer /\ ~page[x].pending
    BY <1>2, <2>1 DEF IInv, Pages, Good, Stopping, Enter
  <2>3. Requests(x)' = Requests(x)
    BY <1>0, <2>1 DEF Requests
  <2>4. Cardinality(Requests(x)) \in Nat
    <3>1. Requests(x) \in SUBSET requests /\ IsFiniteSet(requests)
      BY DEF Requests, IInv, Shared
    <3> QED BY <3>1, FS_Subset, FS_CardinalityType
  <2> QED BY <1>2, <2>1, <2>2, <2>3, <2>4 DEF Final
<1> QED BY <1>1, <1>2 DEF Final

-----------------------------------------------------------------------------
(***************************************************************************)
(* A fetch that has outlived its page is delivered.                        *)
(***************************************************************************)
ArriveSame ==
  /\ page' = page /\ queue' = queue /\ requests' = requests /\ last' = last
  /\ opens' = opens /\ stored' = stored /\ cached' = cached /\ handed' = handed
  /\ cut' = cut /\ unsaved' = unsaved /\ gone' = gone

LEMMA ArriveKeepsInvariant ==
  ASSUME IInv, Arrive
  PROVE  IInv'
<1>1. PICK S \in SUBSET late :
        late' = late \ S /\ acked' = acked \cup S /\ outlived' = outlived \cup S
  BY DEF Arrive
<1>2. ArriveSame
  BY DEF Arrive, ArriveSame
<1>3. InMemory' = InMemory /\ InCache' = InCache
  BY <1>2 DEF InMemory, InCache, ArriveSame
<1>4. TypeOK'
  BY <1>1, <1>2 DEF IInv, TypeOK, ArriveSame
<1>5. Pages' /\ Shared' /\ Shut' /\ Alone' /\ Carried' /\ Departures'
  BY <1>2 DEF IInv, Pages, Shared, Shut, Alone, Carried, Departures, Enter, Silent,
              OneKeepalivePerHide, ArriveSame
<1>6. Numbered'
  BY <1>1, <1>2, <1>3 DEF IInv, Numbered, Adrift, ArriveSame
<1>7. Accounted'
  BY <1>1, <1>2, <1>3 DEF IInv, Accounted, NoCacheLoss, ArriveSame
<1>8. Marked' /\ Adrift'
  BY <1>1, <1>2, <1>3 DEF IInv, Marked, Adrift, ArriveSame
<1> QED BY <1>4, <1>5, <1>6, <1>7, <1>8 DEF IInv

LEMMA ArriveDelivers ==
  ASSUME IInv, Arrive
  PROVE  D!Next
<1>1. PICK S \in SUBSET late : acked' = acked \cup S
  BY DEF Arrive
<1>2. /\ InMemory' = InMemory /\ queue' = queue /\ stored' = stored /\ cut' = cut
      /\ gone' = gone
  BY DEF Arrive, InMemory
<1> DEFINE T == S \cap stored
<1>3. T \in SUBSET D!Accepted
  BY DEF IInv, Accounted, D!Accepted
<1>4. acked' \cap stored' = (acked \cap stored) \cup T
  BY <1>1, <1>2
<1> HIDE DEF T
<1>5. D!Confirm(T)
  BY <1>2, <1>4 DEF D!Confirm
<1> QED BY <1>3, <1>5 DEF D!Next

LEMMA ArrivePromises ==
  ASSUME IInv, Arrive
  PROVE  NotResent /\ \A x \in Page : Final(x)
<1>1. page' = page /\ requests' = requests
  BY DEF Arrive
<1>2. NotResent
  BY <1>1 DEF NotResent, Started
<1>3. ASSUME NEW x \in Page, page[x].stopped PROVE Final(x)
  <2>1. page[x].open
    BY <1>3 DEF IInv, Shut, Closed
  <2>2. ~page[x].sendTimer /\ ~page[x].pending
    BY <1>3, <2>1 DEF IInv, Pages, Good, Stopping, Enter
  <2>3. Requests(x)' = Requests(x)
    BY <1>1 DEF Requests
  <2>4. Cardinality(Requests(x)) \in Nat
    <3>1. Requests(x) \in SUBSET requests /\ IsFiniteSet(requests)
      BY DEF Requests, IInv, Shared
    <3> QED BY <3>1, FS_Subset, FS_CardinalityType
  <2> QED BY <1>1, <1>3, <2>2, <2>3, <2>4 DEF Final
<1> QED BY <1>2, <1>3 DEF Final

-----------------------------------------------------------------------------
(***************************************************************************)
(* Each action is a handler.                                               *)
(***************************************************************************)
SomeHandler == \E p, h, f, m, c, K, A : Handled(p, h, f, m, c, K, A)

LEMMA EnterOpen ==
  ASSUME IInv, NEW p \in Page, page[p].open
  PROVE  /\ Good(Enter(p)) /\ Lock(Enter(p)) /\ Timed(Enter(p)) /\ Begins(p, Enter(p))
         /\ Enter(p) \in HState /\ Enter(p).pg = page[p] /\ Enter(p).requests = requests
<1>1. Good(Enter(p)) /\ Lock(Enter(p)) /\ Timed(Enter(p))
  BY DEF IInv, Pages
<1>2. Begins(p, Enter(p)) /\ Enter(p).pg = page[p] /\ Enter(p).requests = requests
  BY DEF Begins, Enter
<1> QED BY <1>1, <1>2 DEF Good

LEMMA FreshFacts ==
  ASSUME IInv, NEW p \in Page, NEW h, Begins(p, h), NEW r \in Record, r > last
  PROVE  Fresh(h, r)
<1>1. /\ page[p].memory \cup queue \subseteq 1 .. last /\ page[p].cache \subseteq 1 .. last
      /\ \A q \in requests : q.list \subseteq 1 .. last
  BY DEF IInv, Numbered, InMemory, InCache, Carried
<1>2. r \notin 1 .. last
  BY DEF IInv, TypeOK
<1> QED BY <1>1, <1>2 DEF Fresh, Begins, Held

\* Without a confirmation there is nothing to avoid.
LEMMA NothingConfirmed == ASSUME NEW h, NEW f PROVE Clean(f, {}) /\ Avoids(h, f, {})
BY DEF Clean, Avoids

LEMMA OptionFacts ==
  /\ {Plain, Now, Memory, Replay, Leaving} \subseteq Options
  /\ \A o \in {Plain, Now, Memory, Replay} : ~o.flush /\ ~o.keepalive
  /\ ~Memory.store /\ ~Memory.immediate /\ Leaving.store
<1>1. /\ Plain \in Options /\ Plain.store = TRUE /\ Plain.flush = FALSE
      /\ Plain.immediate = FALSE /\ Plain.keepalive = FALSE
  BY DEF Plain, Options
<1>2. /\ Now \in Options /\ Now.store = TRUE /\ Now.flush = FALSE
      /\ Now.immediate = TRUE /\ Now.keepalive = FALSE
  BY <1>1 DEF Now, Options
<1>3. /\ Memory \in Options /\ Memory.store = FALSE /\ Memory.flush = FALSE
      /\ Memory.immediate = FALSE /\ Memory.keepalive = FALSE
  BY <1>1 DEF Memory, Options
<1>4. /\ Replay \in Options /\ Replay.store = FALSE /\ Replay.flush = FALSE
      /\ Replay.immediate = TRUE /\ Replay.keepalive = FALSE
  BY <1>3 DEF Replay, Options
<1>5. Leaving \in Options /\ Leaving.store = TRUE
  BY DEF Leaving, Options
<1>6. \A o \in {Plain, Now, Memory, Replay} : o.flush = FALSE /\ o.keepalive = FALSE
  BY <1>1, <1>2, <1>3, <1>4
<1> QED BY <1>1, <1>2, <1>3, <1>4, <1>5, <1>6

LEMMA ReportHandled ==
  ASSUME IInv, NEW p \in Page, Report(p)
  PROVE  SomeHandler
<1> DEFINE h == Enter(p)
           r == last + 1
<1>0. PICK o \in OptionsOf(r) :
        /\ \E x \in Accept(h, r, o) : Leave(x)
        /\ stored' = IF o.store THEN stored \cup {r} ELSE stored
        /\ cached' = IF o.store THEN cached ELSE cached \cup {r}
  BY DEF Report
<1>1. PICK f \in Accept(h, r, o) : Leave(f)
  BY <1>0
<1>2. /\ page[p].open /\ ~page[p].stopped /\ last < NumRecords /\ last' = last + 1
      /\ opens' = opens /\ acked' = acked /\ gone' = gone
      /\ late' = late /\ outlived' = outlived
  BY DEF Report, adrift
<1>3. o \in Options /\ ~o.flush /\ ~o.keepalive
  <2>1. o \in {Plain, Now, Memory, Replay}
    BY <1>0 DEF OptionsOf
  <2> QED BY <2>1, OptionFacts
<1>4. last \in 0 .. NumRecords /\ NumRecords \in Nat
  BY QueueAssumption DEF IInv, TypeOK
<1>5. r \in Record /\ r > last
  BY <1>2, <1>4 DEF Record
<1>6. /\ Good(h) /\ Lock(h) /\ Timed(h) /\ Begins(p, h) /\ h.pg = page[p]
  BY <1>2, EnterOpen
<1> HIDE DEF h
<1>7. Fresh(h, r)
  BY <1>5, <1>6, FreshFacts
<1> DEFINE m == IF o.store THEN {r} ELSE {}
           c == IF o.store THEN {} ELSE {r}
<1>8. Good(f) /\ Lock(f) /\ Timed(f) /\ Went(h, f, m, c, {}, {})
  BY <1>1, <1>2, <1>3, <1>6, <1>7, AcceptFacts
<1>9. Counts(p, m, c, {})
  <2>1. last' \in 0 .. NumRecords /\ r \in (last + 1) .. last' /\ last <= last'
    BY <1>2, <1>4
  <2> QED BY <1>0, <1>2, <2>1 DEF Counts
<1>10. Handled(p, h, f, m, c, {}, {})
  BY <1>1, <1>2, <1>6, <1>8, <1>9, NothingConfirmed DEF Handled, Ends, Departs
<1> QED BY <1>10 DEF SomeHandler

\* A step that accepts no record and learns of no delivery.
LEMMA NothingCounted ==
  ASSUME IInv, NEW p \in Page,
         UNCHANGED <<last, opens, stored, cached, acked, gone, adrift>>
  PROVE  Counts(p, {}, {}, {})
BY DEF Counts, IInv, TypeOK, adrift

LEMMA RunsHandled ==
  ASSUME IInv, NEW p \in Page, page[p].open, NEW h, Begins(p, h), NEW f,
         Good(f), Lock(f), Timed(f), Runs(h, f, {}), Leave(f),
         UNCHANGED <<last, opens, stored, cached, acked, gone, adrift>>
  PROVE  SomeHandler
<1>1. Handled(p, h, f, {}, {}, {}, {})
  BY NothingCounted, NothingConfirmed, RunsWent DEF Handled, Ends, Departs
<1> QED BY <1>1 DEF SomeHandler

LEMMA SendTimerHandled ==
  ASSUME IInv, NEW p \in Page, SendTimer(p)
  PROVE  SomeHandler
<1> DEFINE s == Enter(p)
           h == [s EXCEPT !.pg.sendTimer = FALSE]
<1>1. PICK f \in SendRequest(h, FALSE, 0) : Leave(f)
  BY DEF SendTimer
<1>2. page[p].open
  BY DEF SendTimer, IInv, Shut, Closed
<1>3. /\ Good(s) /\ Lock(s) /\ Timed(s) /\ Begins(p, s) /\ s \in HState
  BY <1>2, EnterOpen
<1> HIDE DEF s
<1>4. h \in HState
  BY <1>3 DEF HState, PageState
<1>5. SameStore(s, h)
  BY <1>3 DEF HState, PageState, SameStore
<1>6. /\ h.pg.sending = s.pg.sending /\ h.pg.stopped = s.pg.stopped
      /\ h.pg.pending = s.pg.pending /\ h.pg.sendTimer = FALSE
      /\ h.pg.failStreak = s.pg.failStreak /\ h.pg.worker = s.pg.worker
  BY <1>3 DEF HState, PageState
<1> HIDE DEF h
<1>7. Stopping(h)
  BY <1>3, <1>6 DEF Good, Stopping
<1>8. Good(h) /\ Timed(h) /\ Locks(s, h)
  BY <1>3, <1>4, <1>5, <1>6, <1>7, StoreFacts
<1>9. Lock(h)
  BY <1>3, <1>5, <1>6 DEF Lock, Uniq, Owned, SameStore
<1>10. Begins(p, h)
  BY <1>3, <1>5, <1>6 DEF Begins, SameStore
<1>11. Good(f) /\ Lock(f) /\ Timed(f) /\ Runs(h, f, {})
  BY <1>1, <1>8, <1>9, SendFacts
<1>12. UNCHANGED <<last, opens, stored, cached, acked, gone, adrift>>
  BY DEF SendTimer
<1> QED BY <1>1, <1>2, <1>10, <1>11, <1>12, RunsHandled

LEMMA FlushTimerHandled ==
  ASSUME IInv, NEW p \in Page, FlushTimer(p)
  PROVE  SomeHandler
<1> DEFINE s == Enter(p)
           h == [s EXCEPT !.pg.flushDue = FALSE]
<1>1. PICK f \in FlushMemoryToStorage(h) : Leave(f)
  BY DEF FlushTimer
<1>2. page[p].open /\ page[p].flushDue
  BY DEF FlushTimer, IInv, Shut, Closed
<1>3. /\ Good(s) /\ Lock(s) /\ Timed(s) /\ Begins(p, s) /\ s \in HState /\ s.pg = page[p]
  BY <1>2, EnterOpen
<1> HIDE DEF s
<1>4. h \in HState
  BY <1>3 DEF HState, PageState
<1>5. SameControl(s, h)
  BY <1>3 DEF HState, PageState, SameControl
<1>6. /\ h.pg.memory = s.pg.memory /\ h.pg.cache = s.pg.cache /\ h.queue = s.queue
      /\ h.handed = s.handed /\ h.cut = s.cut /\ h.unsaved = s.unsaved
  BY <1>3 DEF HState, PageState
<1> HIDE DEF h
<1>7. Good(h)
  <2>1. Limited(h) /\ Unsent(h)
    BY <1>3, <1>5, <1>6 DEF Good, Limited, Unsent, SameControl
  <2> QED BY <1>3, <1>4, <1>5, <2>1, ControlFacts DEF Good
<1>8. Lock(h)
  BY <1>3, <1>5 DEF Lock, Uniq, Owned, SameControl
<1>9. h.pg.memory # {} \/ Timed(h)
  BY <1>2, <1>3, <1>6 DEF Timed
<1>10. Begins(p, h)
  BY <1>3, <1>5, <1>6 DEF Begins, SameControl
<1>11. Good(f) /\ Timed(f) /\ Runs(h, f, {}) /\ Locks(h, f)
  BY <1>1, <1>7, <1>9, FlushFacts
<1>12. Lock(f)
  BY <1>8, <1>11 DEF Lock, Locks
<1>13. UNCHANGED <<last, opens, stored, cached, acked, gone, adrift>>
  BY DEF FlushTimer
<1> QED BY <1>1, <1>2, <1>10, <1>11, <1>12, <1>13, RunsHandled

LEMMA ExhaustedHandled ==
  ASSUME IInv, NEW p \in Page, WorkerExhausted(p)
  PROVE  SomeHandler
<1>1. /\ page[p].open /\ Leave(Abort(Enter(p)))
      /\ UNCHANGED <<last, opens, stored, cached, acked, gone, adrift>>
  BY DEF WorkerExhausted
<1>2. Good(Enter(p)) /\ Lock(Enter(p)) /\ Timed(Enter(p)) /\ Begins(p, Enter(p))
  BY <1>1, EnterOpen
<1> DEFINE f == Abort(Enter(p))
<1>3. Good(f) /\ Runs(Enter(p), f, {}) /\ Locks(Enter(p), f) /\ Timed(f)
  BY <1>2, AbortFacts
<1>4. Lock(f)
  BY <1>2, <1>3 DEF Lock, Locks
<1> HIDE DEF f
<1> QED BY <1>1, <1>2, <1>3, <1>4, RunsHandled DEF f

-----------------------------------------------------------------------------
(***************************************************************************)
(* A request settles.                                                      *)
(***************************************************************************)

\* What a request carries is apart from what its page holds.
LEMMA RequestFacts ==
  ASSUME IInv, NEW q \in requests
  PROVE  LET p == q.page
         IN  /\ p \in Page /\ page[p].open /\ q \in Request
             /\ q.list \cap (page[p].memory \cup page[p].cache) = {}
             /\ q.body \cap (page[p].memory \cup queue) = {}
             /\ q.list \cup q.body \subseteq stored \cup cached
             /\ \A x \in Page : x # p =>
                  (q.list \cup q.body) \cap (page[x].memory \cup page[x].cache) = {}
             /\ WorkerFails \/ Whole(q)
<1> DEFINE p == q.page
<1>1. q \in Request /\ p \in Page /\ page[p].open
  BY DEF IInv, TypeOK, Request, Shut
<1>2. /\ q.list \subseteq stored /\ q.body \subseteq cached /\ stored \cap cached = {}
      /\ \A x \in Page : page[x].memory \subseteq stored /\ page[x].cache \subseteq cached
      /\ queue \subseteq stored
  BY DEF IInv, Carried, Numbered, InMemory, InCache
<1>3. \A x \in Page : x # p => q.body \cap page[x].cache = {}
  BY DEF IInv, Carried
<1>4. \A x \in Page : q.list \cap page[x].memory = {}
  <2> TAKE x \in Page
  <2>1. CASE page[x].open
    BY <2>1 DEF IInv, Pages, Good, Unsent, Enter
  <2>2. CASE ~page[x].open
    BY <2>2 DEF IInv, Shut, Closed
  <2> QED BY <2>1, <2>2
<1>5. WorkerFails \/ Whole(q)
  BY <1>1 DEF IInv, Pages, Good, Working, Enter
<1> HIDE DEF p
<1>6. q.list \cap (page[p].memory \cup page[p].cache) = {}
  BY <1>1, <1>2, <1>4
<1>7. q.body \cap (page[p].memory \cup queue) = {}
  BY <1>1, <1>2
<1>8. \A x \in Page : x # p =>
        (q.list \cup q.body) \cap (page[x].memory \cup page[x].cache) = {}
  BY <1>2, <1>3, <1>4
<1> QED BY <1>1, <1>2, <1>5, <1>6, <1>7, <1>8 DEF p

\* A handler without the request q.
LEMMA WithoutRequest ==
  ASSUME IInv, NEW q \in requests, NEW h \in HState,
         SameStore([Enter(q.page) EXCEPT !.requests = @ \ {q}], h),
         h.pg = page[q.page]
  PROVE  /\ Good(h) /\ Timed(h) /\ Uniq(h) /\ Begins(q.page, h) /\ Apart(h, q)
         /\ q.owner => ~Owned(h)
         /\ h.pg.sending <=> q.owner \/ Owned(h)
<1> DEFINE p == q.page
           s == Enter(p)
<1>1. /\ q \in Request /\ p \in Page /\ page[p].open
      /\ q.list \cap (page[p].memory \cup page[p].cache) = {}
      /\ q.body \cap (page[p].memory \cup queue) = {}
  BY RequestFacts
<1>2. Good(s) /\ Lock(s) /\ Timed(s) /\ Begins(p, s) /\ s \in HState /\ s.pg = page[p]
  BY <1>1, EnterOpen
<1>3. s.requests = requests /\ s.p = p /\ s.queue = queue
  BY DEF Enter
<1> HIDE DEF s, p
<1>4. /\ h.p = p /\ h.queue = s.queue /\ h.cut = s.cut /\ h.unsaved = s.unsaved
      /\ h.handed = s.handed /\ h.requests = requests \ {q} /\ h.pg = s.pg
  BY <1>2, <1>3 DEF SameStore, HState, s, p
<1>5. Good(h)
  <2>1. h.requests \in SUBSET s.requests
    BY <1>3, <1>4
  <2>2. IsFiniteSet(h.requests)
    BY <1>2, <2>1, FS_Subset DEF Good
  <2>3. Stopping(h) /\ Limited(h) /\ Unsent(h) /\ Working(h)
    BY <1>2, <1>4, <2>1 DEF Good, Stopping, Limited, Unsent, Working
  <2> QED BY <2>2, <2>3 DEF Good
<1>6. Timed(h) /\ Begins(p, h)
  <2>1. Timed(h)
    BY <1>2, <1>4 DEF Timed
  <2>2. \A r \in requests : r.page # p => r \in h.requests
    BY <1>4 DEF p
  <2>3. h.requests \subseteq requests
    BY <1>4
  <2> QED BY <1>2, <1>4, <2>1, <2>2, <2>3 DEF Begins
<1>7. Apart(h, q)
  BY <1>1, <1>2, <1>3, <1>4 DEF Apart, Held
<1>8. Uniq(h) /\ (q.owner => ~Owned(h)) /\ (h.pg.sending <=> q.owner \/ Owned(h))
  <2>1. Uniq(s) /\ (s.pg.sending <=> Owned(s))
    BY <1>2 DEF Lock
  <2>2. q.page = p
    BY DEF p
  <2>3. Uniq(h)
    BY <1>3, <1>4, <2>1 DEF Uniq
  <2>4. q.owner => ~Owned(h)
    BY <1>3, <1>4, <2>1, <2>2 DEF Uniq, Owned
  <2>5. Owned(s) <=> q.owner \/ Owned(h)
    BY <1>3, <1>4, <2>2 DEF Owned
  <2> QED BY <1>4, <2>1, <2>3, <2>4, <2>5
<1> QED BY <1>5, <1>6, <1>7, <1>8 DEF p

\* A step that confirms records of the request q.
LEMMA Confirmed ==
  ASSUME IInv, NEW q \in requests, NEW A \in SUBSET (q.list \cup q.body),
         acked' = acked \cup A, UNCHANGED <<last, opens, stored, cached, gone, adrift>>
  PROVE  Counts(q.page, {}, {}, A)
<1>1. /\ A \subseteq stored \cup cached
      /\ \A x \in Page : x # q.page => A \cap (page[x].memory \cup page[x].cache) = {}
  BY RequestFacts
<1> QED BY <1>1 DEF Counts, IInv, TypeOK, adrift

LEMMA NormalHandled ==
  ASSUME IInv, NEW q \in requests, CompleteNormal(q)
  PROVE  SomeHandler
<1> DEFINE p == q.page
           A(ok) == IF ok THEN q.list \cup q.body ELSE {}
<1>1. PICK ok \in BOOLEAN :
        /\ \E f \in NormalSettles(q, ok) : Leave(f)
        /\ acked' = IF ok THEN acked \cup q.list \cup q.body ELSE acked
  BY DEF CompleteNormal
<1>2. PICK f \in NormalSettles(q, ok) : Leave(f)
  BY <1>1
<1>3. ~q.keepalive /\ UNCHANGED <<last, opens, stored, cached, gone, adrift>>
  BY DEF CompleteNormal
<1>4. /\ q \in Request /\ p \in Page /\ page[p].open /\ (WorkerFails \/ Whole(q))
  BY RequestFacts
<1>5. q.owner
  BY <1>3 DEF IInv, Carried
<1> DEFINE s == Enter(p)
           e == [s EXCEPT !.requests = @ \ {q}]
           h == [e EXCEPT !.failed = ~ok]
<1>6. s \in HState /\ s.pg = page[p]
  BY <1>4, EnterOpen
<1>7. h \in HState /\ SameStore(e, h) /\ h.pg = page[p] /\ h.failed = ~ok
  <2> HIDE DEF s
  <2>1. e \in HState /\ e.pg = page[p]
    BY <1>6 DEF HState
  <2> HIDE DEF e
  <2> QED BY <2>1 DEF HState, SameStore
<1>8. /\ Good(h) /\ Timed(h) /\ Begins(p, h) /\ Apart(h, q) /\ Taken(h)
  BY <1>5, <1>7, WithoutRequest DEF Taken
<1>9. h = [Enter(q.page) EXCEPT !.requests = @ \ {q}, !.failed = ~ok]
  OBVIOUS
<1> HIDE DEF h
<1> DEFINE post  == IF q.worker THEN PostWorkerCache(h, HeldCache(h, q)) ELSE {h}
           clean == IF ok THEN UNION {RemoveSentRecords(x, q.list) : x \in post}
                          ELSE post
           drop  == IF ok /\ ~q.worker
                    THEN {DropRefs(x, HeldCache(x, q)) : x \in clean}
                    ELSE clean
<1>10. f \in UNION {FollowUp(Settle(x), x.pg.pending) : x \in drop}
  BY <1>2, <1>9 DEF NormalSettles
<1> HIDE DEF drop
<1>11. PICK d \in drop : f \in FollowUp(Settle(d), d.pg.pending)
  BY <1>10
<1> HIDE DEF clean
<1>12. PICK b \in clean : d = IF ok /\ ~q.worker THEN DropRefs(b, HeldCache(b, q)) ELSE b
  BY <1>11 DEF drop
<1> HIDE DEF post
<1>13. PICK a \in post : b \in IF ok THEN RemoveSentRecords(a, q.list) ELSE {a}
  BY <1>12 DEF clean
<1>14. a \in IF q.worker THEN PostWorkerCache(h, HeldCache(h, q)) ELSE {h}
  BY <1>13 DEF post
<1>15. /\ Good(f) /\ Lock(f) /\ Timed(f)
       /\ Went(h, f, {}, {}, {}, A(ok)) /\ Clean(f, A(ok)) /\ Avoids(h, f, A(ok))
  BY <1>3, <1>4, <1>7, <1>8, <1>11, <1>12, <1>13, <1>14, NormalFacts
<1>16. Counts(p, {}, {}, A(ok))
  <2>1. A(ok) \in SUBSET (q.list \cup q.body) /\ acked' = acked \cup A(ok)
    BY <1>1
  <2> QED BY <1>3, <2>1, Confirmed
<1> HIDE DEF A, p
<1>17. Handled(p, h, f, {}, {}, {}, A(ok))
  BY <1>2, <1>4, <1>8, <1>15, <1>16 DEF Handled, Ends, Departs
<1> QED BY <1>17 DEF SomeHandler

LEMMA KeepaliveHandled ==
  ASSUME IInv, NEW q \in requests, CompleteKeepalive(q)
  PROVE  SomeHandler
<1> DEFINE p == q.page
<1>1. PICK done \in SUBSET (q.list \cup q.body) :
        (\E f \in KeepaliveSettles(q, done) : Leave(f)) /\ acked' = acked \cup done
  BY DEF CompleteKeepalive
<1>2. PICK f \in KeepaliveSettles(q, done) : Leave(f)
  BY <1>1
<1>3. q.keepalive /\ UNCHANGED <<last, opens, stored, cached, gone, adrift>>
  BY DEF CompleteKeepalive
<1>4. /\ q \in Request /\ p \in Page /\ page[p].open /\ (WorkerFails \/ Whole(q))
  BY RequestFacts
<1> DEFINE s == Enter(p)
           h == [s EXCEPT !.requests = @ \ {q}]
<1>5. s \in HState /\ s.pg = page[p]
  BY <1>4, EnterOpen
<1>6. h \in HState /\ SameStore(h, h) /\ h.pg = page[p]
  <2> HIDE DEF s
  <2> QED BY <1>5 DEF HState, SameStore
<1>7. /\ Good(h) /\ Timed(h) /\ Uniq(h) /\ Begins(p, h) /\ Apart(h, q)
      /\ q.owner => ~Owned(h)
      /\ h.pg.sending <=> q.owner \/ Owned(h)
  BY <1>6, WithoutRequest
<1> HIDE DEF s
<1> DEFINE array == HeldCache(h, q)
           sent  == {r \in array : \E d \in done \cap q.body :
                                      Rank(array, r) = Rank(q.body, d)}
           F(x)  == [DropRefs(x, sent) EXCEPT !.pg.sending = @ /\ ~q.owner]
<1>8. KeepaliveSettles(q, done) = {F(x) : x \in RemoveSentRecords(h, done \cap q.list)}
  BY Zenon DEF KeepaliveSettles, s
<1> HIDE DEF h, F
<1>9. \E x \in RemoveSentRecords(h, done \cap q.list) : f = F(x)
  BY <1>2, <1>8
<1>10. sent = {r \in HeldCache(h, q) : \E d \in done \cap q.body :
                                Rank(HeldCache(h, q), r) = Rank(q.body, d)}
  OBVIOUS
<1>11. PICK b \in RemoveSentRecords(h, done \cap q.list) :
          f = [DropRefs(b, sent) EXCEPT !.pg.sending = @ /\ ~q.owner]
  BY <1>9 DEF F
<1> HIDE DEF sent, array
<1>12. /\ Good(f) /\ Lock(f) /\ Timed(f)
       /\ Went(h, f, {}, {}, {}, done) /\ Clean(f, done) /\ Avoids(h, f, done)
  BY <1>3, <1>4, <1>7, <1>10, <1>11, KeepaliveFacts
<1>13. Counts(p, {}, {}, done)
  BY <1>1, <1>3, Confirmed
<1> HIDE DEF p
<1>14. Handled(p, h, f, {}, {}, {}, done)
  BY <1>2, <1>4, <1>7, <1>12, <1>13 DEF Handled, Ends, Departs
<1> QED BY <1>14 DEF SomeHandler

-----------------------------------------------------------------------------
(***************************************************************************)
(* The page is hidden or left.                                             *)
(***************************************************************************)

\* The handler of a page that is left has taken note of that.
LEMMA LeavingFacts ==
  ASSUME IInv, NEW p \in Page, page[p].open, NEW visible \in BOOLEAN
  PROVE  LET h == [Enter(p) EXCEPT !.pg.visible = visible, !.pg.hiddenReported = TRUE]
         IN  /\ Good(h) /\ Lock(h) /\ Timed(h) /\ Begins(p, h)
             /\ h.pg.hiddenReported /\ h.pg.stopped = page[p].stopped
<1> DEFINE s == Enter(p)
           e == [s EXCEPT !.pg.visible = visible]
           h == [e EXCEPT !.pg.hiddenReported = TRUE]
<1>1. Good(s) /\ Lock(s) /\ Timed(s) /\ Begins(p, s) /\ s \in HState /\ s.pg = page[p]
  BY EnterOpen
<1> HIDE DEF s
<1>2. e \in HState
  BY <1>1 DEF HState, PageState
<1>3. /\ e.p = s.p /\ e.queue = s.queue /\ e.cut = s.cut /\ e.unsaved = s.unsaved
      /\ e.handed = s.handed /\ e.requests = s.requests
      /\ e.pg.memory = s.pg.memory /\ e.pg.cache = s.pg.cache
      /\ e.pg.flushSet = s.pg.flushSet /\ e.pg.flushDue = s.pg.flushDue
      /\ e.pg.sendTimer = s.pg.sendTimer /\ e.pg.sending = s.pg.sending
      /\ e.pg.pending = s.pg.pending /\ e.pg.failStreak = s.pg.failStreak
      /\ e.pg.stopped = s.pg.stopped /\ e.pg.worker = s.pg.worker
      /\ e.pg.open = s.pg.open /\ e.pg.episode = s.pg.episode /\ e.pg.mine = s.pg.mine
  BY <1>1 DEF HState, PageState
<1> HIDE DEF e
<1>4. h \in HState
  BY <1>2 DEF HState, PageState
<1>5. /\ h.p = e.p /\ h.queue = e.queue /\ h.cut = e.cut /\ h.unsaved = e.unsaved
      /\ h.handed = e.handed /\ h.requests = e.requests
      /\ h.pg.memory = e.pg.memory /\ h.pg.cache = e.pg.cache
      /\ h.pg.flushSet = e.pg.flushSet /\ h.pg.flushDue = e.pg.flushDue
      /\ h.pg.sendTimer = e.pg.sendTimer /\ h.pg.sending = e.pg.sending
      /\ h.pg.pending = e.pg.pending /\ h.pg.failStreak = e.pg.failStreak
      /\ h.pg.stopped = e.pg.stopped /\ h.pg.worker = e.pg.worker
      /\ h.pg.open = e.pg.open /\ h.pg.episode = e.pg.episode /\ h.pg.mine = e.pg.mine
      /\ h.pg.hiddenReported = TRUE
  BY <1>2 DEF HState, PageState
<1> HIDE DEF h
<1>6. Stopping(h) /\ Limited(h) /\ Unsent(h) /\ Working(h) /\ IsFiniteSet(h.requests)
  BY <1>1, <1>3, <1>5 DEF Good, Stopping, Limited, Unsent, Working
<1>7. Lock(h)
  BY <1>1, <1>3, <1>5 DEF Lock, Uniq, Owned
<1>8. Timed(h)
  BY <1>1, <1>3, <1>5 DEF Timed
<1>9. Begins(p, h)
  BY <1>1, <1>3, <1>5 DEF Begins
<1>10. Good(h) /\ h.pg.stopped = page[p].stopped
  BY <1>1, <1>3, <1>4, <1>5, <1>6 DEF Good
<1>11. h = [Enter(p) EXCEPT !.pg.visible = visible, !.pg.hiddenReported = TRUE]
  BY DEF h, e, s
<1> QED BY <1>5, <1>7, <1>8, <1>9, <1>10, <1>11

\* What the recorder hands over.
LEMMA CollectFacts ==
  ASSUME NEW h, Good(h), Lock(h), Timed(h), NEW r, r \in Track /\ ~h.pg.stopped => Fresh(h, r),
         NEW f \in Collect(h, r), NEW c, c = IF r \in Track /\ ~h.pg.stopped THEN {r} ELSE {}
  PROVE  /\ Good(f) /\ Lock(f) /\ Timed(f) /\ Went(h, f, {}, c, {}, {})
         /\ ~h.pg.stopped => ~f.pg.stopped
<1>1. CASE r \in Track /\ ~h.pg.stopped
  <2>1. f \in Accept(h, r, Memory) /\ c = {r}
    BY <1>1 DEF Collect
  <2>2. /\ Memory \in Options /\ ~Memory.flush /\ ~Memory.keepalive
        /\ ~Memory.store /\ ~Memory.immediate
    BY OptionFacts
  <2>3. /\ Good(f) /\ Lock(f) /\ (Timed(h) => Timed(f)) /\ ~f.pg.stopped
        /\ Went(h, f, IF Memory.store THEN {r} ELSE {},
                      IF Memory.store THEN {} ELSE {r}, {}, {})
    BY <1>1, <2>1, <2>2, AcceptFacts
  <2> QED BY <2>1, <2>2, <2>3
<1>2. CASE ~(r \in Track /\ ~h.pg.stopped)
  <2>1. f = h /\ c = {}
    BY <1>2 DEF Collect
  <2> QED BY <2>1, RunsNothing, RunsWent
<1> QED BY <1>1, <1>2

\* A record that is fresh stays so while others are accepted.
LEMMA StillFresh ==
  ASSUME NEW h, NEW f, NEW r, NEW n, Fresh(h, r), r \notin n, Went(h, f, {}, n, {}, {})
  PROVE  Fresh(f, r)
<1>1. /\ Held(f) \subseteq Held(h) /\ f.pg.cache \subseteq h.pg.cache \cup n
  BY DEF Went, Drops, Yields
<1>2. \A q \in f.requests : (\E o \in h.requests : q.list = o.list) \/ q.list \subseteq Held(h)
  BY DEF Went, Asks, SameSend, NewSend
<1> QED BY <1>1, <1>2 DEF Fresh

LEMMA LeaveHandled ==
  ASSUME IInv, NEW p \in Page, page[p].open, Lifecycle, NEW visible \in BOOLEAN,
         LeavePage(p, visible)
  PROVE  SomeHandler
<1> DEFINE h       == [Enter(p) EXCEPT !.pg.visible = visible, !.pg.hiddenReported = TRUE]
           silent  == Silent(p)
           t       == last + 1
           collect == t \in Track /\ ~page[p].stopped
           l       == IF collect THEN last + 2 ELSE last + 1
           c       == IF collect THEN {t} ELSE {}
           m       == IF silent THEN {} ELSE {l}
<1>1. /\ ~silent => l <= NumRecords
      /\ last' = IF silent THEN (IF collect THEN t ELSE last) ELSE l
      /\ cached' = IF collect THEN cached \cup {t} ELSE cached
      /\ stored' = IF silent THEN stored ELSE stored \cup {l}
      /\ opens' = opens /\ acked' = acked /\ gone' = gone
      /\ late' = late /\ outlived' = outlived
  BY DEF LeavePage, adrift
<1>2. PICK g \in Collect(h, t) : \E x \in IF silent THEN {g} ELSE Accept(g, l, Leaving) : Leave(x)
  BY DEF LeavePage
<1>3. PICK f \in IF silent THEN {g} ELSE Accept(g, l, Leaving) : Leave(f)
  BY <1>2
<1>4. last \in 0 .. NumRecords /\ NumRecords \in Nat /\ Track \subseteq 1 .. NumRecords
  BY QueueAssumption DEF IInv, TypeOK, Record
<1>5. /\ Good(h) /\ Lock(h) /\ Timed(h) /\ Begins(p, h)
      /\ h.pg.hiddenReported /\ h.pg.stopped = page[p].stopped
  BY LeavingFacts
<1> HIDE DEF h
<1>6. collect => t \in Record /\ t > last
  BY <1>4 DEF Record
<1>7. /\ Good(g) /\ Lock(g) /\ Timed(g) /\ Went(h, g, {}, c, {}, {})
      /\ ~page[p].stopped => ~g.pg.stopped
  <2>1. t \in Track /\ ~h.pg.stopped => Fresh(h, t)
    BY <1>5, <1>6, FreshFacts
  <2> QED BY <1>2, <1>5, <2>1, CollectFacts
<1>8. ASSUME ~silent
      PROVE  /\ Good(f) /\ Lock(f) /\ Timed(f) /\ Went(g, f, {l}, {}, {l}, {})
             /\ {l} \cap Held(h) = {}
  <2>1. ~page[p].stopped
    BY <1>8 DEF Silent
  <2>2. l \in Record /\ l > last /\ l \notin c
    BY <1>1, <1>4, <1>8 DEF Record
  <2>3. Fresh(h, l)
    BY <1>5, <2>2, FreshFacts
  <2>4. Fresh(g, l)
    BY <1>7, <2>2, <2>3, StillFresh
  <2>5. f \in Accept(g, l, Leaving)
    BY <1>3, <1>8
  <2>6. Leaving \in Options /\ Leaving.store
    BY OptionFacts
  <2> HIDE DEF l, silent, c
  <2>7. /\ Good(f) /\ Lock(f) /\ (Timed(g) => Timed(f))
        /\ Went(g, f, IF Leaving.store THEN {l} ELSE {},
                      IF Leaving.store THEN {} ELSE {l}, {l}, {})
    BY <1>7, <2>1, <2>4, <2>5, <2>6, AcceptFacts
  <2>8. {l} \cap Held(h) = {}
    BY <2>3 DEF Fresh
  <2> QED BY <1>7, <2>6, <2>7, <2>8
<1> HIDE DEF c, m
<1>9. Good(f) /\ Lock(f) /\ Timed(f) /\ Went(h, f, m, c, m, {})
  <2>1. CASE silent
    <3>1. f = g /\ m = {}
      BY <1>3, <2>1 DEF m
    <3> QED BY <1>7, <3>1
  <2>2. CASE ~silent
    <3>1. m = {l}
      BY <2>2 DEF m
    <3> HIDE DEF l, silent
    <3>2. /\ Good(f) /\ Lock(f) /\ Timed(f) /\ Went(g, f, m, {}, m, {})
          /\ m \cap (Held(h) \cup {}) = {}
      BY <1>8, <2>2, <3>1
    <3>3. Went(h, f, {} \cup m, c \cup {}, {} \cup m, {} \cup {})
      BY <1>5, <1>7, <3>2, WentTrans
    <3>4. {} \cup m = m /\ c \cup {} = c
      OBVIOUS
    <3> QED BY <3>2, <3>3, <3>4
  <2> QED BY <2>1, <2>2
<1>10. Counts(p, m, c, {})
  <2>1. /\ last' \in 0 .. NumRecords /\ last <= last'
        /\ m \cup c \subseteq (last + 1) .. last' /\ m \cap c = {}
    BY <1>1, <1>4 DEF m, c
  <2>2. m = {} \/ \E r : m = {r}
    BY DEF m
  <2>3. stored' = stored \cup m /\ cached' = cached \cup c
    BY <1>1 DEF m, c
  <2>4. page[p].stopped => m = {} /\ c = {}
    BY DEF m, c, Silent
  <2> QED BY <1>1, <2>1, <2>2, <2>3, <2>4 DEF Counts
<1>11. Departs(p, h, m)
  BY <1>5 DEF Departs, m
<1>12. Handled(p, h, f, m, c, m, {})
  BY <1>3, <1>5, <1>9, <1>10, <1>11, NothingConfirmed DEF Handled, Ends
<1> QED BY <1>12 DEF SomeHandler

-----------------------------------------------------------------------------
(***************************************************************************)
(* The steps.                                                              *)
(***************************************************************************)
SomeQuiet == \E p, g : Quiet(p, g)

LEMMA OpenQuiet ==
  ASSUME IInv, NEW p \in Page, Open(p)
  PROVE  SomeQuiet
<1>1. PICK w \in (IF WorkerStarts THEN {TRUE} ELSE {}) \cup
                 (IF WorkerFails THEN {FALSE} ELSE {}) :
        page' = [page EXCEPT ![p] = [Closed EXCEPT !.open = TRUE, !.worker = w]]
  BY DEF Open
<1>2. w \in BOOLEAN /\ (WorkerFails \/ w)
  BY <1>1
<1> DEFINE g == [Closed EXCEPT !.open = TRUE, !.worker = w]
<1>3. /\ g \in PageState /\ g.open = TRUE /\ g.worker = w /\ g.memory = {} /\ g.cache = {}
      /\ g.flushSet = FALSE /\ g.flushDue = FALSE /\ g.sendTimer = FALSE
      /\ g.sending = FALSE /\ g.pending = FALSE /\ g.failStreak = 0
      /\ g.stopped = FALSE /\ g.mine = {} /\ g.episode = 0
  BY <1>2 DEF Closed, PageState
<1>4. page' = [page EXCEPT ![p] = g] /\ page[p] = Closed /\ SameRecords /\ opens' \in Nat
  <2>1. page' = [page EXCEPT ![p] = g]
    BY <1>1
  <2>2. page[p] = Closed /\ opens \in Nat
    BY DEF Open, IInv, Shut, TypeOK
  <2>3. SameRecords /\ opens' = opens + 1
    BY DEF Open, SameRecords, adrift
  <2> HIDE DEF g
  <2> QED BY <2>1, <2>2, <2>3
<1>5. /\ Closed.memory = {} /\ Closed.cache = {}
      /\ Closed.flushSet = FALSE /\ Closed.flushDue = FALSE /\ Closed.sendTimer = FALSE
      /\ Closed.sending = FALSE /\ Closed.pending = FALSE /\ Closed.failStreak = 0
      /\ Closed.stopped = FALSE /\ Closed.mine = {} /\ Closed.episode = 0
      /\ Closed.hiddenReported = FALSE
  BY DEF Closed
<1> HIDE DEF g
<1>6. WorkerFails \/ g.worker
  BY <1>2, <1>3
<1>7. ~Silent(p)
  BY <1>4, <1>5 DEF Silent
<1>8. /\ g.memory = page[p].memory /\ g.cache = page[p].cache
      /\ g.flushSet = page[p].flushSet /\ g.flushDue = page[p].flushDue
      /\ g.sendTimer = page[p].sendTimer /\ g.sending = page[p].sending
      /\ g.pending = page[p].pending /\ g.failStreak = page[p].failStreak
      /\ g.stopped = page[p].stopped /\ g.mine = page[p].mine
      /\ g.episode = 0 /\ page[p].episode = 0
  BY <1>3, <1>4, <1>5
<1>9. g.episode >= page[p].episode
  BY <1>8
<1>10. Quiet(p, g)
  BY <1>3, <1>4, <1>6, <1>7, <1>8, <1>9 DEF Quiet
<1> QED BY <1>10 DEF SomeQuiet

\* The fields of a page that stay as they are.
SameFields(p, g) ==
  /\ g.memory = page[p].memory /\ g.cache = page[p].cache
  /\ g.flushSet = page[p].flushSet /\ g.flushDue = page[p].flushDue
  /\ g.sendTimer = page[p].sendTimer /\ g.sending = page[p].sending
  /\ g.pending = page[p].pending /\ g.failStreak = page[p].failStreak
  /\ g.stopped = page[p].stopped /\ g.mine = page[p].mine /\ g.open = page[p].open

LEMMA HideQuiet ==
  ASSUME IInv, NEW p \in Page, Hide(p), page[p].hiddenReported
  PROVE  SomeQuiet
<1> DEFINE g == [page[p] EXCEPT !.visible = FALSE]
<1>1. /\ page' = [page EXCEPT ![p] = g] /\ page[p].open /\ page[p] \in PageState
      /\ SameRecords /\ opens' \in Nat
  BY DEF Hide, IInv, TypeOK, SameRecords, adrift
<1>2. /\ g \in PageState /\ SameFields(p, g) /\ g.worker = page[p].worker
      /\ g.episode = page[p].episode /\ g.hiddenReported = page[p].hiddenReported
  BY <1>1 DEF PageState, SameFields
<1> HIDE DEF g
<1>3. g.episode \in Nat
  BY <1>2 DEF PageState
<1>4. Quiet(p, g)
  BY <1>1, <1>2, <1>3 DEF Quiet, SameFields
<1> QED BY <1>4 DEF SomeQuiet

LEMMA ShowQuiet ==
  ASSUME IInv, NEW p \in Page, Show(p)
  PROVE  SomeQuiet
<1> DEFINE n == IF page[p].stopped THEN page[p].episode ELSE page[p].episode + 1
           g == [page[p] EXCEPT !.visible = TRUE, !.hiddenReported = FALSE, !.episode = n]
<1>1. /\ page' = [page EXCEPT ![p] = g] /\ page[p].open /\ page[p] \in PageState
      /\ SameRecords /\ opens' \in Nat
  BY DEF Show, IInv, TypeOK, SameRecords, adrift
<1>2. /\ n \in Nat /\ n >= page[p].episode /\ page[p].episode \in Nat
      /\ n = page[p].episode => page[p].stopped
  BY <1>1 DEF PageState
<1> HIDE DEF n
<1>3. /\ g \in PageState /\ SameFields(p, g) /\ g.worker = page[p].worker
      /\ g.episode = n
  BY <1>1, <1>2 DEF PageState, SameFields
<1> HIDE DEF g
<1>4. Quiet(p, g)
  BY <1>1, <1>2, <1>3 DEF Quiet, SameFields
<1> QED BY <1>4 DEF SomeQuiet

LEMMA ExceptionQuiet ==
  ASSUME IInv, NEW p \in Page, WorkerException(p)
  PROVE  SomeQuiet
<1> DEFINE g == [page[p] EXCEPT !.worker = FALSE]
<1>1. /\ page' = [page EXCEPT ![p] = g] /\ page[p].open /\ page[p] \in PageState
      /\ SameRecords /\ opens' \in Nat /\ WorkerFails
  BY DEF WorkerException, IInv, TypeOK, SameRecords, adrift
<1>2. /\ g \in PageState /\ SameFields(p, g)
      /\ g.episode = page[p].episode /\ g.hiddenReported = page[p].hiddenReported
  BY <1>1 DEF PageState, SameFields
<1> HIDE DEF g
<1>3. g.episode \in Nat
  BY <1>2 DEF PageState
<1>4. Quiet(p, g)
  BY <1>1, <1>2, <1>3 DEF Quiet, SameFields, Silent
<1> QED BY <1>4 DEF SomeQuiet

LEMMA StepKind ==
  ASSUME IInv, [Next]_vars
  PROVE  \/ SomeHandler
         \/ SomeQuiet
         \/ \E p \in Page : Close(p)
         \/ Arrive
         \/ UNCHANGED vars
<1>1. ASSUME NEW p \in Page, Hide(p) PROVE SomeHandler \/ SomeQuiet
  <2>1. CASE page[p].hiddenReported
    BY <1>1, <2>1, HideQuiet
  <2>2. CASE ~page[p].hiddenReported
    BY <1>1, <2>2, LeaveHandled DEF Hide
  <2> QED BY <2>1, <2>2
<1>2. ASSUME NEW p \in Page, PageHide(p) PROVE SomeHandler
  <2>1. page[p].visible \in BOOLEAN
    BY DEF IInv, TypeOK, PageState
  <2> QED BY <1>2, <2>1, LeaveHandled DEF PageHide
<1>3. ASSUME NEW q \in requests, CompleteNormal(q) \/ CompleteKeepalive(q)
      PROVE  SomeHandler
  BY <1>3, NormalHandled, KeepaliveHandled
<1> QED BY <1>1, <1>2, <1>3, OpenQuiet, ReportHandled, SendTimerHandled,
           FlushTimerHandled, ShowQuiet, ExceptionQuiet, ExhaustedHandled DEF Next

LEMMA StutterPromises ==
  ASSUME IInv, UNCHANGED vars
  PROVE  IInv' /\ UNCHANGED D!vars /\ NotResent /\ \A p \in Page : Final(p)
<1>1. IInv'
  BY DEF vars, adrift, IInv, TypeOK, Pages, Shared, Shut, Alone, Carried, Departures,
         Numbered, Accounted, Marked, Adrift, NoCacheLoss, InMemory, InCache, Enter,
         Silent, OneKeepalivePerHide
<1>2. UNCHANGED D!vars /\ NotResent
  BY DEF vars, adrift, D!vars, InMemory, NotResent, Started
<1>3. ASSUME NEW p \in Page, page[p].stopped PROVE Final(p)
  <2>1. page[p].open
    BY <1>3 DEF IInv, Shut, Closed
  <2>2. ~page[p].sendTimer /\ ~page[p].pending
    BY <1>3, <2>1 DEF IInv, Pages, Good, Stopping, Enter
  <2>3. Requests(p)' = Requests(p) /\ page' = page
    BY DEF vars, Requests
  <2>4. Cardinality(Requests(p)) \in Nat
    <3>1. Requests(p) \in SUBSET requests /\ IsFiniteSet(requests)
      BY DEF Requests, IInv, Shared
    <3> QED BY <3>1, FS_Subset, FS_CardinalityType
  <2> QED BY <1>3, <2>2, <2>3, <2>4 DEF Final
<1> QED BY <1>1, <1>2, <1>3 DEF Final

LEMMA InitInvariant == Init => IInv
<1> SUFFICES ASSUME Init PROVE IInv
  OBVIOUS
<1>1. /\ Closed \in PageState /\ Closed.open = FALSE /\ Closed.memory = {} /\ Closed.cache = {}
  BY DEF Closed, PageState
<1>2. \A p \in Page : page[p] = Closed
  BY DEF Init
<1>3. InMemory = {} /\ InCache = {}
  BY <1>1, <1>2 DEF InMemory, InCache
<1>4. TypeOK
  <2>1. last \in 0 .. NumRecords
    BY QueueAssumption DEF Init
  <2> QED BY <1>1, <2>1 DEF Init, TypeOK
<1>5. Shared
  <2>1. WithinCount({})
    BY FS_EmptySet DEF WithinCount
  <2>2. WithinBytes({})
    BY BytesEmpty, QueueAssumption DEF WithinBytes
  <2> QED BY <2>1, <2>2, FS_EmptySet DEF Init, Shared
<1>6. Pages /\ Shut /\ Alone
  BY <1>1, <1>2 DEF Pages, Shut, Alone, Init
<1>7. Carried /\ Departures
  BY DEF Carried, Departures, OneKeepalivePerHide, Init
<1>8. Numbered /\ Accounted /\ Marked /\ Adrift
  BY <1>3 DEF Numbered, Accounted, Marked, Adrift, NoCacheLoss, Init
<1> QED BY <1>4, <1>5, <1>6, <1>7, <1>8 DEF IInv

LEMMA NextStep ==
  ASSUME IInv, [Next]_vars
  PROVE  /\ IInv' /\ [D!Next]_(D!vars)
         /\ \A p \in Page : Final(p)
         /\ WorkerFails \/ NotResent
<1>1. CASE SomeHandler
  <2>1. PICK p, h, f, m, c, K, A : Handled(p, h, f, m, c, K, A)
    BY <1>1 DEF SomeHandler
  <2> QED BY <2>1, HandledKeepsInvariant, HandledDelivers, HandledFinal, HandledNotResent
<1>2. CASE SomeQuiet
  <2>1. PICK p, g : Quiet(p, g)
    BY <1>2 DEF SomeQuiet
  <2> QED BY <2>1, QuietKeepsInvariant, QuietPromises
<1>3. CASE \E p \in Page : Close(p)
  BY <1>3, CloseKeepsInvariant, CloseDelivers, ClosePromises
<1>4. CASE Arrive
  BY <1>4, ArriveKeepsInvariant, ArriveDelivers, ArrivePromises
<1>5. CASE UNCHANGED vars
  BY <1>5, StutterPromises
<1> QED BY <1>1, <1>2, <1>3, <1>4, <1>5, StepKind

-----------------------------------------------------------------------------
(***************************************************************************)
(* The theorems.                                                           *)
(***************************************************************************)
LEMMA SpecInvariant == Spec => []IInv
<1>1. IInv /\ [Next]_vars => IInv'
  BY NextStep
<1> QED BY <1>1, InitInvariant, PTL DEF Spec

LEMMA LockCounts ==
  ASSUME IInv, NEW p \in Page
  PROVE  /\ Cardinality(Owners(p)) = (IF page[p].sending THEN 1 ELSE 0)
         /\ \A q \in Requests(p) : q.keepalive \/ q.owner
<1>1. \A q \in Requests(p) : q.keepalive \/ q.owner
  BY DEF IInv, Carried, Requests
<1>2. CASE ~page[p].open
  <2>1. page[p].sending = FALSE
    BY <1>2 DEF IInv, Shut, Closed
  <2>2. Owners(p) = {}
    BY <1>2 DEF IInv, Shut, Owners, Requests
  <2> QED BY <1>1, <2>1, <2>2, FS_EmptySet
<1>3. CASE page[p].open
  <2>1. /\ \A q, r \in Owners(p) : q = r
        /\ page[p].sending <=> Owners(p) # {}
    BY <1>3 DEF IInv, Pages, Lock, Uniq, Owned, Enter, Owners, Requests
  <2>2. CASE Owners(p) = {}
    BY <1>1, <2>1, <2>2, FS_EmptySet
  <2>3. CASE Owners(p) # {}
    <3>1. PICK q : q \in Owners(p)
      BY <2>3
    <3>2. Owners(p) = {q}
      BY <2>1, <3>1
    <3>3. Cardinality(Owners(p)) = 1
      BY <3>2, FS_Singleton
    <3> QED BY <1>1, <2>1, <2>3, <3>3
  <2> QED BY <2>2, <2>3
<1> QED BY <1>2, <1>3

(***************************************************************************)
(* The types, the lock and the departures: the flag "sending" of a page is *)
(* set exactly while one request that took it is in flight, every normal   *)
(* send takes it, and two keepalive sends of a page are never for the same *)
(* departure.                                                              *)
(***************************************************************************)
THEOREM Locked == Spec => []SendsDoNotOverlap
<1>1. IInv => SendsDoNotOverlap
  BY LockCounts DEF IInv, Departures, SendsDoNotOverlap
<1> QED BY <1>1, SpecInvariant, PTL

(***************************************************************************)
(* The limits that dropOldest, trimForPersist and the cache enforce hold   *)
(* of the buffer of every page, of its cache and of the stored queue: only *)
(* device information may exceed them.                                     *)
(***************************************************************************)
THEOREM Limits == Spec => []LimitsHold
<1>1. ASSUME IInv PROVE LimitsHold
  <2>1. \A p \in Page : WithinCount(page[p].memory) /\ Cardinality(page[p].cache) <= MaxCache
    <3> TAKE p \in Page
    <3>1. CASE page[p].open
      BY <1>1, <3>1 DEF IInv, Pages, Good, Limited, Enter
    <3>2. CASE ~page[p].open
      <4>1. page[p].memory = {} /\ page[p].cache = {}
        BY <1>1, <3>2 DEF IInv, Shut, Closed
      <4>2. Cardinality({}) = 0
        BY FS_EmptySet
      <4> QED BY <4>1, <4>2, QueueAssumption DEF WithinCount
    <3> QED BY <3>1, <3>2
  <2> QED BY <1>1, <2>1 DEF IInv, Shared, LimitsHold, WithinLimit, WithinCount, WithinBytes
<1> QED BY <1>1, SpecInvariant, PTL

(***************************************************************************)
(* The sender implements Delivery: no step of any page, however sends,     *)
(* keepalive sends, failed writes and closing pages interleave, loses a    *)
(* record of the stored queue other than by a limit or with the memory of  *)
(* its page, and none that has left comes back.                            *)
(***************************************************************************)
THEOREM Implements == Spec => Delivers
<1>1. Init => D!Init
  <2> SUFFICES ASSUME Init PROVE D!Init
    OBVIOUS
  <2>1. InMemory = {}
    BY DEF Init, InMemory, Closed
  <2> QED BY <2>1 DEF Init, D!Init
<1>2. IInv /\ [Next]_vars => [D!Next]_(D!vars)
  BY NextStep
<1> QED BY <1>1, <1>2, SpecInvariant, PTL DEF Spec, Delivers, D!Spec

(***************************************************************************)
(* Once maxRetry failures in a row, or the worker, have stopped a page, it *)
(* accepts nothing, arms no timer and begins no send as long as it is      *)
(* open.                                                                   *)
(***************************************************************************)
THEOREM Stopped == Spec => StoppedIsFinal
<1> DEFINE Promise ==
      \A p \in Page :
        /\ page[p].failStreak > MaxRetry => page[p].stopped
        /\ page[p].stopped /\ page'[p].open =>
             /\ page'[p].stopped /\ ~page'[p].sendTimer /\ ~page'[p].pending
             /\ page'[p].mine = page[p].mine
             /\ Cardinality(Requests(p)') <= Cardinality(Requests(p))
<1>1. ASSUME IInv, [Next]_vars PROVE Promise
  <2> SUFFICES ASSUME NEW p \in Page
               PROVE  (page[p].failStreak > MaxRetry => page[p].stopped) /\ Final(p)
    BY DEF Final
  <2>1. page[p].failStreak > MaxRetry => page[p].stopped
    <3>1. CASE page[p].open
      BY <1>1, <3>1 DEF IInv, Pages, Good, Stopping, Enter
    <3>2. CASE ~page[p].open
      <4>1. page[p].failStreak = 0
        BY <1>1, <3>2 DEF IInv, Shut, Closed
      <4> QED BY <4>1, SenderAssumption
    <3> QED BY <3>1, <3>2
  <2> QED BY <1>1, <2>1, NextStep
<1>2. IInv /\ [Next]_vars => [Promise]_vars
  BY <1>1
<1> QED BY <1>2, SpecInvariant, PTL DEF Spec, StoppedIsFinal

(***************************************************************************)
(* On pages that are never hidden, a buffered record is written by a timer *)
(* that runs, unless a write of it has failed.  Leaving a page flushes the *)
(* buffer and then arms the timer: it finds the buffer empty and leaves    *)
(* its variable set, so that the next record finds no timer.               *)
(***************************************************************************)
THEOREM Buffered == ~Lifecycle => (Spec => []BuffersAreTimed)
<1> SUFFICES ASSUME ~Lifecycle PROVE Spec => []BuffersAreTimed
  OBVIOUS
<1>1. ASSUME IInv, LimitsHold PROVE BuffersAreTimed
  <2> SUFFICES ASSUME NEW p \in Page
               PROVE  page[p].memory \subseteq unsaved \/ page[p].flushDue
    BY <1>1 DEF BuffersAreTimed
  <2>1. CASE page[p].open
    BY <1>1, <2>1 DEF IInv, Pages, Timed, Enter
  <2>2. CASE ~page[p].open
    BY <1>1, <2>2 DEF IInv, Shut, Closed
  <2> QED BY <2>1, <2>2
<1> QED BY <1>1, SpecInvariant, Limits, PTL

(***************************************************************************)
(* With a worker that works, no record of the store:false cache is lost:   *)
(* it is in the cache of its page until it is sent, handed over, dropped   *)
(* by the limit or gone with its page.  Without one the main thread drops  *)
(* the array its send began with, later records included.                  *)
(***************************************************************************)
THEOREM CacheKept == ~WorkerFails => (Spec => []NoCacheLoss)
<1> SUFFICES ASSUME ~WorkerFails PROVE Spec => []NoCacheLoss
  OBVIOUS
<1>1. IInv => NoCacheLoss
  BY DEF IInv, Accounted
<1> QED BY <1>1, SpecInvariant, PTL

(***************************************************************************)
(* With a worker that works, no send of any kind begins with a record that *)
(* has already been delivered, unless it could not be taken off the stored *)
(* queue, or was delivered by a fetch that outlived its page: the queue is *)
(* what the next page sends.                                               *)
(***************************************************************************)
THEOREM SentOnce == ~WorkerFails => (Spec => AckedNotResent)
<1> SUFFICES ASSUME ~WorkerFails PROVE Spec => AckedNotResent
  OBVIOUS
<1> DEFINE Promise == \A q \in requests' :
                        Started(q) => (q.list \cup q.body) \cap acked'
                                        \subseteq unsaved' \cup outlived'
<1>1. IInv /\ [Next]_vars => [Promise]_vars
  BY NextStep DEF NotResent
<1> QED BY <1>1, SpecInvariant, PTL DEF Spec, AckedNotResent
=============================================================================
