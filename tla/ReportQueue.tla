---------------------------- MODULE ReportQueue ----------------------------
(***************************************************************************)
(* The record collections of the client SDK and the limits that bound      *)
(* them: packages/core/src/utils.ts.                                       *)
(*                                                                         *)
(* A record is the number of its report() call, so that "older" is "<".    *)
(* The memory buffer, the cache and the stored queue of the code are       *)
(* arrays that only grow at the end, hence in report order; they are sets  *)
(* here.  The one place where the arrays are not in report order is the    *)
(* stored queue after a trim, which puts the device information first;     *)
(* device information is reported when the SDK starts and is the oldest    *)
(* record of its session anyway.                                           *)
(***************************************************************************)
EXTENDS Integers, FiniteSets, FiniteSetsExt

CONSTANTS
  NumRecords,     \* records are 1 .. NumRecords
  Info,           \* the COLLECT_INFO records, which the limits never drop
  Track,          \* the OPERATION_TRACK records (screen recording)
  Size,           \* the serialized size of every record
  MaxPersist,     \* MAX_PERSIST_COUNT: records in the buffer, in the queue
  MaxQueueBytes,  \* MAX_QUEUE_BYTES: size of the stored queue
  MaxCache        \* MAX_CACHE_COUNT: records in the store:false cache

Record == 1 .. NumRecords

ASSUME QueueAssumption ==
  /\ NumRecords \in Nat
  /\ Info \subseteq Record
  /\ Track \subseteq Record
  /\ Info \cap Track = {}
  /\ Size \in [Record -> Nat \ {0}]
  /\ MaxPersist \in Nat \ {0}
  /\ MaxQueueBytes \in Nat \ {0}
  /\ MaxCache \in Nat \ {0}

Bytes(S) == MapThenSumSet(LAMBDA r : Size[r], S)

\* The n newest members of S: list.slice(list.length - n).
Newest(S, n) == {r \in S : Cardinality({s \in S : s > r}) < n}

\* The position of record r in the array that holds the records S.
Rank(S, r) == Cardinality({s \in S : s <= r})

(***************************************************************************)
(* trimOldest: over the count limit, the oldest ordinary records go;       *)
(* device information stays and takes its room first.                      *)
(***************************************************************************)
TrimOldest(S, max) ==
  IF Cardinality(S) <= max
  THEN S
  ELSE LET kept == S \cap Info
       IN  kept \cup Newest(S \ Info, Max({0, max - Cardinality(kept)}))

(***************************************************************************)
(* trimByBytes: over the size limit, the oldest ordinary records go until  *)
(* the rest fits or only device information is left.                       *)
(***************************************************************************)
TrimByBytes(S) ==
  LET ordinary == S \ Info
      fits(n)  == Bytes((S \cap Info) \cup Newest(ordinary, n)) <= MaxQueueBytes
      enough   == {n \in 0 .. Cardinality(ordinary) : n = 0 \/ fits(n)}
  IN  (S \cap Info) \cup Newest(ordinary, Max(enough))

\* What flushMemoryToStorage leaves of the records it is about to store.
Fit(S) == TrimByBytes(TrimOldest(S, MaxPersist))

(***************************************************************************)
(* pickWithinBudget: the longest prefix that fits the budget, and always   *)
(* the first record, even when it alone is over the budget.                *)
(***************************************************************************)
PickWithinBudget(S, budget) ==
  {r \in S : \/ \A s \in S : r <= s
             \/ Bytes({s \in S : s <= r}) <= budget}
=============================================================================
