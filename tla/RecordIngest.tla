---------------------------- MODULE RecordIngest ----------------------------
(***************************************************************************)
(* POST /record of the log service: packages/logs/src/apis/record.rs,      *)
(* services/record_logs.rs and the collections of model.rs.                *)
(*                                                                         *)
(* A request is a task of the runtime that goes from await to await; every *)
(* answer of the database, good or bad, is an action.  The groups of a     *)
(* batch are written side by side (join_all), each in its own order:       *)
(* r.pend are the groups still to finish; r.dev, r.step, r.looked say      *)
(* where the group of the devices stands.                                  *)
(***************************************************************************)
EXTENDS Integers, Sequences, FiniteSets, SequencesExt

CONSTANTS
  Item,            \* the records that clients report
  Payload,         \* the requests they come in, as ids
  Content,         \* Content[p]: [form : Forms, items : Seq(Item)]
  Type,            \* Type[i]: the type of a record
  Uuid, Session,   \* of a record; a session may be NoSession
  NoSession,
  UnknownApp,      \* the payloads whose app does not exist
  Concurrency,     \* RECORD_MAX_CONCURRENCY
  MaxPosts,        \* bound: requests
  MaxFaults        \* bound: operations of the database that fail

Forms == {"v1", "v2", "raw", "invalid"}

ASSUME IngestAssumption ==
  /\ Content \in [Payload -> [form : Forms, items : Seq(Item)]]
  /\ Concurrency \in Nat \ {0} /\ {MaxPosts, MaxFaults} \subseteq Nat
  /\ \A i \in Item : \E p \in Payload : i \in Range(Content[p].items)

VARIABLES
  reqs,      \* the requests that hold a slot
  posts, faults,
  docs,      \* docs[i]: how often record i is in its collection
  unique,    \* unique[k]: how many documents a session, a device has
  custom,    \* custom[i]: whether the upsert of a custom id has been made
  alerted,   \* alerted[i]: how often error i was given to alert_error
  kafka,     \* kafka[i]: how often track i was put into the producer's queue
  ok         \* history: ok[p]: how often p was answered with success

vars == <<reqs, posts, faults, docs, unique, custom, alerted, kafka, ok>>

Key == {<<"session", Session[i]>> : i \in Item} \cup {<<"device", Uuid[i]>> : i \in Item}

Init ==
  /\ reqs = {} /\ posts = 0 /\ faults = 0
  /\ docs = [i \in Item |-> 0] /\ unique = [k \in Key |-> 0]
  /\ custom = [i \in Item |-> FALSE]
  /\ alerted = [i \in Item |-> 0] /\ kafka = [i \in Item |-> 0]
  /\ ok = [p \in Payload |-> 0]

-----------------------------------------------------------------------------
(***************************************************************************)
(* normalize_from and group_records: every record belongs to one group, by *)
(* its type; of the custom ids of a batch only the last one is kept.       *)
(***************************************************************************)
Groups == {"collect", "network", "error", "device", "custom_id"}

GroupOf(i) ==
  CASE Type[i] = "INFO"    -> "device"
    [] Type[i] = "API"     -> "network"
    [] Type[i] = "ERROR"   -> "error"
    [] Type[i] \in {"TRACK", "TRACK_EVENT"} -> "track"
    [] Type[i] = "CUSTOM_ID" -> "custom_id"
    [] OTHER               -> "collect"

\* list.iter().for_each(..): what is of group g is pushed, one after the other.
Pushed(list, g) ==
  LET upto[n \in 0 .. Len(list)] ==
        IF n = 0 THEN <<>>
        ELSE IF GroupOf(list[n]) = g THEN Append(upto[n - 1], list[n]) ELSE upto[n - 1]
  IN  upto[Len(list)]

\* The batches by their groups, as hashmap! puts them.
Grouped ==
  [p \in Payload |-> [g \in Groups \cup {"track"} |->
     LET all == Pushed(Content[p].items, g)
     IN  IF g = "custom_id" /\ all # <<>> THEN <<Last(all)>> ELSE all]]

Group(p, g) == Grouped[p][g]

InGroup(p, g, i) == i \in Range(Group(p, g))

-----------------------------------------------------------------------------
\* Mutant: the slot is given back only after a success.
LeaveHolding(r, good) ==
  /\ reqs' = (reqs \ {r}) \cup (IF good THEN {} ELSE {[r EXCEPT !.at = "leaked"]})
  /\ ok' = IF good THEN [ok EXCEPT ![r.p] = @ + 1] ELSE ok

\* A request ends: its slot is free.
Leave(r, good) ==
  /\ reqs' = reqs \ {r}
  /\ ok' = IF good THEN [ok EXCEPT ![r.p] = @ + 1] ELSE ok

Go(r, q) == reqs' = (reqs \ {r}) \cup {q} /\ UNCHANGED ok

Fault == faults < MaxFaults /\ faults' = faults + 1

Bump(f, S) == [i \in DOMAIN f |-> IF i \in S THEN f[i] + 1 ELSE f[i]]

NewRequest(p) ==
  [id |-> posts, p |-> p, at |-> "body", pend |-> {}, failed |-> FALSE, dev |-> 1,
   step |-> "session", looked |-> FALSE, found |-> FALSE]

(***************************************************************************)
(* record_log.  With no slot left the request is refused at once.          *)
(***************************************************************************)
Post(p) ==
  /\ posts < MaxPosts /\ posts' = posts + 1
  /\ reqs' = IF Cardinality(reqs) >= Concurrency THEN reqs
             ELSE reqs \cup {NewRequest(p)}
  /\ UNCHANGED <<faults, docs, unique, custom, alerted, kafka, ok>>

\* The producer's queue takes a message, unless it is full.
Enqueue(S) == \E taken \in {{}, S} : kafka' = Bump(kafka, taken)

\* payload_handler: the body is there, or it broke off.
Body(r) ==
  /\ r.at = "body"
  /\ LET form == Content[r.p].form
     IN  \/ form \in {"v1", "v2"} /\ Go(r, [r EXCEPT !.at = "app"]) /\ UNCHANGED kafka
         \/ form = "raw" /\ Leave(r, TRUE) /\ Enqueue(Range(Content[r.p].items))
         \/ form = "invalid" /\ Leave(r, FALSE) /\ UNCHANGED kafka
  /\ UNCHANGED <<posts, faults, docs, unique, custom, alerted>>

\* record: the app is looked up.
FindApp(r) ==
  /\ r.at = "app"
  /\ \/ r.p \in UnknownApp /\ Leave(r, FALSE) /\ UNCHANGED faults
     \/ Fault /\ Leave(r, FALSE)
     \/ /\ r.p \notin UnknownApp
        /\ Go(r, [r EXCEPT !.at = "groups",
                           !.pend = {g \in Groups : Group(r.p, g) # <<>>}])
        /\ UNCHANGED faults
  /\ UNCHANGED <<posts, docs, unique, custom, alerted, kafka>>

(***************************************************************************)
(* insert_many, or insert_one for a single record.  When it fails, part of *)
(* the batch may be stored; insert_many then unwraps the error: the        *)
(* handler panics, and what its other groups have not done is not done.    *)
(***************************************************************************)
\* Mutant: the error of a group is logged only.
InsertLogged(r, g) ==
  /\ r.at = "groups" /\ g \in r.pend \cap {"collect", "network", "error"}
  /\ \/ Fault /\ UNCHANGED docs
     \/ docs' = Bump(docs, Range(Group(r.p, g))) /\ UNCHANGED faults
  /\ Go(r, [r EXCEPT !.pend = @ \ {g}])
  /\ UNCHANGED <<posts, unique, custom, alerted, kafka>>

Insert(r, g) ==
  /\ r.at = "groups" /\ g \in r.pend \cap {"collect", "network", "error"}
  /\ \/ /\ Fault
        /\ \E n \in 0 .. Len(Group(r.p, g)) :
             docs' = Bump(docs, Range(SubSeq(Group(r.p, g), 1, n)))
        /\ Leave(r, FALSE)
     \/ /\ docs' = Bump(docs, Range(Group(r.p, g)))
        /\ Go(r, [r EXCEPT !.pend = @ \ {g}])
        /\ UNCHANGED faults
  /\ UNCHANGED <<posts, unique, custom, alerted, kafka>>

\* An error that a group returns; the others go on, a single record ends here.
GroupFails(r, g) ==
  /\ Fault
  /\ Go(r, [r EXCEPT !.pend = @ \ {g}, !.failed = TRUE, !.looked = FALSE])

\* CustomId::update_id: an upsert that adds device and session to sets.
UpdateId(r) ==
  /\ r.at = "groups" /\ "custom_id" \in r.pend
  /\ \/ GroupFails(r, "custom_id") /\ UNCHANGED custom
     \/ /\ custom' = [i \in Item |-> custom[i] \/ InGroup(r.p, "custom_id", i)]
        /\ Go(r, [r EXCEPT !.pend = @ \ {"custom_id"}])
        /\ UNCHANGED faults
  /\ UNCHANGED <<posts, docs, unique, alerted, kafka>>

(***************************************************************************)
(* The group of the devices, one device after the other: insert_unique of  *)
(* its session, if it has one, then of the device.  insert_unique looks    *)
(* for a document and, in a second operation, inserts or updates one.      *)
(***************************************************************************)
Device(r)  == Group(r.p, "device")[r.dev]
KeyOf(r)   == IF r.step = "session" THEN <<"session", Session[Device(r)]>>
                                    ELSE <<"device", Uuid[Device(r)]>>
Written(r) ==
  LET last == r.dev = Len(Group(r.p, "device"))
      q    == [r EXCEPT !.looked = FALSE]
  IN  IF r.step = "session" THEN [q EXCEPT !.step = "device"]
      ELSE IF last THEN [q EXCEPT !.pend = @ \ {"device"}]
      ELSE [q EXCEPT !.dev = @ + 1, !.step = "session"]

FindUnique(r) ==
  /\ r.at = "groups" /\ "device" \in r.pend /\ ~r.looked
  /\ \/ GroupFails(r, "device")
     \/ /\ r.step = "session" /\ Session[Device(r)] = NoSession
        /\ Go(r, [r EXCEPT !.step = "device"])
        /\ UNCHANGED faults
     \/ /\ r.step = "session" => Session[Device(r)] # NoSession
        /\ Go(r, [r EXCEPT !.looked = TRUE, !.found = unique[KeyOf(r)] > 0])
        /\ UNCHANGED faults
  /\ UNCHANGED <<posts, docs, unique, custom, alerted, kafka>>

WriteUnique(r) ==
  /\ r.looked
  /\ \/ GroupFails(r, "device") /\ UNCHANGED unique
     \/ /\ unique' = IF r.found THEN unique ELSE [unique EXCEPT ![KeyOf(r)] = @ + 1]
        /\ Go(r, Written(r))
        /\ UNCHANGED faults
  /\ UNCHANGED <<posts, docs, custom, alerted, kafka>>

(***************************************************************************)
(* All groups are done: the first error of any is the answer; otherwise    *)
(* the errors are counted and the tracks that have a session are sent.     *)
(***************************************************************************)
\* Mutant: the errors are counted although a group failed.
FinishAnyway(r) ==
  /\ r.at = "groups" /\ r.pend = {}
  /\ alerted' = Bump(alerted, Range(Group(r.p, "error")))
  /\ Leave(r, ~r.failed) /\ UNCHANGED kafka
  /\ UNCHANGED <<posts, faults, docs, unique, custom>>

Finish(r) ==
  /\ r.at = "groups" /\ r.pend = {}
  /\ \/ r.failed /\ Leave(r, FALSE) /\ UNCHANGED <<alerted, kafka>>
     \/ /\ ~r.failed /\ Leave(r, TRUE)
        /\ alerted' = Bump(alerted, Range(Group(r.p, "error")))
        /\ Enqueue({i \in Range(Group(r.p, "track")) : Session[i] # NoSession})
  /\ UNCHANGED <<posts, faults, docs, unique, custom>>

Step(r) ==
  \/ Body(r) \/ FindApp(r) \/ UpdateId(r) \/ FindUnique(r) \/ WriteUnique(r)
  \/ Finish(r) \/ \E g \in Groups : Insert(r, g)

Next == (\E p \in Payload : Post(p)) \/ \E r \in reqs : Step(r)

Spec == Init /\ [][Next]_vars

\* Fairness: what a request waits for answers, well or badly.
FairSpec == Spec /\ WF_vars(\E r \in reqs : Step(r))

-----------------------------------------------------------------------------
(***************************************************************************)
(* Properties.                                                             *)
(***************************************************************************)
Request ==
  [id : 0 .. MaxPosts, p : Payload, at : {"body", "app", "groups"},
   pend : SUBSET Groups, failed : BOOLEAN, dev : Nat \ {0},
   step : {"session", "device"}, looked : BOOLEAN, found : BOOLEAN]

\* The types of the variables; never more requests than slots; the device that
\* a request is at is one of its batch.
TypeOK ==
  /\ reqs \subseteq Request /\ Cardinality(reqs) <= Concurrency
  /\ \A r \in reqs : "device" \in r.pend => r.dev \in DOMAIN Group(r.p, "device")
  /\ {docs, alerted, kafka} \subseteq [Item -> Nat]
  /\ unique \in [Key -> Nat]
  /\ custom \in [Item -> BOOLEAN] /\ ok \in [Payload -> Nat]

In(i, p) == i \in Range(Content[p].items)

(***************************************************************************)
(* A success is the whole batch: every record of a request that was        *)
(* answered with success is in its collection as often as that, its device *)
(* and session have a document, its last custom id is there.  A device or  *)
(* session has one document, unless requests looked for it at the same     *)
(* time: never more than there are slots.                                  *)
(***************************************************************************)
SuccessIsStored ==
  /\ TypeOK
  /\ \A k \in Key : unique[k] <= Concurrency
  /\ \A p \in Payload, i \in Item :
       ok[p] > 0 /\ Content[p].form \in {"v1", "v2"} =>
         /\ GroupOf(i) \in {"collect", "network", "error"} /\ In(i, p) => docs[i] >= ok[p]
         /\ InGroup(p, "device", i) =>
              /\ unique[<<"device", Uuid[i]>>] > 0
              /\ Session[i] # NoSession => unique[<<"session", Session[i]>>] > 0
         /\ InGroup(p, "custom_id", i) => custom[i]

(***************************************************************************)
(* An error counts for the alerts exactly as often as its batch was stored *)
(* as a whole: never before it is stored, never for a batch that failed in *)
(* another group, and once more for a batch that is reported once more.    *)
(***************************************************************************)
ErrorsCountOnce ==
  \A i \in Item :
    GroupOf(i) = "error" =>
      /\ alerted[i] <= docs[i]
      /\ \A p \in Payload : In(i, p) => alerted[i] = ok[p]

(***************************************************************************)
(* The slots do not leak: when all are taken one becomes free again,       *)
(* whatever fails, a panic of the handler included.                        *)
(***************************************************************************)
SlotsAreFreed ==
  (Cardinality(reqs) = Concurrency) ~> (Cardinality(reqs) < Concurrency)
=============================================================================
