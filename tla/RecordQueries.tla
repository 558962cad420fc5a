--------------------------- MODULE RecordQueries ---------------------------
(***************************************************************************)
(* How a reader of the console goes through the records of a collection:   *)
(* the queries of its pages (server record.ts, device.ts), the filter they *)
(* build (model/index.ts), and the pages it turns (UnlimitPagination.vue), *)
(* while the log service inserts and the server drops the oldest.          *)
(*                                                                         *)
(* Documents are in the order of their _id, which is that of their         *)
(* creation; a text is the sequence of its words.  Zero and the empty text *)
(* stand for a parameter that is not given, as they do in the code; but a  *)
(* bound of zero, which the empty text is too, is one.                     *)
(***************************************************************************)
EXTENDS Integers, Sequences, FiniteSets, SequencesExt, TLC

CONSTANTS
  Kinds,     \* the records that may be inserted
  Queries,   \* the queries a reader may make
  Size,      \* records on a page
  MaxDocs,   \* bound on the records inserted
  MaxPage    \* bound on the pages turned

VARIABLES
  docs,     \* the collection
  next,     \* the _id, and the creation time, of the next document
  query,    \* what is read, or Nothing
  page,
  list,     \* the page that is shown
  seen,     \* history: what has been shown of this query
  stable,   \* history: what was stored all along since it was opened
  ended     \* history: a page was not full

queryVars == <<docs, next, query, page, list, seen, stable, ended>>

Nothing == [view |-> "none"]

QueryInit ==
  /\ docs = <<>> /\ next = 1
  /\ query = Nothing /\ page = 1 /\ list = <<>>
  /\ seen = {} /\ stable = {} /\ ended = FALSE

-----------------------------------------------------------------------------
(***************************************************************************)
(* Filter.  The conditions on a document, all of which must hold.          *)
(***************************************************************************)
Condition(key, op, value) == <<key, op, value>>

NotDeleted == {Condition("deleted", "ne", TRUE)}

Equal(key, value) == IF value = 0 THEN {} ELSE {Condition(key, "eq", value)}
Like(key, text)   == IF text = <<>> THEN {} ELSE {Condition(key, "regex", text)}
AtLeast(key, from) == IF from = 0 THEN {} ELSE {Condition(key, "gte", from)}
AtMost(key, to)    == IF to = 0 THEN {} ELSE {Condition(key, "lte", to)}
RangeTime(from, to)        == AtLeast("id", from) \cup AtMost("id", to)

NotGiven == -1   \* a bound that is no number
RangeNumber(key, from, to) ==
  (IF from = NotGiven THEN {} ELSE {Condition(key, "gte", from)})
    \cup (IF to = NotGiven THEN {} ELSE {Condition(key, "lte", to)})

\* The logs page leaves out what has pages of its own.
OwnPages == {<<"collect", "info">>, <<"track", "event">>}
Custom == {Condition("type", "nin", OwnPages)}

HasText(text, part) ==
  \E i \in 1 .. Len(text) + 1 - Len(part) :
    SubSeq(text, i, i + Len(part) - 1) = part

Holds(doc, c) ==
  LET key == c[1]  op == c[2]  value == c[3]
  IN  CASE op = "eq"    -> doc[key] = value
        [] op = "ne"    -> doc[key] # value
        [] op = "gte"   -> doc[key] >= value
        [] op = "lte"   -> doc[key] <= value
        [] op = "regex" -> HasText(doc[key], value)
        [] op = "nin"   -> doc[key] \notin value

LogsFilter(q) ==
  Equal("session", q.session) \cup Equal("uuid", q.uuid) \cup Like("type", q.type)
    \cup Like("data", q.data) \cup RangeTime(q.from, q.to) \cup Custom
ErrorsFilter(q) ==
  Equal("fingerprint", q.fingerprint) \cup Equal("uuid", q.uuid)
    \cup RangeTime(q.from, q.to) \cup Equal("session", q.session)
NetworksFilter(q) ==
  Equal("uuid", q.uuid) \cup Like("data", q.data) \cup Equal("status", q.status)
    \cup RangeTime(q.from, q.to) \cup RangeNumber("stamp", q.stampFrom, q.stampTo)
    \cup Equal("session", q.session)
DevicesFilter(q) ==
  RangeTime(q.from, q.to) \cup Equal("uuid", q.uuid) \cup Equal("session", q.session)
SessionsFilter(q) == Equal("uuid", q.uuid) \cup Equal("session", q.session)

FilterOf(q) ==
  NotDeleted \cup
  CASE q.view = "logs"     -> LogsFilter(q)
    [] q.view = "errors"   -> ErrorsFilter(q)
    [] q.view = "networks" -> NetworksFilter(q)
    [] q.view = "devices"  -> DevicesFilter(q)
    [] q.view = "sessions" -> SessionsFilter(q)

\* The newest first; skip what is on the pages before, and take a page.
Pagination(q, at) ==
  LET found == Reverse(SelectSeq(docs, LAMBDA d : \A c \in FilterOf(q) : Holds(d, c)))
      skip  == (IF at = 0 THEN 0 ELSE at - 1) * Size
  IN  SubSeq(found, skip + 1, IF skip + Size < Len(found) THEN skip + Size ELSE Len(found))

-----------------------------------------------------------------------------
(***************************************************************************)
(* The reader, the log service, and the server's collection of the old.    *)
(***************************************************************************)
Show(q, at) ==
  /\ list' = Pagination(q, at)
  /\ page' = at
  /\ seen' = (IF q = query THEN seen ELSE {}) \cup Range(list')
  /\ ended' = ((q = query /\ ended) \/ Len(list') < Size)

HandleSearch(q) ==
  /\ query = Nothing
  /\ Show(q, 1)
  /\ query' = q
  /\ stable' = Range(docs)
  /\ UNCHANGED <<docs, next>>

HandleNext ==
  /\ query # Nothing /\ page < MaxPage
  /\ Show(query, page + 1)
  /\ UNCHANGED <<docs, next, query, stable>>

HandlePrev ==
  /\ query # Nothing /\ page # 1
  /\ Show(query, page - 1)
  /\ UNCHANGED <<docs, next, query, stable>>

InsertDoc(kind) ==
  /\ next <= MaxDocs
  /\ docs' = Append(docs, kind @@ [id |-> next, deleted |-> FALSE])
  /\ next' = next + 1
  /\ UNCHANGED <<query, page, list, seen, stable, ended>>

\* The oldest, whatever they are.
DropOldest(n) ==
  /\ n <= Len(docs)
  /\ docs' = SubSeq(docs, n + 1, Len(docs))
  /\ stable' = stable \cap Range(docs')
  /\ UNCHANGED <<next, query, page, list, seen, ended>>

QueryNext ==
  \/ \E q \in Queries : HandleSearch(q)
  \/ HandleNext \/ HandlePrev
  \/ \E kind \in Kinds : InsertDoc(kind)
  \/ \E n \in 1 .. MaxDocs : DropOldest(n)

-----------------------------------------------------------------------------
\* What the reader asked for.
Wanted(doc) ==
  /\ query.uuid # 0    => doc.uuid = query.uuid
  /\ query.session # 0 => doc.session = query.session
  /\ query.view # "sessions" =>
       /\ query.from # 0 => doc.id >= query.from
       /\ query.to # 0   => doc.id <= query.to
  /\ query.view = "logs" => /\ query.type # <<>> => HasText(doc.type, query.type)
                            /\ doc.type \notin OwnPages
  /\ query.view = "errors" /\ query.fingerprint # 0
       => doc.fingerprint = query.fingerprint
  /\ query.view = "networks" =>
       /\ query.status # 0 => doc.status = query.status
       /\ query.stampFrom # NotGiven => doc.stamp >= query.stampFrom
       /\ query.stampTo # NotGiven => doc.stamp <= query.stampTo
  /\ query.view \in {"logs", "networks"} /\ query.data # <<>>
       => HasText(doc.data, query.data)

\* record.ts, UnlimitPagination.vue: a reader who has turned the pages of a
\* query until one was not full has been shown every record asked for that was
\* there all the time, whatever was inserted and dropped between two pages, and
\* nothing that was not asked for.
PagesLoseNothing ==
  query # Nothing =>
    /\ \A doc \in seen : Wanted(doc)
    /\ ended => {doc \in stable : Wanted(doc)} \subseteq seen
=============================================================================
