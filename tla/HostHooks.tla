----------------------------- MODULE HostHooks -----------------------------
(***************************************************************************)
(* What the SDK wraps around its host: XMLHttpRequest in a browser         *)
(* (browser/plugins/network.ts), uni.request in a mini-program             *)
(* (mp-uni/plugins/network.ts) and console.error in both (plugins/error.ts *)
(* of each).  The host gets every answer and every log it would get        *)
(* without the SDK: what throws while reporting is caught.                 *)
(*                                                                         *)
(* A text is its size in thousands of bytes; a content may also be no text *)
(* (a form, a buffer, an object), or nothing.  What the host logs or       *)
(* throws is one of a few shapes; the wording of a message is left out.    *)
(***************************************************************************)
EXTENDS Integers, Sequences, FiniteSets, SequencesExt

CONSTANTS
  Xhr,            \* the host's XMLHttpRequest objects
  ResponseLimit,  \* network.responseLimit
  MaxFieldKb,     \* MAX_FIELD_KB
  Sizes,          \* the sizes of the texts that are sent and answered
  Phrase,         \* the names and texts that are told apart
  Reasons,        \* the shapes of what is thrown
  Arguments,      \* lists of them, as console.error is called with
  MaxCalls        \* bound on the requests and errors of the host

\* What can be thrown or logged: its kind, the name and the text an Error or
\* an object has, and whether it refers to itself.
Reason == [is : {"Error", "string", "null", "object"}, name : Phrase,
           message : Phrase, circular : BOOLEAN]

\* The names and texts the SDK makes up.
OwnPhrases ==
  {"", "CustomError", "ErrorEvent", "UnhandleRejection", "Unknown script error",
   "Unknown Error", "null or undefined error", "(object error)",
   "console.error with no arguments"}

Infinity  == -1
Exceeds   == -2   \* a text that was too long
NoText    == -3   \* a content that is no text
NoContent == -4
TypeTag   == -5   \* what is reported of a body that is no text
Nowhere   == 0

Contents == Sizes \cup {NoText, NoContent}

ASSUME HooksAssumption ==
  /\ OwnPhrases \subseteq Phrase
  /\ Reasons \subseteq Reason /\ Arguments \subseteq Seq(Reason)
  /\ Sizes \subseteq Nat /\ MaxFieldKb \in Nat
  /\ ResponseLimit \in Nat \cup {Infinity}

VARIABLES
  options,   \* network.success and network.fail
  route,     \* the page the user is at
  xhr,       \* per object: the listeners added to it, and what the SDK notes
  requests,  \* the mini-program's requests under way
  calls,     \* history: requests and errors so far
  reported,  \* what was handed to report
  finished      \* history: the requests that ended

hookVars == <<options, route, xhr, requests, calls, reported, finished>>

Fresh == [phase |-> "new", call |-> 0, opens |-> 0, triggerPage |-> Nowhere,
          from |-> Nowhere, body |-> 0]

HookInit ==
  /\ options \in [success : BOOLEAN, fail : BOOLEAN]
  /\ route = 1
  /\ xhr = [x \in Xhr |-> Fresh]
  /\ requests = {}
  /\ calls = 0
  /\ reported = <<>> /\ finished = <<>>

Call == calls < MaxCalls /\ calls' = calls + 1

-----------------------------------------------------------------------------
(***************************************************************************)
(* A report keeps the texts of what failed whole, and of the rest within   *)
(* the limits.  Of a body that is no text it keeps the kind, of such a     *)
(* response nothing; a mini-program serialises its answers first.          *)
(***************************************************************************)
Fits(size, limit) == limit = Infinity \/ size < limit
NormalizeResponse(size, limit) == IF Fits(size, limit) THEN size ELSE Exceeds

NormalizeBody(body, limit) ==
  CASE body = NoContent -> NoContent
    [] body = NoText -> TypeTag
    [] body \notin {NoContent, NoText} -> NormalizeResponse(body, limit)

CollectInfo(call, type, at, body, response) ==
  LET Within(limit) == IF type = "success" THEN limit ELSE Infinity
  IN  [call |-> call, type |-> type, page |-> at,
       body |-> NormalizeBody(body, Within(MaxFieldKb)),
       response |-> IF response \in {NoText, NoContent} THEN NoContent
                    ELSE NormalizeResponse(response, Within(ResponseLimit))]

\* History: how a request ended, and what its report must tell.
End(call, outcome, from, body, response, opens, own, wanted) ==
  finished' = Append(finished,
    [call |-> call, outcome |-> outcome, from |-> from, body |-> body,
     response |-> response, opens |-> opens, own |-> own, wanted |-> wanted])

-----------------------------------------------------------------------------
(***************************************************************************)
(* The browser.  Each open adds the listeners, also to an object that has  *)
(* them already.                                                           *)
(***************************************************************************)
OpenFrom(x, at) ==
  /\ xhr[x].phase \in {"new", "done"} /\ Call
  /\ xhr' = [xhr EXCEPT ![x].phase = "opened", ![x].call = calls',
                        ![x].opens = @ + 1, ![x].triggerPage = at,
                        ![x].from = route]
  /\ UNCHANGED <<options, route, requests, reported, finished>>

\* Mutant: the page is looked up when the request has ended.
OpenUnnoted(x) == OpenFrom(x, Nowhere)
Open(x) == OpenFrom(x, route)

Send(x, body) ==
  /\ xhr[x].phase = "opened"
  /\ xhr' = [xhr EXCEPT ![x].phase = "sent", ![x].body = body]
  /\ UNCHANGED <<options, route, requests, calls, reported, finished>>

EventsOf(outcome) == {"loadend"} \cup ({outcome} \ {"ok", "status"})

\* What the listeners added to an object X report of an event, one after the
\* other, if the options have them do so; one that throws reports nothing.
Heard(X, event, outcome, throws) ==
  LET type == IF event # "loadend" THEN event
              ELSE IF outcome = "ok" THEN "success" ELSE "fail"
  IN  IF event \notin throws /\ (IF type = "success" THEN options.success ELSE options.fail)
      THEN [l \in 1 .. X.opens |-> type] ELSE <<>>

\* The browser fires its events, loadend last, each at every listener.  The
\* host does not see one throw.
XhrEnds(x, outcome, response, throws) ==
  /\ xhr[x].phase = "sent"
  /\ LET X   == xhr[x]
         at  == IF X.triggerPage = Nowhere THEN route ELSE X.triggerPage
         all == (IF outcome \in EventsOf(outcome) THEN Heard(X, outcome, outcome, throws)
                 ELSE <<>>) \o Heard(X, "loadend", outcome, throws)
     IN  /\ reported' = reported \o [i \in DOMAIN all |->
                          CollectInfo(X.call, all[i], at, X.body, response)]
         /\ End(X.call, outcome, X.from, X.body, response, X.opens, FALSE,
                throws = {} /\ IF outcome = "ok" THEN options.success ELSE options.fail)
  /\ xhr' = [xhr EXCEPT ![x].phase = "done"]
  /\ UNCHANGED <<options, route, requests, calls>>

-----------------------------------------------------------------------------
(***************************************************************************)
(* The mini-program.  The SDK sends its own records by uni.request too, to *)
(* the url of the log service, as texts; these are not reported.           *)
(***************************************************************************)
Request(body, own) ==
  /\ Call
  /\ requests' = requests \cup
                   {[call |-> calls', from |-> route, body |-> body, own |-> own]}
  /\ UNCHANGED <<options, route, xhr, reported, finished>>

Answered(r, type, response, wanted, throws) ==
  /\ r \in requests
  /\ reported' = IF wanted /\ ~r.own /\ ~throws
                 THEN Append(reported, CollectInfo(r.call, type, r.from, r.body, response))
                 ELSE reported
  /\ requests' = requests \ {r}
  /\ UNCHANGED <<options, route, xhr, calls>>

\* The host's own callbacks come after the report.
SuccessCallback(r, ok, response, condition, throws) ==
  LET type   == IF ok THEN "success" ELSE "fail"
      wanted == IF ok THEN options.success \/ condition ELSE options.fail
  IN  /\ Answered(r, type, response, wanted, throws)
      /\ End(r.call, IF ok THEN "ok" ELSE "status", r.from, r.body, response, 1, r.own,
             wanted /\ ~r.own /\ ~throws)

FailCallback(r, throws) ==
  /\ Answered(r, "fail", NoContent, options.fail, throws)
  /\ End(r.call, "error", r.from, r.body, NoContent, 1, r.own,
         options.fail /\ ~r.own /\ ~throws)

-----------------------------------------------------------------------------
(***************************************************************************)
(* What is logged or thrown.  A message that is missing is made up; what   *)
(* cannot be serialised is said to be circular.                            *)
(***************************************************************************)
NormalizeError(reason) ==
  CASE reason.is = "Error" ->
         [extra |-> IF reason.circular THEN "circular" ELSE "json",
          message |-> IF reason.message = "" THEN "Unknown Error" ELSE reason.message]
    [] reason.is = "string" -> [extra |-> "null", message |-> reason.message]
    [] reason.is = "null" -> [extra |-> "null", message |-> "null or undefined error"]
    [] reason.is = "object" ->
         [extra |-> IF reason.circular THEN "circular" ELSE "json",
          message |-> IF reason.message = "" THEN "(object error)" ELSE reason.message]

Text(message) == [is |-> "string", name |-> "", message |-> message, circular |-> FALSE]

\* The first Error among the arguments, the first text, or the list itself.
NormalizeConsoleError(args) ==
  LET IsError(i) == args[i].is = "Error"
  IN  IF args = <<>> THEN Text("console.error with no arguments")
      ELSE IF \E i \in DOMAIN args : IsError(i)
      THEN args[CHOOSE i \in DOMAIN args :
                  IsError(i) /\ \A j \in DOMAIN args : IsError(j) => i <= j]
      ELSE IF args[1].is = "string" THEN args[1]
      ELSE [is |-> "object", name |-> "", message |-> "",
            circular |-> \E i \in DOMAIN args : args[i].circular]

\* The record of an error made from what was given.
Thrown(call, name, given) ==
  [call |-> call, type |-> "thrown", name |-> name, given |-> given,
   message |-> NormalizeError(given).message, extra |-> NormalizeError(given).extra]

\* An Error brings its name, also an empty one; nothing else has one.
SpreadName(given) == IF given.is = "Error" THEN given.name ELSE "CustomError"

\* console.error of the host, also when reporting, or the original, throws.
ConsoleError(args, throws) ==
  /\ Call
  /\ LET given == NormalizeConsoleError(args)
     IN  reported' = IF throws THEN reported
                     ELSE Append(reported, Thrown(calls', SpreadName(given), given))
  /\ UNCHANGED <<options, route, xhr, requests, finished>>

\* Here an Error without a name gets one.
NameOr(name, given) == IF given.is = "Error" /\ given.name # "" THEN given.name ELSE name

\* An error nothing caught.  What counts as false comes with the browser's
\* own message.
Uncaught(reason) ==
  /\ Call
  /\ LET given == IF reason.is = "null" \/ (reason.is = "string" /\ reason.message = "")
                  THEN Text("Unknown script error") ELSE reason
     IN  reported' = Append(reported, Thrown(calls', NameOr("ErrorEvent", given), given))
  /\ UNCHANGED <<options, route, xhr, requests, finished>>

\* A rejection nothing handled, which a mini-program hears of as of an error.
Unhandled(reason, name) ==
  /\ Call
  /\ reported' = Append(reported, Thrown(calls', NameOr(name, reason), reason))
  /\ UNCHANGED <<options, route, xhr, requests, finished>>

Leave == /\ route' = 3 - route
         /\ UNCHANGED <<options, xhr, requests, calls, reported, finished>>

Outcomes == {"ok", "status", "abort", "error", "timeout"}

\* A request that got no answer has the empty text for one, or null.
Answers(outcome) == IF outcome \in {"ok", "status"} THEN Contents ELSE {0, NoContent}

HookNext ==
  \/ \E x \in Xhr : Open(x) \/ \E body \in Contents : Send(x, body)
  \/ \E x \in Xhr, outcome \in Outcomes,
        throws \in SUBSET {"loadend", "abort", "error", "timeout"} :
       /\ throws \subseteq EventsOf(outcome)
       /\ \E response \in Answers(outcome) : XhrEnds(x, outcome, response, throws)
  \/ (\E body \in Contents : Request(body, FALSE)) \/ \E size \in Sizes : Request(size, TRUE)
  \/ \E r \in requests, ok, condition, throws \in BOOLEAN, size \in Sizes :
       SuccessCallback(r, ok, size, condition, throws)
  \/ \E r \in requests, throws \in BOOLEAN : FailCallback(r, throws)
  \/ \E args \in Arguments, throws \in BOOLEAN : ConsoleError(args, throws)
  \/ \E reason \in Reasons :
       Uncaught(reason) \/ \E name \in {"ErrorEvent", "UnhandleRejection"} : Unhandled(reason, name)
  \/ Leave

-----------------------------------------------------------------------------
\* What is reported of a request that ended tells what became of it.
IsReported(e) ==
  LET of == {j \in DOMAIN reported : reported[j].call = e.call}
  IN  /\ e.wanted => of # {}
      /\ e.own => of = {}
      /\ of # {} => IF e.outcome = "ok" THEN e.wanted ELSE options.fail
      /\ e.outcome = "ok" /\ e.opens = 1 => \A j, k \in of : j = k
      /\ \A j \in of :
           /\ reported[j].page = e.from
           /\ e.outcome # "ok" =>
                /\ e.body \in Nat => reported[j].body = e.body
                /\ e.response \in Nat => reported[j].response = e.response
           /\ e.outcome = "ok" =>
                Fits(reported[j].body, MaxFieldKb) /\ Fits(reported[j].response, ResponseLimit)

\* network.ts, error.ts: a request that the options ask for is reported, from
\* the page it was made at however the user moved on, the texts of it whole if
\* it failed and within the limits if not; once, if it succeeded on an object
\* used once.  No other is, and none of the SDK's own.  Every error that is
\* reported has a name and a text, unless the host itself logged an Error that
\* it gave the empty name, or logged or rejected with the empty text.
RequestsAreReported ==
  /\ \A i \in DOMAIN finished : IsReported(finished[i])
  /\ \A i \in DOMAIN reported :
       LET r == reported[i]
       IN  r.type = "thrown" =>
             /\ r.name = "" => r.given.is = "Error" /\ r.given.name = ""
             /\ r.message = "" => r.given.is = "string" /\ r.given.message = ""
=============================================================================
