----------------------------- MODULE McpServer -----------------------------
(***************************************************************************)
(* The MCP server (mcp-server/src/main.ts): it keeps one transport for     *)
(* each session of an agent, and its two tools ask the server of the       *)
(* console for one thing after another, while other users change what is   *)
(* asked about.  A tool runs on when its session is closed, and its answer *)
(* is lost then.  Calls share nothing but what the server keeps, so one is *)
(* under way at a time.                                                    *)
(*                                                                         *)
(* The answer of the server is taken for what it carries: neither its HTTP *)
(* status nor its code is looked at, so a refusal that carries nothing is  *)
(* a success of a call whose result is not used.                           *)
(***************************************************************************)
EXTENDS Integers, Sequences, FiniteSets, SequencesExt

CONSTANTS
  MaxSessions, \* bound on the sessions
  Plan,        \* the deployment tasks of an application
  Words,       \* what a task may be called: a name holds some words
  Prints, Owners, \* fingerprints of errors, and devices
  Around,      \* how far a request lies from its error at most
  MaxStamp,    \* bound on the clock of the records
  MaxStories,  \* bound on the records that come in
  MaxRequests  \* the page of requests the tool asks for

ASSUME McpAssumption == IsFiniteSet(Plan)

VARIABLES
  transports,  \* the open sessions
  given,       \* the number of sessions given out
  plan,        \* per task: the words of its name, its state, who changed it
  errors,      \* the error records, oldest first
  networks,    \* the request records, oldest first
  tool,        \* the call under way
  answer       \* what the agent was told of its last call

mcpVars == <<transports, given, plan, errors, networks, tool, answer>>

NoTool == [phase |-> "none"]

McpInit ==
  /\ transports = {} /\ given = 0
  /\ plan = [t \in Plan |-> [words |-> {}, state |-> "none", by |-> {}]]
  /\ errors = <<>> /\ networks = <<>>
  /\ tool = NoTool
  /\ answer = <<>>

-----------------------------------------------------------------------------
(* POST without a session, for an initialization: the id is new.            *)
Initialize ==
  /\ given < MaxSessions
  /\ given' = given + 1
  /\ transports' = transports \cup {given + 1}
  /\ UNCHANGED <<plan, errors, networks, tool, answer>>

(* DELETE, or the transport closes by itself: its handler removes it.       *)
OnClose(s) ==
  /\ s \in transports
  /\ transports' = transports \ {s}
  /\ UNCHANGED <<given, plan, errors, networks, tool, answer>>

(* SIGINT: every transport is closed, and the process ends with its call.   *)
Shutdown ==
  /\ transports' = {} /\ tool' = NoTool
  /\ UNCHANGED <<given, plan, errors, networks, answer>>

(* POST with a session that is held.                                        *)
McpPostHandler(call) ==
  /\ call.session \in transports /\ tool = NoTool
  /\ tool' = call /\ answer' = <<>>
  /\ UNCHANGED <<transports, given, plan, errors, networks>>

(* The call ends; its answer reaches a session that is still open.          *)
Ends(told) ==
  /\ tool' = NoTool
  /\ answer' = IF tool.session \in transports THEN told ELSE answer
  /\ UNCHANGED <<transports, given, errors, networks>>
Moves(call) ==
  tool' = call /\ UNCHANGED <<transports, given, errors, networks, answer>>

-----------------------------------------------------------------------------
CallDeploy(s, action, word) ==
  McpPostHandler([phase |-> "list", session |-> s, action |-> action, word |-> word])

(* The deploy tool looks the task up by its name, and acts on it only if it *)
(* is the only one.                                                         *)
TasksNamed(word) == {t \in Plan : plan[t].state # "none" /\ word \in plan[t].words}
AnyOf(found) == found # {}
Sole(found)  == Cardinality(found) = 1

Deploy(code, found) == <<"deploy", code, tool.action, found>>

ListTasks ==
  /\ tool.phase = "list"
  /\ LET found == TasksNamed(tool.word) IN
     IF found = {} THEN Ends(Deploy(1, found))
     ELSE IF ~Sole(found) THEN Ends(Deploy(2, found))
     ELSE IF tool.action = "query" THEN Ends(Deploy(0, found))
     ELSE Moves([phase |-> "act", session |-> tool.session, action |-> tool.action,
                 found |-> found, task |-> CHOOSE t \in found : TRUE])
  /\ UNCHANGED plan

(* PUT /task/:id makes it wait again, or run at once; POST stop aborts what *)
(* has not ended; a task that is gone is refused, which is no error here.   *)
ByAgent(t, state) ==
  plan' = [plan EXCEPT ![t].state = state, ![t].by = tool.found]

ActOnTask ==
  /\ tool.phase = "act"
  /\ LET t == tool.task IN
     IF plan[t].state = "none" THEN UNCHANGED plan
     ELSE IF tool.action = "create" THEN \E s \in {"pending", "ended"} : ByAgent(t, s)
     ELSE IF plan[t].state = "pending" THEN ByAgent(t, "aborted")
     ELSE UNCHANGED plan
  /\ \E code \in {0, 1} : Ends(Deploy(code, tool.found)) \* 1: the answer is lost

-----------------------------------------------------------------------------
CallFingerprint(s, fp) ==
  McpPostHandler([phase |-> "errors", session |-> s, fp |-> fp])

(* The newest error with the fingerprint; without one the tool fails.       *)
Newest(those) == IF those = <<>> THEN <<>> ELSE <<Last(those)>>

QueryError ==
  /\ tool.phase = "errors"
  /\ LET e == Newest(SelectSeq(errors, LAMBDA r : r.fp = tool.fp)) IN
     IF e = <<>> THEN Ends(<<"fp", 1, tool.fp>>)
     ELSE Moves([phase |-> "networks", session |-> tool.session, fp |-> tool.fp, error |-> e[1]])
  /\ UNCHANGED plan

(* The newest requests of its device around it, then the device.            *)
Within(r, e)     == r.stamp >= e.stamp - Around /\ r.stamp <= e.stamp + Around
Near(r, e)       == r.uuid = e.uuid /\ Within(r, e)

QueryNetworks ==
  /\ tool.phase = "networks"
  /\ LET near == SelectSeq(networks, LAMBDA r : Near(r, tool.error))
         page == SubSeq(near, Max({1, Len(near) + 1 - MaxRequests}), Len(near))
     IN  Ends(<<"fp", 0, tool.fp, tool.error, page>>)
  /\ UNCHANGED plan

(* Any request of a tool may fail.                                          *)
Throws ==
  /\ tool.phase # "none"
  /\ Ends(IF "fp" \in DOMAIN tool THEN <<"fp", 1, tool.fp>> ELSE Deploy(1, {}))
  /\ UNCHANGED plan

-----------------------------------------------------------------------------
(* Other users plan and rename tasks, tasks run and are dropped; records    *)
(* come in and the oldest are removed.                                      *)
Plans(t, words, state) ==
  /\ state = "ended" => plan[t].state # "none"
  /\ state = "none" => words = {}
  /\ plan' = [plan EXCEPT ![t] = [words |-> words, state |-> state, by |-> {}]]
  /\ UNCHANGED <<transports, given, errors, networks, tool, answer>>

Reports(fp, uuid, stamp) ==
  /\ Len(errors) + Len(networks) < MaxStories
  /\ \/ errors' = Append(errors, [fp |-> fp, uuid |-> uuid, stamp |-> stamp]) /\ UNCHANGED networks
     \/ networks' = Append(networks, [uuid |-> uuid, stamp |-> stamp]) /\ UNCHANGED errors
  /\ UNCHANGED <<transports, given, plan, tool, answer>>

ClearErrors ==
  /\ errors # <<>> /\ errors' = Tail(errors)
  /\ UNCHANGED <<transports, given, plan, networks, tool, answer>>

McpNext ==
  \/ Initialize \/ Shutdown
  \/ \E s \in transports :
       \/ OnClose(s)
       \/ \E action \in {"create", "cancel", "query"}, word \in Words : CallDeploy(s, action, word)
       \/ \E fp \in Prints : CallFingerprint(s, fp)
  \/ ListTasks \/ ActOnTask \/ QueryError \/ QueryNetworks \/ Throws
  \/ \E t \in Plan, words \in SUBSET Words, state \in {"none", "pending", "ended"} :
       Plans(t, words, state)
  \/ \E fp \in Prints, uuid \in Owners, stamp \in 1..MaxStamp : Reports(fp, uuid, stamp)
  \/ ClearErrors

-----------------------------------------------------------------------------
(* A task an agent changed was the only one of the name it gave when it was *)
(* looked up; a name that several tasks share, or none, changes nothing.    *)
OnlyTheNamedTask ==
  \A t \in Plan : plan[t].by # {} => plan[t].by = {t}

(* What is told of a fingerprint is one story: the requests are those of    *)
(* the device the error happened on, around its time and never more than a  *)
(* page of them, whatever came in while the parts were asked for.           *)
OneStory ==
  (Len(answer) = 5) =>
    /\ answer[4].fp = answer[3] /\ Len(answer[5]) <= MaxRequests
    /\ \A r \in ToSet(answer[5]) :
         /\ r.uuid = answer[4].uuid
         /\ r.stamp - answer[4].stamp \in -Around..Around

ToolsTellTheTruth == OnlyTheNamedTask /\ OneStory
=============================================================================
