--------------------------- MODULE Administration ---------------------------
(***************************************************************************)
(* The console's writes and the nightly clean-up of the server             *)
(* (packages/server/src/apis/alert.ts, app.ts, main.ts, model/device.ts),  *)
(* with the copy of the alert rules that the log service keeps             *)
(* (packages/logs/src/services/task.rs, alert.rs).                         *)
(*                                                                         *)
(* A handler is a call: a record in calls, which says what it does next.   *)
(* Calls interleave at every await.  A call may fail at an await, and a    *)
(* crash of the server ends all of them.                                   *)
(***************************************************************************)
EXTENDS Integers, FiniteSets, SequencesExt

CONSTANTS
  Rule,       \* alert rules, numbered in the order of their insertion
  Kind,       \* what a rule listens to
  KeyOf,      \* KeyOf[r]: the kind of rule r
  App,        \* apps
  Project,    \* projects
  Name,       \* names of apps
  Logged,     \* the app whose log is cleaned
  Open,       \* device records, one for each time a page is opened
  InfoDays,   \* age at which a device record is added up and removed
  LogDays,    \* cycle_log, the age at which any record of the log is removed
  MaxCalls, MaxClock, MaxFaults  \* bounds of the model

ASSUME AdministrationAssumption ==
  /\ KeyOf \in [Rule -> Kind]
  /\ Rule \subseteq Nat \ {0} /\ Open \subseteq Nat
  /\ Logged \in App
  /\ {InfoDays, LogDays, MaxCalls, MaxClock, MaxFaults} \subseteq Nat
  /\ InfoDays # 0 /\ InfoDays <= LogDays
  /\ Project # {} /\ Name # {}

VARIABLES
  clock,     \* days
  rules,     \* the collection alert_rule: "none", "on", "off" or "gone"
  ruleMap,   \* RULE_MAP of the app: Kind -> Rule with its switch
  apps,      \* the collection apps: state and name
  entries,   \* the lists "apps" of the collection projects
  log,       \* records_log: the device records that it holds, with their day
  opened,    \* the device records that have been written so far
  counted,   \* statistic_device: how often a record went into total_open
  unsent,    \* updates of statistic_device that nobody waits for
  calls,     \* handlers and clean-ups under way
  started,   \* how many calls there have been
  faults,
  version, mapVersion,  \* history: writes of the rules, and the copy's
  unsynced,             \* history: the last attempt to copy the rules failed
  torn,                 \* history: apps and records that a fault hit
  crossed               \* history: apps that were moved, or had two calls at once

vars == <<clock, rules, ruleMap, apps, entries, log, opened, counted, unsent,
          calls, started, faults, version, mapVersion, unsynced, torn, crossed>>

ruleVars == <<rules, ruleMap, version, mapVersion, unsynced>>
appVars  == <<apps, entries>>
history  == <<torn, crossed>>
logVars  == <<log, opened, counted, unsent>>

NoRule == [rule |-> 0, on |-> FALSE]

-----------------------------------------------------------------------------
(***************************************************************************)
(* AlertRuleMap::from_models: a later rule of a kind replaces an earlier   *)
(* one, enabled or not.  Rules are read in the order of their insertion,   *)
(* which is that of Rule here.                                             *)
(***************************************************************************)
Live(rs, k) == {r \in Rule : KeyOf[r] = k /\ rs[r] \in {"on", "off"}}

FromModels(rs) ==
  [k \in Kind |->
     IF Live(rs, k) = {}
     THEN NoRule
     ELSE LET last == CHOOSE r \in Live(rs, k) : \A q \in Live(rs, k) : q <= r
          IN  [rule |-> last, on |-> rs[last] = "on"]]

\* check_rule: the rule that an error of kind k hits.
CheckRule(m, k) == IF m[k].on THEN m[k].rule ELSE 0

-----------------------------------------------------------------------------
Begin(call) ==
  /\ started < MaxCalls
  /\ started' = started + 1
  /\ calls' = calls \cup {[call EXCEPT !.id = started + 1]}

Becomes(c, next) == calls' = (calls \ {c}) \cup next

Finish(c) == Becomes(c, {})

Fault == faults < MaxFaults /\ faults' = faults + 1

\* Another call on app a is under way.
Busy(a) == \E c \in calls : c.op = "app" /\ c.app = a

(***************************************************************************)
(* The handlers of the alert rules: one write of the collection, then a    *)
(* request to the log service.                                             *)
(***************************************************************************)
Change == {"create", "on", "off", "delete"}

Changed(r, how) ==
  CASE how = "create" -> IF rules[r] = "none" THEN "on" ELSE rules[r]
    [] how = "delete" -> IF rules[r] = "none" THEN "none" ELSE "gone"
    [] OTHER          -> IF rules[r] \in {"none", "gone"} THEN rules[r] ELSE how

\* Mutant: the log service reads before the write.
EarlySync == [id |-> 0, op |-> "rule", snap |-> FromModels(rules), ver |-> version]

Sync == [id |-> 0, op |-> "rule", snap |-> <<>>, ver |-> 0]

WriteRule(r, how) ==
  /\ how = "create" => rules[r] = "none" /\ \A q \in Rule : q < r => rules[q] # "none"
  /\ rules' = [rules EXCEPT ![r] = Changed(r, how)]
  /\ version' = version + 1
  /\ Begin(Sync)
  /\ UNCHANGED <<clock, ruleMap, appVars, logVars, faults, mapVersion, unsynced, history>>

\* sync_alert_rule: find_all ...
ReadRules(c) ==
  /\ c.op = "rule" /\ c.snap = <<>>
  /\ Becomes(c, {[c EXCEPT !.snap = FromModels(rules), !.ver = version]})
  /\ UNCHANGED <<clock, ruleVars, appVars, logVars, started, faults, history>>

\* ... and then RULE_MAP.insert, whatever was inserted in between.
InsertRules(c) ==
  /\ c.op = "rule" /\ c.snap # <<>>
  /\ ruleMap' = c.snap
  /\ mapVersion' = c.ver
  /\ unsynced' = (c.ver < mapVersion \/ (unsynced /\ c.ver < version))
  /\ Finish(c)
  /\ UNCHANGED <<clock, rules, appVars, logVars, started, faults, version, history>>

(***************************************************************************)
(* The request fails or is answered with an error: the first ends the      *)
(* handler with 500, the second it does not look at.  The rule is written. *)
(***************************************************************************)
SyncFails(c) ==
  /\ c.op = "rule"
  /\ Fault
  /\ unsynced' = TRUE
  /\ Finish(c)
  /\ UNCHANGED <<clock, rules, ruleMap, appVars, logVars, started, version, mapVersion, history>>

\* alert::init: a restart of the log service reads the rules, or goes without.
RestartLogService ==
  /\ Fault
  /\ \E ok \in BOOLEAN :
       /\ ruleMap' = IF ok THEN FromModels(rules) ELSE [k \in Kind |-> NoRule]
       /\ unsynced' = ~ok
  /\ mapVersion' = version
  /\ calls' = {c \in calls : c.op = "rule" => c.snap = <<>>}
  /\ UNCHANGED <<clock, rules, appVars, logVars, started, version, history>>

-----------------------------------------------------------------------------
(***************************************************************************)
(* The handlers of the apps.  An entry of a project is what POST /app      *)
(* writes, with the id as a string, or what move_to writes: the document   *)
(* itself, which has an _id and no id, or nothing when the app is deleted. *)
(***************************************************************************)
Entry(p, a, n) == [project |-> p, app |-> a, kind |-> "id", name |-> n]

AppCall(a, todo, n, p) ==
  [id |-> 0, op |-> "app", app |-> a, todo |-> todo, name |-> n, project |-> p]

BeginApp(a, todo, n, p) ==
  /\ Begin(AppCall(a, todo, n, p))
  /\ crossed' = IF Busy(a) THEN crossed \cup {a} ELSE crossed
  /\ UNCHANGED torn

CreateApp(a, n, p) ==
  /\ apps[a].state = "none"
  /\ apps' = [apps EXCEPT ![a] = [state |-> "live", name |-> n]]
  /\ BeginApp(a, {"list"}, n, p)
  /\ UNCHANGED <<clock, ruleVars, entries, logVars, faults>>

\* PATCH /app and DELETE /app: two updates at once (Promise.all).
RenameApp(a, n) ==
  /\ apps[a].state = "live"
  /\ BeginApp(a, {"name", "rename"}, n, CHOOSE p \in Project : TRUE)
  /\ UNCHANGED <<clock, ruleVars, appVars, logVars, faults>>

DeleteApp(a) ==
  /\ apps[a].state # "none"
  /\ BeginApp(a, {"flag", "pull"}, CHOOSE n \in Name : TRUE, CHOOSE p \in Project : TRUE)
  /\ UNCHANGED <<clock, ruleVars, appVars, logVars, faults>>

(***************************************************************************)
(* PATCH /app/:appId/move_to: the $pull looks for an ObjectId among        *)
(* strings and removes nothing; then the app is read.                      *)
(***************************************************************************)
MoveApp(a, p) ==
  /\ apps[a].state # "none"
  /\ Begin(AppCall(a, {IF apps[a].state = "live" THEN "push" ELSE "null"},
                   apps[a].name, p))
  /\ crossed' = crossed \cup {a}
  /\ UNCHANGED <<clock, ruleVars, appVars, logVars, faults, torn>>

WithEntry(e) == entries' = entries \cup {e} /\ UNCHANGED apps

\* Mutant: deleting looks for the id as move_to does.
PullByObjectId(a) == entries

Pulled(a) == {e \in entries : ~(e.kind = "id" /\ e.app = a)}

Renamed(a, n) ==
  {IF e.kind = "id" /\ e.app = a THEN [e EXCEPT !.name = n] ELSE e : e \in entries}

Do(c, step) ==
  CASE step = "list"   -> WithEntry(Entry(c.project, c.app, c.name))
    [] step = "push"   -> WithEntry([Entry(c.project, c.app, c.name) EXCEPT !.kind = "document"])
    [] step = "null"   -> WithEntry([Entry(c.project, c.app, c.name) EXCEPT !.kind = "null"])
    [] step = "name"   -> /\ apps' = [apps EXCEPT ![c.app].name = c.name]
                          /\ UNCHANGED entries
    [] step = "rename" -> entries' = Renamed(c.app, c.name) /\ UNCHANGED apps
    [] step = "flag"   -> /\ apps' = [apps EXCEPT ![c.app].state = "deleted"]
                          /\ UNCHANGED entries
    [] step = "pull"   -> entries' = Pulled(c.app) /\ UNCHANGED apps

Rest(c, step) == IF c.todo = {step} THEN {} ELSE {[c EXCEPT !.todo = @ \ {step}]}

AppStep(c, step) ==
  /\ c.op = "app" /\ step \in c.todo
  /\ Do(c, step)
  /\ Becomes(c, Rest(c, step))
  /\ UNCHANGED <<clock, ruleVars, logVars, started, faults, history>>

AppStepFails(c, step) ==
  /\ c.op = "app" /\ step \in c.todo
  /\ Fault
  /\ torn' = torn \cup {c.app}
  /\ Becomes(c, Rest(c, step))
  /\ UNCHANGED <<clock, ruleVars, appVars, logVars, started, crossed>>

-----------------------------------------------------------------------------
(***************************************************************************)
(* The clean-up at four in the morning, for an app of the list App.getAll. *)
(* clearInfo takes its start_time, aggregateDevices takes its own, reads   *)
(* the records and sends the updates without waiting for them; then the    *)
(* records are removed.  clearLog runs beside it.  A night's clean-up ends *)
(* before the next begins.                                                 *)
(***************************************************************************)
Older(days, t) == {o \in DOMAIN log : log[o] <= t - days}

WriteOpen(o) ==
  /\ o \notin opened
  /\ \A q \in Open : q < o => q \in opened
  /\ opened' = opened \cup {o}
  /\ log' = [q \in DOMAIN log \cup {o} |-> IF q = o THEN clock ELSE log[q]]
  /\ UNCHANGED <<clock, ruleVars, appVars, counted, unsent, calls, started, faults, history>>

Gc ==
  /\ apps[Logged].state = "live"
  /\ \A c \in calls : c.op # "gc"
  /\ Begin([id |-> 0, op |-> "gc", start |-> clock, batch |-> {}, info |-> "read", log |-> TRUE])
  /\ UNCHANGED <<clock, ruleVars, appVars, logVars, faults, history>>

\* Mutant: everything of the log is added up.
Everything(days) == DOMAIN log

\* aggregateDevices: what it adds up, by its own reading of the clock.
Aged(days) == Older(days, clock)

Aggregate(c) ==
  /\ c.op = "gc" /\ c.info = "read"
  /\ unsent' = unsent \cup Aged(InfoDays)
  /\ Becomes(c, {[c EXCEPT !.batch = Older(InfoDays, clock), !.info = "remove"]})
  /\ UNCHANGED <<clock, ruleVars, appVars, log, opened, counted, started, faults, history>>

UpdateDevice(o) ==
  /\ o \in unsent
  /\ unsent' = unsent \ {o}
  /\ counted' = [counted EXCEPT ![o] = @ + 1]
  /\ UNCHANGED <<clock, ruleVars, appVars, log, opened, calls, started, faults, history>>

Without(s) == [o \in DOMAIN log \ s |-> log[o]]

Rests(c, next) ==
  IF next.info = "done" /\ ~next.log THEN Finish(c) ELSE Becomes(c, {next})

\* clearInfo: deleteMany.  What was added up and stays is added up again.
ClearInfo(c) ==
  /\ c.op = "gc" /\ c.info = "remove"
  /\ log' = Without(Older(InfoDays, c.start))
  /\ torn' = torn \cup (c.batch \ Older(InfoDays, c.start))
  /\ Rests(c, [c EXCEPT !.info = "done", !.batch = {}])
  /\ UNCHANGED <<clock, ruleVars, appVars, opened, counted, unsent, started, faults, crossed>>

\* clearLog: a device record that old is removed even if nobody added it up.
ClearLog(c) ==
  /\ c.op = "gc" /\ c.log
  /\ log' = Without(Older(LogDays, clock))
  /\ torn' = torn \cup (Older(LogDays, clock) \ c.batch)
  /\ Rests(c, [c EXCEPT !.log = FALSE])
  /\ UNCHANGED <<clock, ruleVars, appVars, opened, counted, unsent, started, faults, crossed>>

\* One of the clean-up's calls to the database fails; the others go on.
GcFails(c) ==
  /\ c.op = "gc"
  /\ Fault
  /\ \/ c.info # "done" /\ Rests(c, [c EXCEPT !.info = "done", !.batch = {}]) /\ torn' = torn \cup c.batch
     \/ c.log /\ Rests(c, [c EXCEPT !.log = FALSE]) /\ UNCHANGED torn
  /\ UNCHANGED <<clock, ruleVars, appVars, logVars, started, crossed>>

-----------------------------------------------------------------------------
\* The server stops: every call under way ends where it is.
Crash ==
  /\ Fault
  /\ calls # {} \/ unsent # {}
  /\ torn' = torn \cup unsent \cup (UNION {IF c.op = "gc" THEN c.batch ELSE {} : c \in calls})
                  \cup {a \in App : Busy(a)}
  /\ unsynced' = (unsynced \/ \E c \in calls : c.op = "rule")
  /\ calls' = {}
  /\ unsent' = {}
  /\ UNCHANGED <<clock, rules, ruleMap, appVars, log, opened, counted, started,
                 version, mapVersion, crossed>>

Tick ==
  /\ clock < MaxClock
  /\ clock' = clock + 1
  /\ UNCHANGED <<ruleVars, appVars, logVars, calls, started, faults, history>>

Init ==
  /\ clock = 0
  /\ rules = [r \in Rule |-> "none"]
  /\ ruleMap = [k \in Kind |-> NoRule]
  /\ apps = [a \in App |-> [state |-> IF a = Logged THEN "live" ELSE "none",
                            name |-> CHOOSE n \in Name : TRUE]]
  /\ entries = {Entry(CHOOSE p \in Project : TRUE, Logged, CHOOSE n \in Name : TRUE)}
  /\ log = [o \in {} |-> 0] /\ opened = {}
  /\ counted = [o \in Open |-> 0] /\ unsent = {}
  /\ calls = {} /\ started = 0 /\ faults = 0
  /\ version = 0 /\ mapVersion = 0 /\ unsynced = FALSE
  /\ torn = {} /\ crossed = {}

Next ==
  \/ Tick \/ Crash \/ RestartLogService \/ Gc
  \/ \E r \in Rule, how \in Change : WriteRule(r, how)
  \/ \E a \in App, p \in Project : MoveApp(a, p) \/ \E n \in Name : CreateApp(a, n, p)
  \/ \E a \in App : DeleteApp(a) \/ \E n \in Name : RenameApp(a, n)
  \/ \E o \in Open : WriteOpen(o) \/ UpdateDevice(o)
  \/ \E c \in calls :
       \/ ReadRules(c) \/ InsertRules(c) \/ SyncFails(c)
       \/ Aggregate(c) \/ ClearInfo(c) \/ ClearLog(c) \/ GcFails(c)
       \/ \E step \in {"list", "push", "null", "name", "rename", "flag", "pull"} :
            AppStep(c, step) \/ AppStepFails(c, step)

Spec == Init /\ [][Next]_vars

-----------------------------------------------------------------------------
(***************************************************************************)
(* Types: the sets that the variables range over.                          *)
(***************************************************************************)
TypeOK ==
  /\ clock \in 0 .. MaxClock
  /\ rules \in [Rule -> {"none", "on", "off", "gone"}]
  /\ \A k \in Kind : ruleMap[k].rule \in Rule \cup {0} /\ ruleMap[k].on \in BOOLEAN
  /\ apps \in [App -> [state : {"none", "live", "deleted"}, name : Name]]
  /\ entries \subseteq [project : Project, app : App, name : Name,
                        kind : {"id", "document", "null"}]
  /\ DOMAIN log \subseteq opened /\ opened \subseteq Open
  /\ counted \in [Open -> Nat] /\ unsent \subseteq Open
  /\ torn \subseteq App \cup Open /\ crossed \subseteq App

(***************************************************************************)
(* When no call is under way, the copy of the rules in the log service     *)
(* hits what the collection says: the one rule of a kind exactly when it   *)
(* is enabled.  Not so after a request that failed, and not after one that *)
(* was overtaken: it puts the older rules back, and nobody notices         *)
(* (services/task.rs:131-140, apis/alert.ts:33-38).                        *)
(***************************************************************************)
RulesAreFresh ==
  /\ TypeOK
  /\ ~unsynced /\ (\A c \in calls : c.op # "rule") =>
       \A k \in Kind : \A r \in Rule :
         Live(rules, k) = {r} =>
           CheckRule(ruleMap, k) = IF rules[r] = "on" THEN r ELSE 0

(***************************************************************************)
(* Whatever the interleaving, an app that is live is in the list of a      *)
(* project once nothing is under way for it, unless a call failed halfway; *)
(* and an app whose calls came one after the other, none of them a move,   *)
(* is listed exactly while it is live, under its name (apis/app.ts).       *)
(***************************************************************************)
CatalogIsKept ==
  \A a \in App :
    LET own == {e \in entries : e.app = a}
    IN  ~Busy(a) /\ a \notin torn =>
          /\ apps[a].state = "live" => own # {}
          /\ a \notin crossed =>
               own = {e \in own : apps[a].state = "live" /\ e.name = apps[a].name}
          /\ a \notin crossed => Cardinality(own) <= 1

(***************************************************************************)
(* Every opening of a page goes once into the device's total_open: at most *)
(* once, and before its record leaves the log.  The exceptions are a fault *)
(* during the clean-up, a record that grows old between its two readings   *)
(* of the clock, and one that is as old as cycle_log when a clean-up first *)
(* sees it (main.ts:152-163, model/device.ts:19-69).                       *)
(***************************************************************************)
OpensCountedOnce ==
  \A o \in opened \ torn :
    /\ counted[o] <= 1
    /\ o \in DOMAIN log \/ counted[o] = 1 \/ o \in unsent
=============================================================================
