-------------------------- MODULE CollectionPlugins --------------------------
(***************************************************************************)
(* What the browser SDK collects on one page, from the moment the page is  *)
(* built with the injector until it is left: core/src/browser/injector.ts, *)
(* the plugin registry of browser/index.ts and the error, performance and  *)
(* recording plugins of browser/plugins.                                   *)
(*                                                                         *)
(* The injector starts an early ErrorPlugin and loads two scripts, the SDK *)
(* and the recorder, which arrive in any order or not at all.  Every task  *)
(* of the page (an event with all its listeners, a timer, a script's load) *)
(* is one action.  `report' is what the plugins hand to BuryReport.report  *)
(* and is not dropped there; how it travels on is the business of          *)
(* BrowserSender.  Recorded events are numbered as rrweb emits them.       *)
(***************************************************************************)
EXTENDS Naturals, SequencesExt

CONSTANTS Enabled,       \* the options switched on, among "error" and "record"
          MaxErrors, MaxEvents, MaxWraps, MaxTurns   \* bounds of the model

ASSUME PluginsAssumption ==
  /\ Enabled \subseteq {"error", "record"}
  /\ {MaxErrors, MaxEvents, MaxWraps, MaxTurns} \subseteq Nat

VARIABLES
  core,        \* the SDK: "loading", "missing", "running" or "aborted"
  script,      \* the recorder's script: "loading", "missing" or "loaded"
  plugins,     \* BuryReport.pluginsOrder, as a set of names
  console,     \* who wraps console.error, the outermost last
  origin,      \* originErrorLog: what each error plugin found there
  onError,     \* the error plugins listening to the window's `error'
  onReject,    \* ... and to `unhandledrejection'
  caught,      \* the last error: its kind, and who reported it
  perf,        \* PerfPlugin: fcp, the resources kept, observer, reported
  recording,   \* rrweb is recording
  emitted,     \* the events rrweb has emitted
  events,      \* OperationRecordPlugin.events
  timer,       \* its reportTimer: "none" or "armed"
  hooked,      \* history.pushState is hooked
  waiting,     \* deferred snapshots asked for: what may still take them
  taken,       \* those that took a snapshot, once per time they did
  visible, hiddenDone,   \* the page, and hiddenLifecycleReported
  report,      \* what was reported, in order
  turns        \* the errors, wraps and visibility changes so far

errorVars  == <<console, origin, onError, onReject>>
recordVars == <<recording, emitted, events, timer, hooked, waiting, taken>>
pageVars   == <<visible, hiddenDone>>
pluginsVars == <<core, script, plugins, errorVars, caught, perf, recordVars,
                 pageVars, report, turns>>

Writer == {"early", "sdk"}
Kind   == {"console", "rejection", "uncaught"}
Snap   == 1 .. MaxTurns

-----------------------------------------------------------------------------
(* Errors. *)

\* resetListener: console.error becomes again what the plugin found, whoever
\* wrapped it since.  The `error' listener was added for the capture phase and
\* is removed for the other one, so it stays.
Unlisten(p) ==
  /\ console' = origin[p]
  /\ onReject' = onReject \ {p}
  /\ UNCHANGED <<origin, onError>>

\* Who makes a record of an error of this kind: the early plugin writes it to
\* the queue, the SDK's one reports it, which an aborted SDK does not.
Reporters(kind) ==
  {p \in CASE kind = "console"   -> ToSet(console) \cap Writer
           [] kind = "rejection" -> onReject
           [] kind = "uncaught"  -> onError :
     p = "sdk" => core = "running"}

Throw(kind) ==
  /\ turns.errors < MaxErrors
  /\ turns' = [turns EXCEPT !.errors = @ + 1]
  /\ caught' = [kind |-> kind, by |-> Reporters(kind)]
  /\ UNCHANGED <<core, script, plugins, errorVars, perf, recordVars, pageVars,
                 report>>

\* The host, or a library of its, wraps console.error too.
HostWraps ==
  /\ turns.wraps < MaxWraps
  /\ turns' = [turns EXCEPT !.wraps = @ + 1]
  /\ console' = Append(console, "host")
  /\ UNCHANGED <<core, script, plugins, origin, onError, onReject, caught,
                 perf, recordVars, pageVars, report>>

-----------------------------------------------------------------------------
(* Recording. *)

\* BuryReport.report drops what comes after the abort.
Reported(records) ==
  report' = IF core = "running" THEN report \o records ELSE report

\* collect: everything buffered leaves as one record.
TrackRecord(list) == IF list = <<>> THEN <<>> ELSE <<[type |-> "track", events |-> list]>>
\* Mutant: what was reported stays buffered.
KeepingCollect(list) == /\ Reported(TrackRecord(list))
                        /\ events' = list
Collect(list) == /\ Reported(TrackRecord(list))
                 /\ events' = <<>>

\* emit of an ordinary event: buffered, and a timer started unless one is set.
Buffered(list) == /\ events' = Append(list, emitted + 1)
                  /\ timer' = IF timer = "none" THEN "armed" ELSE timer
                  /\ emitted' = emitted + 1

Emit ==
  /\ recording /\ emitted < MaxEvents
  /\ Buffered(events)
  /\ UNCHANGED <<core, script, plugins, errorVars, caught, perf, recording,
                 hooked, waiting, taken, pageVars, report, turns>>

\* emit of a FullSnapshot: history is hooked, the timer cleared, all collected.
EmitFull ==
  /\ recording /\ emitted < MaxEvents
  /\ emitted' = emitted + 1
  /\ hooked' = TRUE
  /\ timer' = "none"
  /\ Collect(Append(events, emitted + 1))

Checkout ==
  /\ EmitFull
  /\ UNCHANGED <<core, script, plugins, errorVars, caught, perf, recording,
                 waiting, taken, pageVars, turns>>

TimerFires ==
  /\ timer = "armed"
  /\ Collect(events)
  /\ timer' = "none"
  /\ UNCHANGED <<core, script, plugins, errorVars, caught, perf, recording,
                 emitted, hooked, waiting, taken, pageVars, turns>>

\* takeDeferredSnapshot: at most one a second; then the next frame or, when no
\* frame comes, a 100 ms timer takes it.  Whether the last one is a second old
\* is the clock's choice.
Deferred(asked) ==
  waiting' = IF asked
             THEN Append(waiting, [frame |-> TRUE, clock |-> TRUE, done |-> FALSE])
             ELSE waiting

\* Mutant: no timer makes up for the frame.
SnapshotByFrameOnly(i, by) ==
  /\ waiting[i][by]
  /\ by = "frame" => visible
  /\ waiting' = [waiting EXCEPT ![i] = [@ EXCEPT ![by] = FALSE]]
  /\ IF by = "frame" /\ recording
     THEN EmitFull /\ taken' = Append(taken, i)
     ELSE UNCHANGED <<emitted, hooked, timer, events, report, taken>>
  /\ UNCHANGED <<core, script, plugins, errorVars, caught, perf, recording,
                 pageVars, turns>>

\* One of the two comes for the i-th: `done' lets only the first through, and
\* rrweb throws, and is caught, when it no longer records.
Snapshot(i, by) ==
  /\ waiting[i][by]
  /\ by = "frame" => visible
  /\ LET now == ~waiting[i].done
     IN /\ waiting' = [waiting EXCEPT ![i] = [@ EXCEPT ![by] = FALSE, !.done = TRUE]]
        /\ IF now /\ recording
           THEN EmitFull /\ taken' = Append(taken, i)
           ELSE UNCHANGED <<emitted, hooked, timer, events, report, taken>>
  /\ UNCHANGED <<core, script, plugins, errorVars, caught, perf, recording,
                 pageVars, turns>>

\* pushState and replaceState, once hooked.
Navigate ==
  /\ hooked /\ turns.views < MaxTurns
  /\ turns' = [turns EXCEPT !.views = @ + 1]
  /\ \E asked \in BOOLEAN : Deferred(asked)
  /\ UNCHANGED <<core, script, plugins, errorVars, caught, perf, recording,
                 emitted, events, timer, hooked, taken, pageVars, report>>

-----------------------------------------------------------------------------
(* Performance. *)

\* rememberMetric of the first contentful paint: a fast page keeps no
\* resources.
Paint(slow) ==
  /\ "perf" \in plugins /\ ~perf.reported /\ perf.fcp = "none"
  /\ perf' = [perf EXCEPT !.fcp = IF slow THEN "slow" ELSE "fast",
                          !.observing = @ /\ slow,
                          !.resources = @ /\ slow]
  /\ UNCHANGED <<core, script, plugins, errorVars, caught, recordVars,
                 pageVars, report, turns>>

\* The observer brings resource entries.
Resource ==
  /\ perf.observing
  /\ perf' = [perf EXCEPT !.resources = TRUE]
  /\ UNCHANGED <<core, script, plugins, errorVars, caught, recordVars,
                 pageVars, report, turns>>

PerfSeals == "perf" \in plugins /\ ~perf.reported
PerfReported ==
  IF PerfSeals THEN [perf EXCEPT !.reported = TRUE, !.observing = FALSE] ELSE perf
PerfRecord ==
  IF PerfSeals THEN <<[type |-> "perf", resources |-> perf.fcp = "slow"]>> ELSE <<>>

-----------------------------------------------------------------------------
(* The scripts, the registry and the page. *)

PluginsInit ==
  /\ core = "loading"
  /\ script = IF "record" \in Enabled THEN "loading" ELSE "missing"
  /\ plugins = {}
  /\ console = <<"early">>
  /\ origin = [p \in Writer |-> <<>>]
  /\ onError = {"early"}
  /\ onReject = {"early"}
  /\ caught = [kind |-> "none", by |-> {}]
  /\ perf = [fcp |-> "none", resources |-> FALSE, observing |-> FALSE, reported |-> FALSE]
  /\ recording = FALSE /\ emitted = 0 /\ events = <<>> /\ timer = "none"
  /\ hooked = FALSE /\ waiting = <<>> /\ taken = <<>>
  /\ visible = TRUE /\ hiddenDone = FALSE
  /\ report = <<>>
  /\ turns = [errors |-> 0, wraps |-> 0, views |-> 0]

\* Mutant: the early plugin keeps listening.
HandoverKeepingEarly ==
  IF "error" \in Enabled
  THEN /\ console' = Append(console, "sdk")
       /\ origin' = [origin EXCEPT !.sdk = console]
       /\ onError' = onError \cup {"sdk"}
       /\ onReject' = onReject \cup {"sdk"}
  ELSE UNCHANGED errorVars

\* The SDK's script: the early plugin steps back, and the plugins the options
\* enable are initialised.  One task, with no error in between.
Handover ==
  IF "error" \in Enabled
  THEN /\ console' = Append(origin.early, "sdk")
       /\ origin' = [origin EXCEPT !.sdk = origin.early]
       /\ onError' = onError \cup {"sdk"}
       /\ onReject' = (onReject \ {"early"}) \cup {"sdk"}
  ELSE Unlisten("early")

CoreLoads ==
  /\ core = "loading"
  /\ core' = "running"
  /\ plugins' = {"perf"} \cup ({"error"} \cap Enabled)
  /\ perf' = [perf EXCEPT !.observing = TRUE]
  /\ Handover
  /\ UNCHANGED <<script, caught, recordVars, pageVars, report, turns>>

CoreFails ==
  /\ core = "loading"
  /\ core' = "missing"
  /\ Unlisten("early")
  /\ UNCHANGED <<script, plugins, caught, perf, recordVars, pageVars, report, turns>>

\* The recorder's script registers its plugin if the SDK is there, and an
\* instance, aborted or not, initialises it: rrweb starts with a full snapshot.
RecorderLoads ==
  /\ script = "loading"
  /\ script' = "loaded"
  /\ IF core \in {"running", "aborted"}
     THEN /\ plugins' = plugins \cup {"record"}
          /\ recording' = TRUE
          /\ emitted' = 1 /\ hooked' = TRUE
          /\ Collect(<<1>>)
     ELSE UNCHANGED <<plugins, recording, emitted, hooked, events, report>>
  /\ UNCHANGED <<core, errorVars, caught, perf, timer, waiting, taken, pageVars, turns>>

RecorderFails ==
  /\ script = "loading"
  /\ script' = "missing"
  /\ UNCHANGED <<core, plugins, errorVars, caught, perf, recordVars, pageVars,
                 report, turns>>

\* abort: the plugins of the moment are destroyed.
Destroy ==
  /\ IF "error" \in plugins THEN Unlisten("sdk") ELSE UNCHANGED errorVars
  /\ perf' = [perf EXCEPT !.reported = TRUE, !.observing = FALSE]
  /\ recording' = FALSE /\ events' = <<>> /\ timer' = "none" /\ hooked' = FALSE

AbortPage ==
  /\ core = "running"
  /\ core' = "aborted"
  /\ Destroy
  /\ plugins' = {}
  /\ UNCHANGED <<script, caught, emitted, waiting, taken, pageVars, report, turns>>

\* The lifecycle handler: what the recorder holds is collected, and the first
\* of visibilitychange and pagehide reports, which flushes all.
Leftover == IF "record" \in plugins THEN events ELSE <<>>
Lifecycle(t) == IF hiddenDone THEN <<>> ELSE <<[type |-> "lifecycle", t |-> t]>>

\* The recorder's own listeners come last: they were added last.
Seen(left) == IF recording /\ emitted < MaxEvents
              THEN Buffered(left)
              ELSE events' = left /\ UNCHANGED <<timer, emitted>>

\* Mutant: the performance listener is added after the lifecycle handler's.
RecordsPerfLast == (IF hiddenDone THEN <<>> ELSE TrackRecord(Leftover))
                     \o Lifecycle("visibilitychange") \o PerfRecord
\* document.visibilitychange to hidden: the performance plugin's listener is
\* older than the lifecycle handler.
HideRecords == PerfRecord \o (IF hiddenDone THEN <<>> ELSE TrackRecord(Leftover))
                          \o Lifecycle("visibilitychange")
Hide ==
  /\ visible /\ turns.views < MaxTurns
  /\ turns' = [turns EXCEPT !.views = @ + 1]
  /\ visible' = FALSE
  /\ IF core \in {"running", "aborted"}
     THEN /\ perf' = PerfReported
          /\ Reported(HideRecords)
          /\ hiddenDone' = TRUE
     ELSE UNCHANGED <<perf, report, hiddenDone>>
  /\ Seen(IF "record" \in plugins /\ ~hiddenDone THEN <<>> ELSE events)
  /\ UNCHANGED <<core, script, plugins, errorVars, caught, recording, hooked,
                 waiting, taken>>

\* ... to visible: a new checkpoint is asked for.
Show ==
  /\ ~visible
  /\ visible' = TRUE
  /\ hiddenDone' = FALSE
  /\ Seen(events)
  /\ \E asked \in BOOLEAN : Deferred(recording /\ asked)
  /\ UNCHANGED <<core, script, plugins, errorVars, caught, perf, recording,
                 hooked, taken, report, turns>>

\* pagehide comes to the window; a listener of the document, which is where
\* the performance plugin has its own, does not see it.  It may find the page
\* visible, and the page may be shown again.
PageHide ==
  /\ core \in {"running", "aborted"} /\ turns.views < MaxTurns
  /\ turns' = [turns EXCEPT !.views = @ + 1]
  /\ Reported(TrackRecord(Leftover) \o Lifecycle("pagehide"))
  /\ hiddenDone' = TRUE
  /\ Seen(IF "record" \in plugins THEN <<>> ELSE events)
  /\ UNCHANGED <<core, script, plugins, errorVars, caught, perf, recording,
                 hooked, waiting, taken, visible>>

PluginsNext ==
  \/ CoreLoads \/ CoreFails \/ RecorderLoads \/ RecorderFails \/ AbortPage
  \/ \E kind \in Kind : Throw(kind)
  \/ HostWraps
  \/ Emit \/ Checkout \/ TimerFires \/ Navigate
  \/ \E i \in DOMAIN waiting, by \in {"frame", "clock"} : Snapshot(i, by)
  \/ \E slow \in BOOLEAN : Paint(slow)
  \/ Resource
  \/ Hide \/ Show \/ PageHide

PluginsSpec == PluginsInit /\ [][PluginsNext]_pluginsVars

\* Timers of a page fire; frames need not come.
FairPluginsSpec ==
  /\ PluginsSpec
  /\ WF_pluginsVars(TimerFires)
  /\ \A i \in Snap : WF_pluginsVars(i \in DOMAIN waiting /\ Snapshot(i, "clock"))

-----------------------------------------------------------------------------
\* The events of a record, and those of all records in their order.
BatchOf(r) == IF r.type = "track" THEN r.events ELSE <<>>
Recorded == FlattenSeq([i \in DOMAIN report |-> BatchOf(report[i])])

(* An error written to the console and a rejection are reported by one      *)
(* plugin at most, and while the SDK runs with errors enabled every error   *)
(* has the SDK's for a reporter, whoever wraps console.error meanwhile: the *)
(* handover from the early plugin leaves no gap and no overlap              *)
(* (injector.ts:14, ErrorPlugin.init and resetListener).                    *)
ErrorsHaveOneReporter ==
  /\ caught.kind \in {"console", "rejection"} => Cardinality(caught.by) <= 1
  /\ core = "running" /\ "error" \in Enabled =>
       \A kind \in Kind : "sdk" \in Reporters(kind)

(* While the SDK runs, what the recorder has reported and what it still     *)
(* buffers are the events rrweb emitted, each once and in order: no timer,  *)
(* snapshot or page event reports a batch twice or drops one                *)
(* (operationRecord.ts, emit and collect).  Buffered events always have a   *)
(* running timer that will report them (operationRecord.ts:79: no second    *)
(* one is started while one is set), and a deferred snapshot is taken once, *)
(* by the frame or by the timer (operationRecord.ts:121, done).             *)
RecordingIsWhole ==
  /\ core = "running" => Recorded \o events = [i \in 1 .. emitted |-> i]
  /\ events # <<>> => timer = "armed"
  /\ IsInjective(taken)

(* The performance record is reported once at most, and before the record   *)
(* that flushes the queue as the page is hidden (perf.ts:116, and the order *)
(* of the listeners set up by BuryReport.init); a fast page keeps no        *)
(* resource entries, whenever the observer delivers them (perf.ts:99).      *)
PerfLeavesWithTheFlush ==
  LET Is(type) == {i \in DOMAIN report : report[i].type = type}
  IN /\ Cardinality(Is("perf")) <= 1
     /\ \A i \in Is("lifecycle") :
          report[i].t = "visibilitychange" => \E j \in Is("perf") : j < i
     /\ perf.fcp = "fast" => ~perf.resources

(* A snapshot that was asked for is taken, unless the recorder is stopped:  *)
(* the timer makes up for the frames a hidden page does not get.            *)
SnapshotsAreTaken ==
  \A i \in Snap :
    (i \in DOMAIN waiting) ~> (i \in ToSet(taken) \/ ~recording \/ emitted = MaxEvents)

=============================================================================
