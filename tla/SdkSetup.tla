------------------------------ MODULE SdkSetup ------------------------------
(***************************************************************************)
(* How the SDK gets into an application with the options it was given:     *)
(* the build plugin (core/src/lib.ts) writes it into the page of a web     *)
(* application or into the entry of a mini-program, the options pass       *)
(* through the defaults (core/src/utils.ts), through JSON and through the  *)
(* defaults again, and then decide which plugins run (browser/index.ts,    *)
(* mp-uni/index.ts).                                                       *)
(*                                                                         *)
(* An option is a number: a switch is 0 or 1, and three values stand for   *)
(* what is no number.  A nested option has its group in its name.          *)
(***************************************************************************)
EXTENDS Integers, FiniteSets

CONSTANTS
  Files,       \* the modules of the application: [path, vendored]
  Wishes       \* the option lists a user writes: functions on some of the keys

(* Each module has its path, and the options are numbers.                   *)
ASSUME SetupAssumption ==
  /\ \A f \in Files : f.vendored \in BOOLEAN
  /\ \A f, g \in Files : ~f.vendored /\ ~g.vendored /\ f.path = g.path => f = g
  /\ \A options \in Wishes : \A k \in DOMAIN options : options[k] \in Int

Unset   == -100
Null     == -101
Infinite == -102

VARIABLES
  wish,      \* what the user wrote
  target,    \* the kind of application, or "direct" where a page starts the SDK itself
  entries,   \* the entry option: paths, none if it was left out
  written,   \* per file of the last build: the SDK's code is in it
  pageScript, \* the page of the last build has the SDK's script
  failed,    \* the build stopped
  sdk        \* what started

setupVars == <<wish, target, entries, written, pageScript, failed, sdk>>

Default ==
  [collect |-> 1, error |-> 1, report |-> 1, interval |-> 10, maxRetry |-> 5,
   fcpThreshold |-> 2500, networkEnable |-> 0, networkSuccess |-> 1,
   networkFail |-> 1, networkLimit |-> 100, recordEnable |-> 0, recordEvery |-> 5]
Keys == DOMAIN Default
Network == {"networkEnable", "networkSuccess", "networkFail", "networkLimit"}

Asked(options, k) == IF k \in DOMAIN options THEN options[k] ELSE Unset

Stopped == [starts |-> 0, plugins |-> {}, options |-> Default, interval |-> 0, retry |-> 0]

SetupInit ==
  /\ wish \in Wishes
  /\ target \in {"web", "h5", "mp", "direct"}
  /\ entries \in SUBSET {f.path : f \in Files}
  /\ written = [f \in Files |-> FALSE]
  /\ pageScript = FALSE /\ failed = FALSE
  /\ sdk = Stopped

-----------------------------------------------------------------------------
(* What is undefined or null leaves the default, key by key inside a group. *)
MergeConfig(config) ==
  [k \in Keys |->
     IF Asked(config, k) \in {Unset, Null} THEN Default[k] ELSE config[k]]

(* JSON has no infinity.                                                    *)
Stringify(config) ==
  [k \in DOMAIN config |-> IF config[k] = Infinite THEN Null ELSE config[k]]

NormalizeInterval(v) == IF v \in {Unset, Null, Infinite} \/ v <= 0 THEN 10 ELSE v
NormalizeMaxRetry(v) ==
  IF v \in {Unset, Null} THEN Default.maxRetry
  ELSE IF v = Infinite \/ v <= 0 THEN Infinite ELSE v

IsH5 == target # "mp"

(* The entry of a uni application is the main file of its input directory,  *)
(* whatever the option says.                                                *)
GetMainEntry == IF \E f \in Files : f.path = "main.ts" THEN "main.ts" ELSE "main.js"
TransformInclude(f) ==
  /\ ~f.vendored
  /\ IF target = "web" THEN f.path \in entries ELSE f.path = GetMainEntry

(* A module is built, again after each change: the code is put in front of  *)
(* what its source is.  Without the option there is no path to compare with.*)
Transform(f) ==
  /\ target # "direct" /\ ~failed
  /\ IF target = "web" /\ entries = {} /\ ~f.vendored
     THEN failed' = TRUE /\ UNCHANGED written
     ELSE /\ written' = [written EXCEPT ![f] = TransformInclude(f) /\ ~IsH5]
          /\ UNCHANGED failed
  /\ UNCHANGED <<wish, target, entries, pageScript, sdk>>

TransformIndexHtml ==
  /\ target # "direct" /\ ~failed
  /\ pageScript' = IsH5
  /\ UNCHANGED <<wish, target, entries, written, failed, sdk>>

-----------------------------------------------------------------------------
(* The plugins a mini-program registers are chosen when it is built, those  *)
(* of a page when the SDK starts.                                           *)
ShouldEnablePlugin(plugin, options) ==
  CASE plugin = "error" -> options.error = 1
    [] plugin = "collect" -> options.collect = 1
    [] plugin = "network" -> options.networkEnable = 1
    [] plugin = "record" -> options.recordEnable = 1
    [] OTHER -> TRUE
Registered == IF target = "mp" THEN {"collect", "error", "network"}
              ELSE {"collect", "error", "network", "record", "perf"}
SwitchedOn(options) == {p \in Registered : ShouldEnablePlugin(p, options)}

(* The options the SDK is constructed with.                                 *)
Config == IF target = "direct" THEN wish ELSE Stringify(MergeConfig(wish))

BuryReport(config) ==
  LET options == MergeConfig(config) IN
  IF Asked(config, "report") # 1 THEN [Stopped EXCEPT !.starts = 1, !.options = options]
  ELSE [starts |-> 1, plugins |-> SwitchedOn(options), options |-> options,
        interval |-> NormalizeInterval(Asked(config, "interval")),
        retry |-> NormalizeMaxRetry(Asked(config, "maxRetry"))]

Copies == Cardinality({f \in Files : written[f]}) + IF pageScript \/ target = "direct" THEN 1 ELSE 0

(* The application is opened.                                               *)
OpenApplication ==
  /\ ~failed /\ Copies > 0
  /\ sdk' = [BuryReport(Config) EXCEPT !.starts = Copies]
  /\ UNCHANGED <<wish, target, entries, written, pageScript, failed>>

SetupNext ==
  \/ \E f \in Files : Transform(f)
  \/ TransformIndexHtml
  \/ OpenApplication

-----------------------------------------------------------------------------
\* What of an option leaves its default.
Lost == IF target = "direct" THEN {Unset, Null} ELSE {Unset, Null, Infinite}

(* An application that opens runs one SDK, whatever files are named as      *)
(* entries and however often they are built, with every option the user     *)
(* gave and the default of each he left out, also inside the groups, and    *)
(* with exactly the plugins that were switched on; the cycle is positive.   *)
(* Two things are as the code has them: without the build plugin the SDK    *)
(* must be told to report (browser/index.ts:58), and what is Infinity, such *)
(* as an unlimited number of retries, does not pass the build (lib.ts:56).  *)
SetupIsAsConfigured ==
  sdk.starts > 0 =>
    /\ sdk.starts = 1
    /\ \A k \in Keys :
         sdk.options[k] = IF Asked(wish, k) \in Lost THEN Default[k] ELSE wish[k]
    /\ IF Asked(wish, "report") \notin (IF target = "direct" THEN {1} ELSE {1, Unset, Null})
       THEN sdk.plugins = {}
       ELSE /\ sdk.plugins = SwitchedOn(sdk.options)
            /\ sdk.interval > 0
            /\ Asked(wish, "maxRetry") > 0 => sdk.retry = wish["maxRetry"]
            /\ Asked(wish, "maxRetry") \in -1..0 => sdk.retry = Infinite
=============================================================================
