----------------------------- MODULE SmallParts -----------------------------
(***************************************************************************)
(* The parts of the system that share no state with the others and are     *)
(* small enough to be checked together: what a reader of the console is    *)
(* shown, what the SDK says of the device and the application it is in,    *)
(* and who is let into the console.  A behavior is about one of them,      *)
(* which is chosen at the start; the others keep one initial state.  The   *)
(* tools of the MCP server read the tasks or the records, never both, so   *)
(* they are two subjects; a host has XMLHttpRequest or uni.request, and its *)
(* errors come by themselves; and in the console the captchas come with no *)
(* request under way, and the requests with one captcha.                   *)
(***************************************************************************)
EXTENDS TrackPayload, RecordQueries, HostHooks, FcpAnalysis, MpTrail,
        ClientParts, DeviceInfo, McpServer, Overview

VARIABLE subject

Subjects ==
  {"replay", "queries", "xhr", "request", "errors", "paint", "trail", "captcha", "windows", "device",
   "setup", "identity", "deploys", "stories", "overview", "portal", "charts"}

Idle(others) ==
  /\ "replay" \in others  => UNCHANGED replayVars
  /\ "queries" \in others => UNCHANGED queryVars
  /\ {"xhr", "request", "errors"} \subseteq others => UNCHANGED hookVars
  /\ "paint" \in others   => UNCHANGED fcpVars
  /\ "trail" \in others   => UNCHANGED trailVars
  /\ {"captcha", "windows"} \subseteq others => UNCHANGED accessVars
  /\ "device" \in others  => UNCHANGED deviceVars
  /\ "setup" \in others   => UNCHANGED setupVars
  /\ "identity" \in others => UNCHANGED identityVars
  /\ {"deploys", "stories"} \subseteq others => UNCHANGED mcpVars
  /\ "overview" \in others => UNCHANGED overviewVars
  /\ "portal" \in others  => UNCHANGED portalVars
  /\ "charts" \in others  => UNCHANGED chartVars

(* Where an initial state is chosen, one is enough for a part at rest.      *)
Fixed(part, var, set) == subject # part => var = CHOOSE x \in set : TRUE

Init ==
  /\ subject \in Subjects
  /\ ReplayInit /\ QueryInit /\ FcpInit /\ TrailInit /\ AccessInit
  /\ HookInit
  /\ subject \notin {"xhr", "request", "errors"} => options = [success |-> TRUE, fail |-> TRUE]
  /\ DeviceInit
  /\ Fixed("device", <<device, frame, inset, offset, theme>>,
           Devices \X Frames \X Insets \X Offsets \X {"light", "dark"})
  /\ SetupInit
  /\ Fixed("setup", <<wish, target, entries>>,
           Wishes \X {"web"} \X {{}})
  /\ IdentityInit
  /\ Fixed("identity", <<platform, collect>>, {"web"} \X {TRUE})
  /\ McpInit /\ OverviewInit /\ PortalInit /\ ChartsInit

(* Every call of the host is of one kind, and a user who left stays away.   *)
Calls(ofThis) == (calls' # calls => ofThis) /\ route' >= route

Next ==
  /\ \/ subject = "replay"  /\ ReplayNext
     \/ subject = "queries" /\ QueryNext
     \/ subject = "xhr"     /\ HookNext /\ UNCHANGED requests /\ Calls(xhr' # xhr)
     \/ subject = "request" /\ HookNext /\ UNCHANGED xhr /\ Calls(requests' # requests)
     \/ subject = "errors"  /\ HookNext /\ UNCHANGED <<xhr, requests>>
     \/ subject = "paint"   /\ FcpNext
     \/ subject = "trail"   /\ TrailNext
     \/ subject = "captcha" /\ AccessNext /\ UNCHANGED asked
     \/ subject = "windows" /\ AccessNext /\ Len(captchas') <= 1
     \/ subject = "device"  /\ DeviceNext
     \/ subject = "setup"   /\ SetupNext
     \/ subject = "identity" /\ IdentityNext
     \/ subject = "deploys" /\ McpNext /\ UNCHANGED <<errors, networks>>
     \/ subject = "stories" /\ McpNext /\ UNCHANGED plan
     \/ subject = "overview" /\ OverviewNext
     \/ subject = "portal"  /\ PortalNext
     \/ subject = "charts"  /\ ChartsNext
  /\ Idle(Subjects \ {subject})
  /\ UNCHANGED subject

-----------------------------------------------------------------------------
(***************************************************************************)
(* The properties of the parts, by what they are about.  Each part states  *)
(* its own; one at rest keeps an initial state, about which its own        *)
(* behaviors say all there is to say.                                      *)
(***************************************************************************)

(* What a reader is told is what is kept: a replay assembled from payloads  *)
(* that were cut and sent again, the pages of a paginated list while        *)
(* records arrive, the timeline of a session, the answers of the tools of   *)
(* the MCP server, and the projects of the portal, searched while others    *)
(* change them.                                                             *)
ReadersAreToldTheTruth ==
  /\ subject = "replay"  => ReplayIsFaithful /\ OnlyTheUncutAreTooLarge
  /\ subject = "queries" => PagesLoseNothing
  /\ subject = "trail"   => TimelineIsFaithful
  /\ subject \in {"deploys", "stories"} => ToolsTellTheTruth
  /\ subject = "portal"  => BoardIsShown

(* What is derived is what it is derived from: the phases and percentiles   *)
(* of the first paint and the statistics of the overview from the records,  *)
(* and the description of the device from what the browser or the host      *)
(* says, however it is held.                                                *)
DerivedDataIsRight ==
  /\ subject = "paint"    => PhasesAreTrue /\ AnalysisAddsUp
  /\ subject = "overview" => OverviewAddsUp
  /\ subject = "device"   => InfoIsTheDevice
=============================================================================
