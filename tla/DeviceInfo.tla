----------------------------- MODULE DeviceInfo -----------------------------
(***************************************************************************)
(* What the collect plugin says of the device: the environment of a        *)
(* browser (browser/plugins/collect.ts) and of a mini-program              *)
(* (mp-uni/plugins/collect.ts), sampled each time the SDK starts, while    *)
(* the user turns the device and resizes the window.                       *)
(*                                                                         *)
(* A user agent is the list of the fields between its first parentheses    *)
(* and the list of its products; a field is a word with what follows it,   *)
(* a regular expression a question about those.  Versions are opaque.      *)
(***************************************************************************)
EXTENDS Integers, Sequences, FiniteSets, SequencesExt

CONSTANTS
  Devices,     \* the devices: what they are, and what they say they are
  Frames,      \* sizes of the window: [inner, client, height]
  Insets,      \* safe areas: [top, right, bottom, left]
  Offsets,     \* the --window-* variables of the page: [top, bottom]
  HostSupport, \* the sets of calls a mini-program host knows
  MaxReports   \* bound on the starts of the SDK

VARIABLES device, angle, frame, inset, offset, theme, reports

deviceVars == <<device, angle, frame, inset, offset, theme, reports>>

Undefined == "undefined"
NotANumber == -1

DeviceInit ==
  /\ device \in Devices
  /\ angle = 0
  /\ frame \in Frames /\ inset \in Insets /\ offset \in Offsets
  /\ theme \in {"light", "dark"}
  /\ reports = <<>>

-----------------------------------------------------------------------------
(* Questions about a user agent.                                            *)
Fields(ua, words)  == SelectSeq(ua.fields, LAMBDA f : f.word \in words)
Says(ua, words)    == Fields(ua, words) # <<>>
Product(ua, names) == SelectSeq(ua.products, LAMBDA p : p.name \in names)

SaysIOS(ua)     == Says(ua, {"iPhone", "iPad", "iPod"})
SaysAndroid(ua) == Says(ua, {"Android"})
SaysMac(ua)     == Says(ua, {"Macintosh", "Mac OS X", "like Mac OS X"})
SaysWindows(ua) == Says(ua, {"Windows NT"})
SaysLinux(ua)   == Says(ua, {"Linux", "X11"})

WindowsNames ==
  [v \in {"5.1", "6.0", "6.1", "6.2", "6.3", "10.0"} |->
     CASE v = "5.1" -> "XP" [] v = "6.0" -> "Vista" [] v = "6.1" -> "7"
       [] v = "6.2" -> "8"  [] v = "6.3" -> "8.1"   [] v = "10.0" -> "10"]
Framework(ua) == Fields(ua, {"Win", "WOW"})

(* The model of an Android device is the first field that is neither the    *)
(* system, a language, a version nor a view, or the one with a build.       *)
Noise == {"Android", "Linux", "U", "language", "wv", "version", "Browser", "Mobile"}
AndroidModel(ua) ==
  LET named == SelectSeq(ua.fields, LAMBDA f : f.build \/ f.word \notin Noise)
  IN  IF named = <<>> THEN Undefined ELSE Head(named).word

VersionOf(ua, words) ==
  IF Says(ua, words) THEN Head(Fields(ua, words)).value ELSE Undefined

Os(name, version, model, kind) ==
  [name |-> name, version |-> version, model |-> model, kind |-> kind]

(* The order of the questions tells systems apart that share words: an      *)
(* Android says Linux, an iPhone says Mac, an iPad with a touch screen says *)
(* it is a Macintosh.                                                       *)
OsOf(d) ==
  LET ua == d.ua IN
  CASE SaysIOS(ua) ->
         Os("ios", <<VersionOf(ua, {"like Mac OS X"})>>, Head(ua.fields).word, "phone")
    [] ~SaysIOS(ua) /\ SaysAndroid(ua) ->
         Os("android", <<VersionOf(ua, {"Android"})>>, AndroidModel(ua), "phone")
    [] ~SaysIOS(ua) /\ ~SaysAndroid(ua) /\ SaysMac(ua) /\ d.touch ->
         Os("ios", <<IF d.bigInt THEN "14.0" ELSE "13.0">>, "iPad", "pad")
    [] OTHER ->
         CASE SaysWindows(ua) ->
                Os("windows", <<WindowsNames[VersionOf(ua, {"Windows NT"})],
                                VersionOf(ua, {"Win", "WOW"})>>, "PC", "pc")
           [] ~SaysWindows(ua) /\ SaysMac(ua) ->
                Os("macos", <<VersionOf(ua, {"Mac OS X"})>>, "PC", "pc")
           [] ~SaysWindows(ua) /\ ~SaysMac(ua) /\ SaysLinux(ua) ->
                Os("linux", <<VersionOf(ua, {"Linux"})>>, "PC", "pc")
           [] OTHER -> Os("other", <<"0">>, Undefined, "unknown")

(* The version of an old Internet Explorer is read with a pattern that      *)
(* matches nothing, so it is what the last match before it left: the word   *)
(* size of a 64 bit Windows, or nothing that is above 6.                    *)
IsIE(ua)   == Says(ua, {"compatible"}) /\ Says(ua, {"MSIE"})
IsEdge(ua) == Product(ua, {"Edge"}) # <<>> /\ ~IsIE(ua)
IsIE11(ua) == Says(ua, {"Trident"}) /\ Says(ua, {"rv:11.0"})
IEVersion(ua) ==
  IF IsIE(ua) THEN IF Framework(ua) # <<>> THEN Head(Framework(ua)).value ELSE "6"
  ELSE IF ~IsEdge(ua) /\ IsIE11(ua) THEN "11" ELSE Undefined

(* Of the vendors a user agent names, the last of this list is the one.     *)
Vendors == <<<<"safari", {"Version"}>>, <<"firefox", {"Firefox"}>>,
             <<"chrome", {"Chrome"}>>, <<"edge", {"Edg", "Edge"}>>>>
Vendor(ua) ==
  LET named == SelectSeq(Vendors, LAMBDA v : Product(ua, v[2]) # <<>>)
  IN  IF named = <<>> THEN <<"", Undefined>>
      ELSE <<Last(named)[1], Head(Product(ua, Last(named)[2])).version>>
Browser(ua) ==
  IF IEVersion(ua) # Undefined THEN <<"ie", IEVersion(ua)>> ELSE Vendor(ua)

-----------------------------------------------------------------------------
(* The device is turned: the newer interface says by how much in 0..270,    *)
(* the older one from -90 to 180.  A phone of Apple's keeps giving the      *)
(* screen as if it stood upright.                                           *)
ModernAngle(d) == IF d.modern THEN angle ELSE NotANumber
OldAngle       == IF angle = 270 THEN -90 ELSE angle
AngleOf(d)     == IF d.modern THEN angle ELSE OldAngle
Quarter(a)     == a = 90 \/ a = -90
Turned         == angle \in {90, 270}

ScreenAt(d) ==
  IF Turned /\ d.is.os # "ios" THEN [width |-> d.height, height |-> d.width]
  ELSE [width |-> d.width, height |-> d.height]

DeviceOrientation(d) == IF Quarter(AngleOf(d)) THEN "landscape" ELSE "portrait"

GetScreenFix(d) ==
  /\ SaysIOS(d.ua)
  /\ IF d.modern THEN ModernAngle(d) # 0 ELSE TRUE

IsLandscape(d) == GetScreenFix(d) /\ Quarter(AngleOf(d))

GetScreenWidth(d) ==
  LET s == ScreenAt(d) IN
  IF ~GetScreenFix(d) THEN s.width
  ELSE IF IsLandscape(d) THEN Max({s.width, s.height}) ELSE Min({s.width, s.height})
GetScreenHeight(d) ==
  LET s == ScreenAt(d) IN
  IF ~GetScreenFix(d) THEN s.height
  ELSE IF IsLandscape(d) THEN Min({s.width, s.height}) ELSE Max({s.width, s.height})

(* A page without a width of its own gives the screen's.                    *)
GetWindowWidth(screenWidth) ==
  LET least == Min({frame.inner, frame.client, screenWidth})
  IN  IF frame.client = NotANumber \/ least = 0 THEN screenWidth ELSE least

GetWindowTop    == IF offset.top = 0 THEN 0 ELSE offset.top + inset.top
GetWindowBottom == IF offset.bottom = 0 THEN 0 ELSE offset.bottom + inset.bottom

GetWindowInfo(d) ==
  LET screenWidth == GetScreenWidth(d)
      windowWidth == GetWindowWidth(screenWidth)
  IN  [ww |-> windowWidth, wh |-> frame.height - GetWindowTop - GetWindowBottom,
       wt |-> GetWindowTop, wb |-> GetWindowBottom,
       sw |-> screenWidth, sh |-> GetScreenHeight(d),
       sbh |-> inset.top, sa |-> inset,
       safe |-> [left |-> inset.left, right |-> windowWidth - inset.right,
                 width |-> windowWidth - inset.left - inset.right]]

(* A page compiled by uni decides its theme itself, others follow the user. *)
GetTheme(d) ==
  IF d.darkmode = "absent" \/ d.darkmode = "true" THEN theme
  ELSE IF d.darkmode = "false" THEN "light" ELSE d.darkmode

BrowserInfo(d) ==
  LET os == OsOf(d) browser == Browser(d.ua) IN
  [dt |-> os.kind, dm |-> os.model, on |-> os.name, ov |-> os.version,
   do |-> DeviceOrientation(d), bn |-> browser[1], bv |-> browser[2],
   hv |-> browser[2], theme |-> GetTheme(d), up |-> "web", window |-> GetWindowInfo(d)]

(* A mini-program takes each part from the newest call its host knows, and  *)
(* the rest from the call they all know.                                    *)
HostInfo(d, known) ==
  LET Newer(call, new, old) == IF call \in known THEN new ELSE old IN
  [dt |-> Newer("getDeviceInfo", d.host.kind, d.old.kind),
   dm |-> Newer("getDeviceInfo", d.host.model, d.old.model),
   on |-> Newer("getDeviceInfo", d.host.os, d.old.os),
   dp |-> Newer("getWindowInfo", d.host.ratio, d.old.ratio),
   hv |-> Newer("getAppBaseInfo", d.host.version, d.old.version),
   al |-> Newer("getSystemSetting", d.host.located, Undefined)]

-----------------------------------------------------------------------------
Start ==
  /\ Len(reports) < MaxReports
  /\ \E known \in HostSupport :
       reports' = Append(reports,
         [info |-> IF device.mp THEN HostInfo(device, known) ELSE BrowserInfo(device),
          angle |-> angle])
  /\ UNCHANGED <<device, angle, frame, inset, offset, theme>>

Rotate(a) ==
  /\ device.turns /\ angle' = a
  /\ UNCHANGED <<device, frame, inset, offset, theme, reports>>

Resize(f) ==
  /\ frame' = f
  /\ UNCHANGED <<device, angle, inset, offset, theme, reports>>

DeviceNext ==
  \/ Start
  \/ \E a \in {0, 90, 180, 270} : Rotate(a)
  \/ \E f \in Frames : Resize(f)

-----------------------------------------------------------------------------
(* The report names the system, the kind of device and the browser the user *)
(* really has, or no browser at all, although most user agents name several *)
(* (collect.ts:97-220).                                                     *)
NamesTheDevice(r) ==
  /\ r.info.on = device.is.os /\ r.info.dt = device.is.kind
  /\ r.info.bn \in {device.is.browser, ""}
  /\ device.is.kind # "pc" => r.info.dm = device.is.model

(* The screen it reports is as wide as the way it says the device is held,  *)
(* and the window lies in the screen; a device turned to the right that has *)
(* screen.orientation is said to stand upright, and an iPad that calls      *)
(* itself a Macintosh keeps its upright width (collect.ts:225, 287-292).    *)
FitsTheScreen(r) ==
  LET w == r.info.window IN
  /\ (device.turns /\ ~(device.modern /\ r.angle = 270))
       => /\ (r.info.do = "landscape") = (r.angle \in {90, 270})
          /\ device.is.kind # "pad" => (r.info.do = "landscape") = (w.sw > w.sh)
  /\ {w.sw, w.sh} = {device.width, device.height}
  /\ 0 < w.ww /\ w.ww <= w.sw

(* In a mini-program the device is described by one call, never by a mix.   *)
NamesTheHost(r) ==
  \E call \in {device.old, device.host} :
    r.info.dt = call.kind /\ r.info.dm = call.model /\ r.info.on = call.os

(* Every start of the SDK describes the device as it is, whichever way it   *)
(* is held and whatever its user agent is shared with.                      *)
InfoIsTheDevice ==
  \A i \in DOMAIN reports :
    IF device.mp THEN NamesTheHost(reports[i])
    ELSE NamesTheDevice(reports[i]) /\ FitsTheScreen(reports[i])
=============================================================================
