--------------------------- MODULE ConsoleAccess ---------------------------
(***************************************************************************)
(* Who is let into the console, and what its windows then ask for: the     *)
(* slider captcha and the login (server/src/apis/auth.ts, LoginView.vue,   *)
(* captcha.vue), the middlewares in front of every handler                 *)
(* (server/src/apis/index.ts), the interceptors of the console's requests  *)
(* (web/src/util/request.ts), its routes and its menus (web/src/router,    *)
(* RedirectView.vue, useMenu.ts).                                          *)
(*                                                                         *)
(* The windows share the token, which is in the local storage.  What a     *)
(* captcha is drawn with is the position of its slot; the key it is kept   *)
(* under is the millisecond it was drawn in, so two may share one.         *)
(***************************************************************************)
EXTENDS Integers, Sequences, FiniteSets, SequencesExt

CONSTANTS
  Window, App,
  Entries,     \* the entries of the menus the user goes to
  Slots,       \* the positions a slot is drawn at
  Drags,       \* how far the slider is dragged
  Tolerance,   \* verifyCaptcha
  Width,       \* of the image
  MaxCaptchas, \* bound on the captchas drawn
  MaxDrags     \* bound on the answers given

VARIABLES
  captchas,  \* history: every captcha drawn, [key, offset]
  live,      \* those the collection holds
  logins,    \* POST /login under way
  verdicts,  \* history: what POST /login answered
  token,     \* whether the local storage holds one
  win,       \* per window
  asked      \* requests under way, with the headers they left with

accessVars == <<captchas, live, logins, verdicts, token, win, asked>>

Nobody == "nobody"
Portal == <<"portal">>
Login  == <<"login">>
Shows(page) == page[1] = "app"

-----------------------------------------------------------------------------
(* The modules of an application, and the menu of each: the first entry is  *)
(* the one a module opens with; the detail of a device is hidden.           *)
Modules == {"Dashboard", "Statistics", "Manage", "Task"}
Menus ==
  [Dashboard  |-> <<"DashboardView">>,
   Statistics |-> <<"ChartsView">>,
   Manage     |-> <<"SourceView", "LogView", "ErrorView", "NetworkView", "DeviceView",
                    "DeviceDetail", "AlertRule", "AlertView">>,
   Task       |-> <<"TaskListView", "TriggerListView">>]
Content ==
  {"TriggerListView", "TaskListView", "DashboardView", "ChartsView", "SourceView",
   "ErrorView", "DeviceView", "NetworkView", "DeviceDetail", "LogView", "AlertView", "AlertRule"}
Listed(module) == ToSet(Menus[module])

(* A window that was just loaded: only the portal, the login and the        *)
(* redirect are routes.                                                     *)
Loaded(page) ==
  [page |-> page, appid |-> Nobody, routed |-> FALSE, redirected |-> FALSE,
   menu |-> <<>>, form |-> "wait", popover |-> FALSE, shown |-> 0, opened |-> Nobody]

AccessInit ==
  /\ captchas = <<>> /\ live = {} /\ logins = {} /\ verdicts = {}
  /\ token = FALSE
  /\ win = [w \in Window |-> Loaded(Login)]
  /\ asked = {}

-----------------------------------------------------------------------------
(* The guard of the router lets nobody past the login without a token.      *)
BeforeEach(page) == IF token THEN page ELSE Login

(* A module is mounted: its menu is read and its routes are added.          *)
Mounted(w, app, module, view) ==
  [win[w] EXCEPT !.page = <<"app", app, module, view>>, !.menu = Menus[module]]

(* The first address of an application goes through the redirect, which     *)
(* keeps the application's id, adds the modules and goes away.              *)
InitMenu(w, app, module, view) ==
  [Mounted(w, app, module, view) EXCEPT
     !.appid = app, !.routed = TRUE, !.opened = app]

Goes(w, record) == win' = [win EXCEPT ![w] = record]

(* An icon of the portal opens a window at an application's address.        *)
OpenApp(w, app) ==
  /\ LET fresh == Loaded(Portal) IN
     IF BeforeEach(Portal) = Login THEN Goes(w, Loaded(Login))
     ELSE Goes(w, [fresh EXCEPT !.page = <<"app", app, "Dashboard", "DashboardView">>,
                                !.menu = Menus["Dashboard"], !.appid = app,
                                !.routed = TRUE, !.opened = app])
  /\ asked' = {r \in asked : r.window # w}
  /\ UNCHANGED <<captchas, live, logins, verdicts, token>>

(* A link or the history leads the window to a page; within an application  *)
(* the routes are already there.                                            *)
Return(w, app, module, view) ==
  /\ win[w].page[1] # "app" /\ view \in Listed(module)
  /\ win[w].routed => app = win[w].appid
  /\ IF BeforeEach(Portal) = Login THEN Goes(w, [win[w] EXCEPT !.page = Login])
     ELSE Goes(w, IF win[w].routed THEN Mounted(w, app, module, view)
                                   ELSE InitMenu(w, app, module, view))
  /\ UNCHANGED <<captchas, live, logins, verdicts, token, asked>>

(* The logo leads to the portal, in the same window.                        *)
ToPortal(w) ==
  /\ Shows(win[w].page)
  /\ Goes(w, [win[w] EXCEPT !.page = BeforeEach(Portal)])
  /\ UNCHANGED <<captchas, live, logins, verdicts, token, asked>>

(* An entry of the side bar, or a module of the top bar, which opens its    *)
(* first entry.                                                             *)
Select(w, view) ==
  /\ Shows(win[w].page) /\ view \in ToSet(win[w].menu)
  /\ Goes(w, IF token THEN [win[w] EXCEPT !.page[4] = view] ELSE [win[w] EXCEPT !.page = Login])
  /\ UNCHANGED <<captchas, live, logins, verdicts, token, asked>>

HandleSelect(w, module) ==
  /\ Shows(win[w].page)
  /\ Goes(w, IF token THEN Mounted(w, win[w].page[2], module, Menus[module][1])
                      ELSE [win[w] EXCEPT !.page = Login])
  /\ UNCHANGED <<captchas, live, logins, verdicts, token, asked>>

(* The page asks the server, one request at a time; the headers are those   *)
(* of this moment.                                                          *)
RequestInspector(w) ==
  /\ win[w].page # Login /\ \A r \in asked : r.window # w
  /\ asked' = asked \cup {[window |-> w, page |-> win[w].page, authorization |-> token,
                           appid |-> IF token THEN win[w].appid ELSE Nobody]}
  /\ UNCHANGED <<captchas, live, logins, verdicts, token, win>>

(* The middlewares: a token, then for all but the portal an application.    *)
Passes(request) ==
  request.authorization /\ (Shows(request.page) => request.appid # Nobody)

(* A refused request leads to the login page, the first time in a window's  *)
(* life.                                                                    *)
Answer(request) ==
  LET w == request.window IN
  /\ asked' = asked \ {request}
  /\ IF Passes(request) \/ win[w].redirected THEN UNCHANGED win
     ELSE Goes(w, [win[w] EXCEPT !.redirected = TRUE, !.page = Login])
  /\ UNCHANGED <<captchas, live, logins, verdicts, token>>

(* The account menu: the token is removed and the window loaded again.      *)
HandleCommand(w) ==
  /\ Shows(win[w].page)
  /\ token' = FALSE
  /\ Goes(w, Loaded(Login))
  /\ asked' = {r \in asked : r.window # w}
  /\ UNCHANGED <<captchas, live, logins, verdicts>>

(* Another window of the browser logs out.                                  *)
Elsewhere ==
  /\ token /\ token' = FALSE
  /\ UNCHANGED <<captchas, live, logins, verdicts, win, asked>>

-----------------------------------------------------------------------------
(* A click on the button opens the popover and asks for a captcha.          *)
HandleLogin(w) ==
  /\ win[w].page = Login /\ win[w].form = "wait"
  /\ Goes(w, [win[w] EXCEPT !.form = "captcha", !.popover = TRUE])
  /\ UNCHANGED <<captchas, live, logins, verdicts, token, asked>>

(* The millisecond of the next captcha, perhaps that of the last.           *)
Stamps ==
  IF captchas = <<>> THEN {1} ELSE {Last(captchas).key, Last(captchas).key + 1}

(* GET /captcha, and its answer: it replaces the one that is shown.         *)
GetCaptcha(w, slot, key) ==
  /\ win[w].page = Login /\ win[w].popover
  /\ Len(captchas) < MaxCaptchas
  /\ captchas' = Append(captchas, [key |-> key, offset |-> slot])
  /\ live' = live \cup {Len(captchas) + 1}
  /\ Goes(w, [win[w] EXCEPT !.shown = Len(captchas) + 1])
  /\ UNCHANGED <<logins, verdicts, token, asked>>

(* The database removes a captcha ten minutes after it was drawn.           *)
Expire(c) ==
  /\ c \in live /\ live' = live \ {c}
  /\ UNCHANGED <<captchas, logins, verdicts, token, win, asked>>

ClickAway(w) ==
  /\ win[w].page = Login /\ win[w].popover
  /\ Goes(w, [win[w] EXCEPT !.popover = FALSE,
                            !.form = IF @ = "loading" THEN @ ELSE "wait"])
  /\ UNCHANGED <<captchas, live, logins, verdicts, token, asked>>

(* Where the piece is when the slider is dragged, in parts of a pixel, of   *)
(* which one has as many as the slider has pixels to go.                    *)
Parts == Width - 40
BlockStyle(drag) == drag * (Width - 63)
WholePixels(place) == place % Parts = 0

(* What is then sent is read back from the style.  Of a whole number of     *)
(* pixels, which it is with the slider at either end, it takes the bracket  *)
(* along, which makes it no number, sent as null and compared as zero.      *)
OnDragEnd(drag) == IF WholePixels(BlockStyle(drag)) THEN 0 ELSE BlockStyle(drag)

Close(slot, place) ==
  /\ slot * Parts - place < Tolerance * Parts
  /\ place - slot * Parts < Tolerance * Parts

OnFinish(w, drag, password) ==
  /\ win[w].page = Login /\ win[w].popover
  /\ Cardinality(verdicts) + Cardinality(logins) < MaxDrags
  /\ Goes(w, [win[w] EXCEPT !.form = "loading"])
  /\ logins' = logins \cup
       {[window |-> w, id |-> Cardinality(verdicts) + Cardinality(logins),
         captcha |-> win[w].shown, seen |-> BlockStyle(drag),
         answer |-> OnDragEnd(drag), password |-> password, target |-> 0,
         phase |-> "sent"]}
  /\ UNCHANGED <<captchas, live, verdicts, token, asked>>

KeyOf(login) == IF login.captcha = 0 THEN 0 ELSE captchas[login.captcha].key
Kept(login)  == {c \in live : captchas[c].key = KeyOf(login)}
Earliest(S)  == CHOOSE c \in S : \A d \in S : c <= d

(* Success keeps the token and leaves for the portal; a failure closes the  *)
(* popover and lets the user start over.                                    *)
Settle(login, outcome) ==
  LET w == login.window IN
  /\ logins' = logins \ {login}
  /\ verdicts' = verdicts \cup
       {[id |-> login.id, captcha |-> login.captcha, seen |-> login.seen,
         target |-> login.target, outcome |-> outcome]}
  /\ token' = (token \/ outcome = "admitted")
  /\ IF outcome = "admitted" THEN Goes(w, [win[w] EXCEPT !.page = Portal, !.form = "wait",
                                                       !.popover = FALSE, !.shown = 0])
     ELSE IF win[w].page = Login
          THEN Goes(w, [win[w] EXCEPT !.form = "wait", !.popover = FALSE])
          ELSE UNCHANGED win

(* POST /login looks for the captcha ...                                    *)
Find(login) ==
  /\ login.phase = "sent"
  /\ IF Kept(login) = {} THEN Settle(login, "expired")
     ELSE /\ logins' = (logins \ {login}) \cup
                {[login EXCEPT !.phase = "found", !.target = Earliest(Kept(login))]}
          /\ UNCHANGED <<verdicts, token, win>>
  /\ UNCHANGED <<captchas, live, asked>>

(* ... removes the first that has its key, compares, and looks for the user. *)
Outcome(login) ==
  IF ~Close(captchas[login.target].offset, login.answer) THEN "misplaced"
  ELSE IF login.password THEN "admitted" ELSE "unknown"

VerifyFirst(login) ==
  /\ login.phase = "found"
  /\ live' = IF Kept(login) = {} \/ Outcome(login) = "misplaced"
              THEN live ELSE live \ {Earliest(Kept(login))}
  /\ Settle(login, Outcome(login))
  /\ UNCHANGED <<captchas, asked>>

Verify(login) ==
  /\ login.phase = "found"
  /\ live' = IF Kept(login) = {} THEN live ELSE live \ {Earliest(Kept(login))}
  /\ Settle(login, Outcome(login))
  /\ UNCHANGED <<captchas, asked>>

Fails(login) ==
  /\ Settle(login, "failed")
  /\ UNCHANGED <<captchas, live, asked>>

AccessNext ==
  \/ \E w \in Window :
       \/ ToPortal(w) \/ RequestInspector(w) \/ HandleCommand(w) \/ HandleLogin(w) \/ ClickAway(w)
       \/ \E app \in App : OpenApp(w, app)
       \/ \E app \in App, module \in Modules :
            \E view \in Entries : Return(w, app, module, view)
       \/ \E module \in Modules : Listed(module) \cap Entries # {} /\ HandleSelect(w, module)
       \/ \E view \in Entries : Select(w, view)
       \/ \E slot \in Slots, key \in Stamps : GetCaptcha(w, slot, key)
       \/ \E drag \in Drags, password \in BOOLEAN : OnFinish(w, drag, password)
  \/ Elsewhere
  \/ \E request \in asked : Answer(request)
  \/ \E c \in live : Expire(c)
  \/ \E login \in logins : Find(login) \/ Verify(login) \/ Fails(login)

-----------------------------------------------------------------------------
(* Once the server has given its verdict on a captcha, right or wrong, that *)
(* captcha is not in the collection any more (auth.ts:29 removes it before  *)
(* it compares): no request finds it that looks for it later.  Two that     *)
(* found it before may both be judged on it.                                *)
CaptchasAreSpent ==
  \A v \in verdicts : v.outcome \in {"misplaced", "admitted", "unknown"} => v.target \notin live

(* What is compared is what the user sees: a user who put the piece into    *)
(* its slot is told it is misplaced only if two captchas were drawn under   *)
(* one key (auth.ts:102), or with the slider at an end (captcha.vue:90).    *)
RightPlaceIsAccepted ==
  \A v \in verdicts :
    (v.outcome = "misplaced" /\ Close(captchas[v.captcha].offset, v.seen)) =>
      \/ WholePixels(v.seen)
      \/ \E c, d \in DOMAIN captchas : c # d /\ captchas[c].key = captchas[d].key

(* What a window asks about an application names that application, also     *)
(* after the session ended, the user logged in again and went back          *)
(* (request.ts:33, RedirectView.vue:20).                                    *)
RequestsNameTheirApp ==
  /\ \A r \in asked : Shows(r.page) /\ r.authorization => r.appid = r.page[2]
  /\ \A w \in Window : win[w].appid = win[w].opened

(* An application's page is one of the entries listed beside it.            *)
MenuMatchesThePage ==
  \A w \in Window : Shows(win[w].page) =>
    /\ win[w].page[4] \in ToSet(win[w].menu) /\ win[w].page[4] \in Content
    /\ win[w].menu = Menus[win[w].page[3]]

AccessIsSound ==
  CaptchasAreSpent /\ RightPlaceIsAccepted /\ RequestsNameTheirApp /\ MenuMatchesThePage
=============================================================================
