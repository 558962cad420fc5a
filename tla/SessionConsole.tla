--------------------------- MODULE SessionConsole ---------------------------
(***************************************************************************)
(* A session opened in the web console: the dialog that plays it           *)
(* (SessionH5.vue) or exports it as a video (SessionExport.vue), both over *)
(* useH5Session of composable.ts, and the server behind them (device.ts,   *)
(* rrweb2video.ts).                                                        *)
(*                                                                         *)
(* A session is known by the number of files the worker has uploaded for   *)
(* it.  What follows the answer of a request without waiting for anything  *)
(* (nextTick included) is one step.                                        *)
(***************************************************************************)
EXTENDS Integers, Sequences, SequencesExt, FiniteSetsExt

CONSTANTS
  MaxFiles,     \* bound: files uploaded for the session
  MaxClicks,    \* bound: clicks on the button that synchronises
  MaxInFlight,  \* bound: reads of the session under way, and callbacks they left
  MaxFails,     \* bound: requests that fail, files that cannot be read
  MaxChunks,    \* how many chunks ffmpeg writes
  MaxJobs,      \* bound: exports started by one dialog
  MaxPosts      \* bound: requests that one export makes

ASSUME ConsoleAssumption ==
  {MaxFiles, MaxClicks, MaxInFlight, MaxFails, MaxChunks, MaxJobs, MaxPosts} \subseteq Nat

VARIABLES
  dialog,     \* "play" or "export"
  legacy,     \* whether the server is one that does not merge the files
  uploaded,   \* how many files the session has
  asked,      \* reads of the session that the server has not made
  answers,    \* how many answers with n files are on the way
  view,       \* the variables of the dialog
  live,       \* players created and not destroyed
  jobs,       \* exports, oldest first
  hidden,     \* the tab is in the background
  clicks, fails,  \* bounds
  overtaken   \* history: an answer came after a later one

consoleVars == <<dialog, legacy, uploaded, asked, answers, view, live, jobs,
                 hidden, clicks, fails, overtaken>>

Version  == 0 .. MaxFiles
InFlight == asked + MapThenSumSet(LAMBDA v : answers[v], Version)

\* The dialog as it is mounted, with its first read under way.
ConsoleInit ==
  /\ dialog \in {"play", "export"} /\ legacy \in BOOLEAN
  /\ uploaded = 0 /\ asked = 1 /\ answers = [v \in Version |-> 0]
  /\ view = [open |-> TRUE, timer |-> FALSE, leaked |-> 0, syncs |-> 0,
             detail |-> -1, events |-> 0, read |-> "no", waiting |-> 0,
             player |-> FALSE, shown |-> FALSE]
  /\ live = 0 /\ jobs = <<>> /\ hidden = FALSE
  /\ clicks = 0 /\ fails = 0 /\ overtaken = FALSE

\* inited: the answer held something to play.
HasReplayData(d) == d > 0

-----------------------------------------------------------------------------
(***************************************************************************)
(* The player.  p is a pair of the view and the number of live players.    *)
(***************************************************************************)
ClosePlayer(p) ==
  [view |-> [p.view EXCEPT !.player = FALSE, !.shown = FALSE],
   live |-> IF p.view.player THEN p.live - 1 ELSE p.live]

\* Mutant: the new player takes the place of the old one.
PlayerOver(p) ==
  [view |-> [p.view EXCEPT !.player = TRUE, !.shown = TRUE], live |-> p.live + 1]

\* The end of onOpened: no element to play in after the dialog was closed.
NewPlayer(p) ==
  IF ~p.view.open THEN p
  ELSE LET c == ClosePlayer(p)
       IN  [view |-> [c.view EXCEPT !.player = TRUE, !.shown = TRUE],
            live |-> c.live + 1]

\* onOpened of n callers that waited for the same events: each has found no
\* player before the first of them makes one.
OnOpened(v, n) ==
  LET p == [view |-> v, live |-> live]
      opened[i \in 0 .. n] == IF i = 0 THEN p ELSE NewPlayer(opened[i - 1])
  IN  IF v.player THEN p ELSE opened[n]

-----------------------------------------------------------------------------
(***************************************************************************)
(* useH5Session.                                                           *)
(***************************************************************************)
\* An export: the video that its latest request has the server make, with the
\* chunks not dispatched, the stage, how it ended and the messages on the wire;
\* the request; and the file of the page, where what earlier requests left
\* comes before what this one brings.
Job == [made |-> 0, chunks |-> <<>>, stage |-> "generate", ended |-> "no",
        wire |-> <<>>, conn |-> "on", posts |-> 1, left |-> <<>>, file |-> <<>>,
        saved |-> "no"]

\* Mutant: any answer ends the polling.
StopAsking(v, n) ==
  [v EXCEPT !.detail = n, !.timer = FALSE,
            !.events = IF HasReplayData(n) /\ @ = 0 THEN n ELSE @,
            !.read = IF HasReplayData(n) /\ @ = "no"
                     THEN (IF legacy THEN "reading" ELSE "yes") ELSE @,
            !.shown = @ /\ HasReplayData(n)]

\* getDetail, up to its callback: the first answer with data decides what
\* there is to play, and an answer without takes the player off the page.
GetDetail(v, n) ==
  IF HasReplayData(n)
  THEN [v EXCEPT !.detail = n, !.timer = FALSE,
                 !.events = IF @ = 0 THEN n ELSE @,
                 !.read = IF @ = "no"
                          THEN (IF legacy THEN "reading" ELSE "yes") ELSE @]
  ELSE [v EXCEPT !.detail = n, !.shown = FALSE]

Callback(v) ==
  CASE dialog = "export" ->
         /\ jobs' = Append(jobs, Job)
         /\ view' = v /\ UNCHANGED live
    [] dialog = "play" /\ v.read = "yes" ->
         /\ view' = OnOpened(v, 1).view /\ live' = OnOpened(v, 1).live
         /\ UNCHANGED jobs
    [] dialog = "play" /\ v.read # "yes" ->
         /\ view' = IF v.read = "reading" THEN [v EXCEPT !.waiting = @ + 1] ELSE v
         /\ UNCHANGED <<live, jobs>>

Arrive(n) ==
  /\ answers[n] > 0
  /\ answers' = [answers EXCEPT ![n] = @ - 1]
  /\ overtaken' = (overtaken \/ n < view.detail)
  /\ IF HasReplayData(n) THEN Callback(GetDetail(view, n))
     ELSE view' = GetDetail(view, n) /\ UNCHANGED <<live, jobs>>
  /\ UNCHANGED <<hidden, dialog, legacy, uploaded, asked, clicks, fails>>

\* The files themselves, when the server did not merge them.
GetSessionEvents ==
  /\ view.read = "reading"
  /\ LET v == [view EXCEPT !.read = "yes", !.waiting = 0]
         p == OnOpened(v, view.waiting)
     IN  view' = p.view /\ live' = p.live
  /\ UNCHANGED <<hidden, dialog, legacy, uploaded, asked, answers, jobs, clicks, fails,
                 overtaken>>

FileUnreadable ==
  /\ view.read = "reading" /\ fails < MaxFails
  /\ view' = [view EXCEPT !.read = "broken", !.waiting = 0]
  /\ fails' = fails + 1
  /\ UNCHANGED <<hidden, dialog, legacy, uploaded, asked, answers, live, jobs, clicks,
                 overtaken>>

\* The button is there while nothing is shown and no timer runs; it is still
\* there while an earlier click waits for its answer.
SyncClicked ==
  /\ view.open /\ ~HasReplayData(view.detail) /\ ~view.timer
  /\ clicks < MaxClicks /\ clicks' = clicks + 1
  /\ view' = [view EXCEPT !.syncs = @ + 1]
  /\ UNCHANGED <<hidden, dialog, legacy, uploaded, asked, answers, live, jobs, fails,
                 overtaken>>

\* Answered after the dialog was closed, or twice, it leaves an interval that
\* no one clears.
SyncAnswered ==
  /\ view.syncs > 0
  /\ \/ /\ view' = [view EXCEPT !.syncs = @ - 1, !.timer = TRUE,
                                !.leaked = IF view.timer THEN @ + 1 ELSE @]
        /\ UNCHANGED fails
     \/ /\ fails < MaxFails /\ fails' = fails + 1
        /\ view' = [view EXCEPT !.syncs = @ - 1]
  /\ UNCHANGED <<hidden, dialog, legacy, uploaded, asked, answers, live, jobs, clicks,
                 overtaken>>

Poll ==
  /\ view.timer \/ view.leaked > 0
  /\ InFlight + view.waiting < MaxInFlight
  /\ dialog = "export" => Len(jobs) + InFlight < MaxJobs
  /\ asked' = asked + 1
  /\ UNCHANGED <<hidden, dialog, legacy, uploaded, answers, view, live, jobs, clicks,
                 fails, overtaken>>

\* The dialog is closed: its interval and its player go with it.
Close ==
  /\ view.open
  /\ LET p == ClosePlayer([view |-> view, live |-> live])
     IN  /\ view' = [p.view EXCEPT !.open = FALSE, !.timer = FALSE, !.detail = -1]
         /\ live' = p.live
  /\ UNCHANGED <<hidden, dialog, legacy, uploaded, asked, answers, jobs, clicks, fails,
                 overtaken>>

-----------------------------------------------------------------------------
(***************************************************************************)
(* The server.                                                             *)
(***************************************************************************)
\* The worker uploads another file of the session.
FileUploaded ==
  /\ uploaded < MaxFiles /\ uploaded' = uploaded + 1
  /\ UNCHANGED <<hidden, dialog, legacy, asked, answers, view, live, jobs, clicks, fails,
                 overtaken>>

\* GET /session/:sessionId, which fails while the session is unknown.
ReadSession ==
  /\ asked > 0 /\ asked' = asked - 1
  /\ answers' = [answers EXCEPT ![uploaded] = @ + 1]
  /\ UNCHANGED <<hidden, dialog, legacy, uploaded, view, live, jobs, clicks, fails,
                 overtaken>>

ReadFails ==
  /\ asked > 0 /\ asked' = asked - 1
  /\ fails < MaxFails /\ fails' = fails + 1
  /\ UNCHANGED <<hidden, dialog, legacy, uploaded, answers, view, live, jobs, clicks,
                 overtaken>>

-----------------------------------------------------------------------------
(***************************************************************************)
(* POST /session/:sessionId/export: a video is made and its chunks sent    *)
(* as server-sent events, once a second and at the end.  Without its       *)
(* connection a video is made to the end too, but nobody sees it.          *)
(***************************************************************************)
JobStep(i, job) ==
  /\ jobs[i].conn = "on"
  /\ jobs' = [jobs EXCEPT ![i] = job]
  /\ UNCHANGED <<hidden, dialog, legacy, uploaded, asked, answers, view, live, clicks,
                 fails, overtaken>>

\* The message [DONE]; the chunks of the others are numbered from one.
Done == <<0>>

\* The page takes the chunks of a message whose action is "transform".
Message(job) == IF job.stage = "transform" THEN job.chunks ELSE <<>>

\* Mutant: what was dispatched stays.
StateKept(job) == [job EXCEPT !.wire = Append(@, Message(job))]

\* dispatchMessage(transformer.state), which empties the chunks.
State(job) == [job EXCEPT !.wire = Append(@, Message(job)), !.chunks = <<>>]

FfmpegData(i) ==
  /\ jobs[i].ended # "done" /\ jobs[i].made < MaxChunks
  /\ JobStep(i, [jobs[i] EXCEPT !.made = @ + 1, !.stage = "transform",
                                !.chunks = Append(@, jobs[i].made + 1)])

\* An empty message says nothing that the model tells apart.
Dispatch(i) ==
  /\ jobs[i].ended # "done" /\ jobs[i].chunks # <<>>
  /\ JobStep(i, State(jobs[i]))

\* ffmpeg ends, at whatever point and with whatever exit code: nobody looks.
FfmpegClose(i) ==
  /\ jobs[i].ended = "no"
  /\ LET last == State(jobs[i])
     IN  JobStep(i, [last EXCEPT !.ended = "done", !.wire = Append(@, Done)])

\* ffmpeg reports an error: the export throws and never says that it is done;
\* its interval goes on.
FfmpegError(i) ==
  /\ jobs[i].ended # "done"
  /\ JobStep(i, [jobs[i] EXCEPT !.stage = "fail", !.ended = "threw"])

(***************************************************************************)
(* fetchEventSource.  Each request has the server make another video,      *)
(* whose chunks the page appends to the file it has.                       *)
(***************************************************************************)
Post(job) == [job EXCEPT !.made = 0, !.chunks = <<>>, !.stage = "generate",
                         !.ended = "no", !.wire = <<>>, !.conn = "on", !.posts = @ + 1,
                         !.left = @ \o job.file, !.file = <<>>]

OnMessage(i) ==
  /\ jobs[i].wire # <<>>
  /\ LET job == [jobs[i] EXCEPT !.wire = Tail(@)]
         msg == Head(jobs[i].wire)
     IN  JobStep(i, IF msg = Done
                    THEN [job EXCEPT !.conn = "closed",
                                     !.saved = IF @ = "no" THEN "yes" ELSE @]
                    ELSE [job EXCEPT !.file = @ \o msg])

\* onerror rejects the promise, so that nothing is saved, but does not throw,
\* so that the request is made again.
ConnectionLost(i) ==
  JobStep(i, [jobs[i] EXCEPT !.conn = "lost", !.wire = <<>>, !.saved = "never"])

Retry(i) ==
  /\ jobs[i].conn = "lost" /\ jobs[i].posts < MaxPosts
  /\ jobs' = [jobs EXCEPT ![i] = Post(@)]
  /\ UNCHANGED <<hidden, dialog, legacy, uploaded, asked, answers, view, live, clicks,
                 fails, overtaken>>

\* The tab goes to the background: requests are aborted, which is no error.
TabHides ==
  /\ ~hidden /\ hidden' = TRUE
  /\ jobs' = [i \in DOMAIN jobs |->
               IF jobs[i].conn = "on" THEN [jobs[i] EXCEPT !.conn = "off", !.wire = <<>>]
               ELSE jobs[i]]
  /\ UNCHANGED <<dialog, legacy, uploaded, asked, answers, view, live, clicks,
                 fails, overtaken>>

\* It comes back: the requests are made again, those too that were begun in
\* the background.
TabShows ==
  /\ hidden /\ hidden' = FALSE
  /\ \A i \in DOMAIN jobs : jobs[i].conn # "closed" => jobs[i].posts < MaxPosts
  /\ jobs' = [i \in DOMAIN jobs |-> IF jobs[i].conn = "closed" THEN jobs[i]
                                    ELSE Post(jobs[i])]
  /\ UNCHANGED <<dialog, legacy, uploaded, asked, answers, view, live, clicks,
                 fails, overtaken>>

-----------------------------------------------------------------------------
ConsoleNext ==
  \/ \E n \in Version : Arrive(n)
  \/ GetSessionEvents \/ FileUnreadable
  \/ SyncClicked \/ SyncAnswered \/ Poll \/ Close
  \/ FileUploaded \/ ReadSession \/ ReadFails
  \/ \E i \in DOMAIN jobs :
       \/ FfmpegData(i) \/ Dispatch(i) \/ FfmpegClose(i) \/ FfmpegError(i)
       \/ ConnectionLost(i) \/ OnMessage(i) \/ Retry(i)
  \/ TabHides \/ TabShows

ConsoleSpec == ConsoleInit /\ [][ConsoleNext]_consoleVars

\* Intervals fire and requests end; nobody has to click, and files need not come.
FairConsoleSpec ==
  /\ ConsoleSpec
  /\ WF_consoleVars(Poll) /\ WF_consoleVars(ReadSession) /\ WF_consoleVars(GetSessionEvents)
  /\ \A n \in Version : WF_consoleVars(Arrive(n))

-----------------------------------------------------------------------------
(***************************************************************************)
(* Properties.                                                             *)
(***************************************************************************)
DialogTypeOK ==
  /\ dialog \in {"play", "export"} /\ legacy \in BOOLEAN
  /\ uploaded \in Version /\ asked \in Nat /\ answers \in [Version -> Nat]
  /\ view.detail \in -1 .. uploaded /\ view.events \in 0 .. uploaded
  /\ view.shown => view.player
  /\ live \in Nat /\ clicks \in 0 .. MaxClicks /\ fails \in 0 .. MaxFails

\* Of the many callbacks that polling, slow answers and slow files cause, no
\* two leave a player each; and none is left, or made, once the dialog has
\* been closed (closePlayer before new RrwebPlayer, and on unmount).
OnePlayer ==
  /\ DialogTypeOK
  /\ live = (IF view.player THEN 1 ELSE 0)
  /\ view.player => view.open

\* A dialog that polls for a session the worker has uploaded comes to show it,
\* unless it is closed, or a file cannot be read, or an answer without data
\* overtakes the one with it, which takes the player off the page.
ReplayIsShown ==
  (view.open /\ view.timer /\ uploaded > 0 /\ dialog = "play")
    ~> (view.shown \/ ~view.open \/ view.read = "broken" \/ overtaken)

Numbered(n) == [k \in 1 .. n |-> k]

\* The video that is saved is the one that ffmpeg wrote: every chunk once, in
\* order, whether a tick of the interval or the end of the export sent it,
\* and nothing before it unless the request was made again while the tab came
\* and went.  (It is as short as ffmpeg left it.)
FileIsWhole ==
  \A i \in DOMAIN jobs :
    /\ jobs[i].ended # "threw" => IsPrefix(jobs[i].file, Numbered(jobs[i].made))
    /\ jobs[i].saved = "yes" => jobs[i].file = Numbered(jobs[i].made)
    /\ jobs[i].posts = 1 => jobs[i].left = <<>>
=============================================================================
