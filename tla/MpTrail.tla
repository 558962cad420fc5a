------------------------------ MODULE MpTrail ------------------------------
(***************************************************************************)
(* What a user does in a mini-program, as TrackPlugin reports it           *)
(* (mp-uni/plugins/track.ts), and the timeline the console draws from the  *)
(* session's records (SessionMp.vue).                                      *)
(*                                                                         *)
(* The order in which the framework calls the hooks is outside the         *)
(* repository.  A page's query is left out: it is shown with the page and  *)
(* taken off again when a visit's time is looked up.                       *)
(***************************************************************************)
EXTENDS Integers, Sequences, FiniteSets, SequencesExt

CONSTANTS
  Path,       \* the pages of the mini-program
  BarPages,   \* those of its tab bar
  MaxEvents,  \* bound on the records of a session
  MaxStack,   \* bound on the pages that are open at once
  MaxClock    \* bound on the clock

VARIABLES
  trail,   \* the records of the session
  stack,   \* the open pages, with __enterTime; the last one is on top
  kept,    \* the pages of the tab bar that are loaded and not open
  front,   \* the mini-program is in the foreground
  clock,
  visits   \* history: each stay at a page, and the time it was in front

trailVars == <<trail, stack, kept, front, clock, visits>>

ASSUME TrailAssumption == BarPages \subseteq Path

None == 0
Top  == stack[Len(stack)]
Under(n) == SubSeq(stack, 1, Len(stack) - n)

TrailInit ==
  /\ trail = <<>> /\ stack = <<>> /\ visits = <<>>
  /\ kept = {} /\ front = FALSE
  /\ clock = 1

-----------------------------------------------------------------------------
(***************************************************************************)
(* The hooks.  onShow notes the time, onHide and onUnload report what has  *)
(* passed since and forget it.                                             *)
(***************************************************************************)
AppEvent(type, path)  == [type |-> type, path |-> path, duration |-> 0]
PageEvent(type, path) == [type |-> type, path |-> path, duration |-> 0]

LeaveEvent(type, page) ==
  [type |-> type, path |-> page.path,
   duration |-> clock - (IF page.enter = None THEN clock ELSE page.enter)]

Entered(path) == [path |-> path, enter |-> clock]
Hidden(page)  == [page EXCEPT !.enter = None]

Opened(path) == <<PageEvent("PageLoad", path), PageEvent("PageShow", path)>>
Unloaded(pages) ==
  [i \in DOMAIN pages |->
     LeaveEvent("PageUnload", pages[Len(pages) + 1 - i])]

-----------------------------------------------------------------------------
(***************************************************************************)
(* What the user does.                                                     *)
(***************************************************************************)
Record(events) == /\ trail' = trail \o events
                  /\ Len(trail') <= MaxEvents
Visit(kind, path) ==
  visits' = Append(visits, [type |-> kind, path |-> path, spent |-> 0])

Launch(path) ==
  /\ trail = <<>> /\ UNCHANGED kept
  /\ Record(<<AppEvent("AppLaunch", path), AppEvent("AppShow", path)>>
            \o Opened(path))
  /\ stack' = <<Entered(path)>>
  /\ front' = TRUE
  /\ Visit("Enter", path)
  /\ UNCHANGED clock

NavigateTo(path) ==
  /\ front /\ Len(stack) < MaxStack /\ path \notin BarPages
  /\ Record(<<LeaveEvent("PageHide", Top)>> \o Opened(path))
  /\ stack' = Append(Append(Under(1), Hidden(Top)), Entered(path))
  /\ Visit("Enter", path)
  /\ UNCHANGED <<kept, front, clock>>

NavigateBack(delta) ==
  /\ front /\ delta < Len(stack)
  /\ LET back  == stack[Len(stack) - delta].path
         gone  == SubSeq(stack, Len(stack) - delta + 1, Len(stack))
     IN  /\ Record(Unloaded(gone) \o <<PageEvent("PageShow", back)>>)
         /\ stack' = Append(Under(delta + 1), Entered(back))
         /\ Visit("ReEnter", back)
  /\ UNCHANGED <<kept, front, clock>>

RedirectTo(path) ==
  /\ front /\ path \notin BarPages
  /\ Record(Unloaded(<<Top>>) \o Opened(path))
  /\ stack' = Append(Under(1), Entered(path))
  /\ Visit("Enter", path)
  /\ UNCHANGED <<kept, front, clock>>

\* From a page of the tab bar to another, which stays loaded.
SwitchTab(path) ==
  /\ front /\ Len(stack) = 1 /\ {Top.path, path} \subseteq BarPages /\ path # Top.path
  /\ Record(<<LeaveEvent("PageHide", Top)>>
            \o IF path \in kept THEN <<PageEvent("PageShow", path)>> ELSE Opened(path))
  /\ stack' = <<Entered(path)>>
  /\ kept' = (kept \cup {Top.path}) \ {path}
  /\ Visit(IF path \in kept THEN "ReEnter" ELSE "Enter", path)
  /\ UNCHANGED <<front, clock>>

Background ==
  /\ front
  /\ \/ Record(<<LeaveEvent("PageHide", Top), AppEvent("AppHide", Top.path)>>)
     \/ Record(<<AppEvent("AppHide", Top.path), LeaveEvent("PageHide", Top)>>)
  /\ stack' = Append(Under(1), Hidden(Top))
  /\ front' = FALSE
  /\ UNCHANGED <<kept, clock, visits>>

\* The hook of the page may come first, which is taken for a new stay.
Foreground ==
  /\ ~front /\ stack # <<>>
  /\ LET app  == AppEvent("AppShow", Top.path)
         page == PageEvent("PageShow", Top.path)
     IN  \/ Record(<<app, page>>) /\ UNCHANGED visits
         \/ Record(<<page, app>>) /\ Visit("ReEnter", Top.path)
  /\ stack' = Append(Under(1), Entered(Top.path))
  /\ front' = TRUE
  /\ UNCHANGED <<kept, clock>>

\* Brought to the foreground by a link to a page: all others are closed.
Relaunch(path) ==
  /\ ~front /\ stack # <<>>
  /\ Record(<<AppEvent("AppShow", path)>>
            \o Unloaded([i \in 1 .. Cardinality(kept) |-> Hidden(Entered(SetToSeq(kept)[i]))] \o stack)
            \o Opened(path))
  /\ stack' = <<Entered(path)>> /\ kept' = {}
  /\ front' = TRUE
  /\ Visit("Enter", path)
  /\ UNCHANGED clock

Stay ==
  /\ clock < MaxClock /\ stack # <<>>
  /\ clock' = clock + 1
  /\ visits' = IF front THEN [visits EXCEPT ![Len(visits)].spent = @ + 1]
               ELSE visits
  /\ UNCHANGED <<trail, stack, kept, front>>

TrailNext ==
  \/ \E path \in Path :
       \/ Launch(path) \/ NavigateTo(path) \/ RedirectTo(path)
       \/ SwitchTab(path) \/ Relaunch(path)
  \/ \E delta \in 1 .. MaxStack - 1 : NavigateBack(delta)
  \/ Background \/ Foreground \/ Stay

-----------------------------------------------------------------------------
(***************************************************************************)
(* The timeline.                                                           *)
(***************************************************************************)
IsVisit(node) == node.type \in {"Enter", "ReEnter"}

\* To the last visit of the page, over what the app itself did since.
ApplyDuration(nodes, path, duration) ==
  LET last == SelectLastInSeq(nodes, LAMBDA n : IsVisit(n) /\ n.path = path)
  IN  IF duration <= 0 \/ last = 0 THEN nodes
      ELSE [nodes EXCEPT ![last].duration = @ + duration]

Skipped(type, prevType) ==
  \/ type = "AppShow"  /\ prevType \in {"AppLaunch", "PageShow"}
  \/ type = "PageShow" /\ prevType \in {"PageLoad", "AppShow", "AppLaunch"}

NormalizeEvent(nodes, i) ==
  LET event == trail[i]
      prevType == IF i = 1 THEN "" ELSE trail[i - 1].type
      Node(type) == Append(nodes, [type |-> type, path |-> event.path, duration |-> 0])
  IN  CASE Skipped(event.type, prevType) -> nodes
        [] event.type \in {"PageUnload", "PageHide"} ->
             ApplyDuration(nodes, event.path, event.duration)
        [] event.type = "PageLoad" -> Node("Enter")
        [] event.type = "PageShow" /\ ~Skipped(event.type, prevType) -> Node("ReEnter")
        [] OTHER -> Node(event.type)

NormalizeEvents == FoldLeftDomain(NormalizeEvent, <<>>, trail)

\* SessionMp.vue:214: the timeline shows every stay at a page, once, in the
\* order the user made them, and with it the time the page was in front,
\* however often the app was left in between and whichever pages closed with
\* it.  A stay goes on while the app is away, unless the page is shown before
\* the app is.
TimelineIsFaithful ==
  LET shown == SelectSeq(NormalizeEvents, IsVisit)
      Over(i) == i < Len(visits) \/ ~front
  IN  /\ Len(shown) = Len(visits)
      /\ \A i \in DOMAIN visits :
           /\ shown[i].type = visits[i].type /\ shown[i].path = visits[i].path
           /\ Over(i) => shown[i].duration = visits[i].spent
=============================================================================
