------------------------------- MODULE Portal -------------------------------
(***************************************************************************)
(* The first page of the console (web/src/views/portal): projects and the  *)
(* apps in them, what a search leaves of them, and what their menus and    *)
(* dialogs ask of the server while other users do the same.  A list that   *)
(* was asked for earlier may arrive later.  The handlers of the server are *)
(* those of module Administration, each as the one step it is for a page   *)
(* that waits for it; an app that was moved is listed without an id.       *)
(***************************************************************************)
EXTENDS Integers, Sequences, FiniteSets, SequencesExt

CONSTANTS
  Folder,      \* the projects that there may be
  Names,       \* the words a search may look for; an app's name is one
  PageSize,    \* apps on the first page of an opened project
  MaxApps,     \* bound on the apps that are made
  MaxLists,    \* bound on the lists on their way
  MaxChanges   \* bound on what is done to the board

VARIABLES
  board,       \* the server: project -> its apps, without those deleted
  made, changes, \* apps made and changes done so far
  due,         \* answers of the server after which the page asks for the list
  lists,       \* the lists on their way, in the order they were asked for
  cacheProjects, \* the last list that arrived
  projects,    \* what of it is shown
  dialog,      \* the open dialog, if any
  dropped      \* history: what was listed of the projects this page deleted

portalVars ==
  <<board, made, changes, due, lists, cacheProjects, projects, dialog, dropped>>
screenVars == <<due, lists, cacheProjects, projects, dialog, dropped>>

Nameless == 0
NoDialog == [pid |-> 0]
NoWord   == ""

PortalInit ==
  /\ board = [f \in {} |-> <<>>] /\ made = 0 /\ changes = 0
  /\ due = 1 /\ lists = <<>>
  /\ cacheProjects = board /\ projects = board
  /\ dialog = NoDialog
  /\ dropped = {}

-----------------------------------------------------------------------------
(* The handlers of the server.                                              *)
PostProject(f)   == board' = [g \in DOMAIN board \cup {f} |-> IF g = f THEN <<>> ELSE board[g]]
DropProject(f)   == board' = [g \in DOMAIN board \ {f} |-> board[g]]
PostApp(f, word) ==
  /\ made < MaxApps /\ made' = made + 1
  /\ board' = [g \in DOMAIN board |->
       IF g = f THEN Append(board[g], [id |-> made + 1, word |-> word]) ELSE board[g]]
PatchApp(id, word) ==
  board' = [g \in DOMAIN board |->
    [i \in DOMAIN board[g] |->
      IF board[g][i].id = id THEN [board[g][i] EXCEPT !.word = word] ELSE board[g][i]]]
DropApp(id) ==
  board' = [g \in DOMAIN board |-> SelectSeq(board[g], LAMBDA a : a.id # id)]
MoveAppTo(app, f) ==
  board' = [g \in DOMAIN board |->
    IF g = f THEN Append(board[g], [app EXCEPT !.id = Nameless]) ELSE board[g]]

Change == changes < MaxChanges /\ changes' = changes + 1

(* Another user.                                                            *)
AnotherUser ==
  /\ Change /\ UNCHANGED screenVars
  /\ \E f \in Folder :
       \/ f \notin DOMAIN board /\ PostProject(f) /\ UNCHANGED made
       \/ f \in DOMAIN board /\ board[f] = <<>> /\ DropProject(f) /\ UNCHANGED made
       \/ \E word \in Names : f \in DOMAIN board /\ PostApp(f, word)
       \/ \E id \in 1..made : DropApp(id) /\ UNCHANGED made

-----------------------------------------------------------------------------
(* getList: the request, and what becomes of its answer.                    *)
GetList ==
  /\ due > 0 /\ Len(lists) < MaxLists
  /\ due' = due - 1
  /\ lists' = Append(lists, board)
  /\ UNCHANGED <<board, made, changes, cacheProjects, projects, dialog, dropped>>

ListArrives(i) ==
  /\ i \in DOMAIN lists
  /\ projects' = lists[i] /\ cacheProjects' = lists[i]
  /\ lists' = RemoveAt(lists, i)
  /\ UNCHANGED <<board, made, changes, due, dialog, dropped>>

(* The search: the throttle has no trailing call, so a word that is typed   *)
(* too soon after another is not looked for.  An app without an id whose    *)
(* name is another one fails the search, and what is shown stays.           *)
Found(list, word) == SelectSeq(list, LAMBDA a : a.word = word)
HitMap(word) ==
  [f \in {g \in DOMAIN cacheProjects : Found(cacheProjects[g], word) # <<>>} |->
     Found(cacheProjects[f], word)]
SearchThrows(word) ==
  \E f \in DOMAIN cacheProjects : \E a \in ToSet(cacheProjects[f]) :
     a.id = Nameless /\ a.word # word

Search(word) ==
  /\ projects' = IF word = NoWord THEN cacheProjects ELSE HitMap(word)
  /\ UNCHANGED <<board, made, changes, due, lists, cacheProjects, dialog, dropped>>
ThrottleSearch(word) ==
  \/ word = NoWord /\ Search(word)
  \/ word # NoWord /\ ~SearchThrows(word) /\ Search(word)

-----------------------------------------------------------------------------
(* What the page asks for, with what it shows; then it asks for the list.   *)
Asks == Change /\ due' = due + 1 /\ UNCHANGED <<lists, cacheProjects, projects, dialog>>

HandleAdd(f) ==
  /\ f \notin DOMAIN board
  /\ Asks /\ PostProject(f) /\ UNCHANGED <<made, dropped>>

DeleteProject(f) ==
  /\ projects[f] = <<>>
  /\ Asks /\ DropProject(f)
  /\ dropped' = dropped \cup (IF f \in DOMAIN cacheProjects THEN {cacheProjects[f]} ELSE {})
  /\ UNCHANGED made

(* The menu of an app; without its id the server refuses what is asked.     *)
HandleContextmenu(pid, app) ==
  /\ app.id # Nameless /\ Asks
  /\ \/ DropApp(app.id)
     \/ \E f \in DOMAIN projects \ {pid} : MoveAppTo(app, f)
  /\ UNCHANGED <<made, dropped>>

(* The dialog for an app, or for a new one: the app is loaded into the form *)
(* some time later, and without its id the form makes an app.               *)
OpenDialog(pid, recordId) ==
  /\ dialog = NoDialog
  /\ dialog' = [pid |-> pid, recordId |-> recordId, id |-> Nameless]
  /\ UNCHANGED <<board, made, changes, due, lists, cacheProjects, projects, dropped>>
HandleUpdate(pid, app) == app.id # Nameless /\ OpenDialog(pid, app.id)

LoadForm ==
  /\ dialog # NoDialog /\ dialog.recordId # Nameless /\ dialog.id = Nameless
  /\ dialog' = [dialog EXCEPT !.id = dialog.recordId]
  /\ UNCHANGED <<board, made, changes, due, lists, cacheProjects, projects, dropped>>

UpdateApp(word) ==
  /\ dialog # NoDialog /\ Change
  /\ IF dialog.id = Nameless
     THEN PostApp(dialog.pid, word)
     ELSE PatchApp(dialog.id, word) /\ UNCHANGED made
  /\ dialog' = NoDialog /\ due' = due + 1
  /\ UNCHANGED <<lists, cacheProjects, projects, dropped>>

CloseDialog ==
  /\ dialog # NoDialog /\ dialog' = NoDialog
  /\ UNCHANGED <<board, made, changes, due, lists, cacheProjects, projects, dropped>>

PortalNext ==
  \/ AnotherUser \/ GetList \/ LoadForm \/ CloseDialog
  \/ \E i \in 1..MaxLists : ListArrives(i)
  \/ \E word \in Names \cup {NoWord} : ThrottleSearch(word)
  \/ \E word \in Names : UpdateApp(word)
  \/ \E f \in Folder : HandleAdd(f)
  \/ \E f \in DOMAIN projects :
       \/ DeleteProject(f) \/ OpenDialog(f, Nameless)
       \/ \E app \in ToSet(projects[f]) : HandleContextmenu(f, app) \/ HandleUpdate(f, app)

-----------------------------------------------------------------------------
(* The pages of a project: nine apps of a closed one; an opened one begins  *)
(* a second page after the ninth, and no third.                             *)
DisplayGroups(apps, zoomIn) ==
  IF ~zoomIn THEN <<SubSeq(apps, 1, PageSize)>>
  ELSE IF Len(apps) < PageSize THEN <<apps>>
  ELSE <<SubSeq(apps, 1, PageSize), SubSeq(apps, PageSize + 1, Len(apps))>>

(* One page is shown as it is, more in a carousel; the button that adds an  *)
(* app is on the last one of an opened project.                             *)
ProjectWrap(apps, zoomIn) ==
  LET groups == DisplayGroups(apps, zoomIn) IN
  [i \in DOMAIN groups |->
     [icons |-> groups[i], add |-> zoomIn /\ i = Len(groups)]]

-----------------------------------------------------------------------------
(* A project that is deleted was empty in the last list that arrived,       *)
(* whatever the search hides (EntryWrap.vue:40): one without a hit is not    *)
(* shown, so it cannot be taken for an empty one.                            *)
OnlyEmptyOnesAreDeleted == dropped \subseteq {<<>>}

(* What is shown is what some search leaves of one list that arrived: never *)
(* a mix of two lists, or an app of another project.                        *)
SearchIsSound ==
  \E word \in Names \cup {NoWord} :
    \A f \in Folder :
      LET hits(list) == {a \in ToSet(list) : word = NoWord \/ a.word = word}
          listed == IF f \in DOMAIN cacheProjects THEN hits(cacheProjects[f]) ELSE {}
      IN  IF f \in DOMAIN projects THEN ToSet(projects[f]) = listed ELSE listed = {}

(* An opened project shows every app of it once and in order, and one       *)
(* button to add another.                                                   *)
PagesShowAll ==
  \A f \in DOMAIN projects :
    LET pages == ProjectWrap(projects[f], TRUE) IN
    /\ FoldLeft(LAMBDA all, p : all \o p.icons, <<>>, pages) = projects[f]
    /\ Cardinality({i \in DOMAIN pages : pages[i].add}) = 1

BoardIsShown == SearchIsSound /\ PagesShowAll
=============================================================================
