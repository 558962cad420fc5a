--------------------------- MODULE TaskScheduler ---------------------------
(***************************************************************************)
(* The tasks of the server: packages/server/src/apis/task.ts over the      *)
(* timers of utils/TaskManager.ts and the documents of app_task, and       *)
(* restoreTasks, which main.ts calls when the server already listens.      *)
(*                                                                         *)
(* A request, and a timer that fires, is a run: a handler that goes from   *)
(* await to await.  What it does between two awaits is one action; r.at    *)
(* names the await that is to return, r.seen the status the task had when  *)
(* the run began.  A job id of 0 is an absent one: the driver stores an    *)
(* undefined job_id as null.                                               *)
(***************************************************************************)
EXTENDS Integers, FiniteSets, FiniteSetsExt

CONSTANTS
  Task,        \* task ids
  MaxClock,    \* bound: the clock
  MaxCalls,    \* bound: requests
  MaxRestarts  \* bound: restarts of the server

\* The time is counted from 1.
ASSUME SchedulerAssumption ==
  {MaxCalls, MaxRestarts} \subseteq Nat /\ MaxClock \in Nat \ {0}

VARIABLES
  tasks,    \* tasks[t]: the document of t
  timers,   \* TaskManager.taskMap
  runs,     \* the runs under way
  trigger,  \* whether the trigger that the tasks name exists
  restore,  \* what restoreTasks has found and not written yet
  restoring,\* whether restoreTasks has still to read the documents
  now,      \* the time
  jobs,     \* how many job ids have been made
  calls, restarts,
  astray    \* history: tasks that were armed while something else ran on them,
            \* or for a time already past, or whose timer a refused edit took

vars == <<tasks, timers, runs, trigger, restore, restoring, now, jobs, calls,
          restarts, astray>>

Absent  == [there |-> FALSE, status |-> "pending", job |-> 0, when |-> 0]
Finished == {"success", "fail", "abort"}

Init ==
  /\ tasks = [t \in Task |-> Absent]
  /\ timers = {} /\ runs = {} /\ restore = {} /\ restoring = FALSE
  /\ trigger = TRUE
  /\ now = 1 /\ jobs = 0 /\ calls = 0 /\ restarts = 0
  /\ astray = {}

-----------------------------------------------------------------------------
\* TaskManager.remove and add; a job id of 0 names no timer.
Without(job) == {m \in timers : m.job # job}
Timer(job, t, when) == [job |-> job, t |-> t, when |-> when, live |-> when > now]

Arm(S, job, t, when) == {m \in S : m.job # job} \cup {Timer(job, t, when)}

On(t)      == {r \in runs : r.t = t}
Arming(r)  == r.call \in {"create", "edit"}
Restored(t) == restoring \/ \E d \in restore : d.t = t

\* A run begins.
Begin(r) ==
  /\ runs' = runs \cup {r}
  /\ astray' = IF \/ Arming(r) /\ (On(r.t) # {} \/ Restored(r.t))
                 \/ \E q \in On(r.t) : Arming(q)
              THEN astray \cup {r.t} ELSE astray

\* A timer armed for a time already past never fires.
Late(t, when) == astray' = IF when > now THEN astray ELSE astray \cup {t}

Run(call, at, t) ==
  [call |-> call, at |-> at, t |-> t, seen |-> tasks[t].status, immediate |-> FALSE,
   when |-> 0, job |-> 0, asked |-> TRUE, id |-> calls]

Call(r) == /\ calls < MaxCalls /\ calls' = calls + 1
           /\ Begin(r)
           /\ UNCHANGED <<tasks, timers, trigger, restore, restoring, now, jobs,
                          restarts>>

\* The requests.  A task is given a trigger and a time, or is immediate.
PostTask(t) ==
  /\ ~tasks[t].there /\ On(t) = {}
  /\ \E w \in 0 .. MaxClock :
       Call([Run("create", "insert", t) EXCEPT !.when = w, !.immediate = (w = 0)])

\* The console sends the job id it has listed, or none; a time may be missing.
PutTask(t) ==
  /\ tasks[t].there
  /\ \E w \in 0 .. MaxClock, immediate \in BOOLEAN, j \in {0, tasks[t].job} :
       /\ immediate => w = 0
       /\ Call([Run("edit", "find", t) EXCEPT
                  !.when = w, !.immediate = immediate, !.job = j])

StopTask(t)    == tasks[t].there /\ Call(Run("stop", "find", t))
TriggerTask(t) == tasks[t].there /\ Call(Run("issue", "find", t))

\* A timer fires, once: the callback of scheduleTask calls issue.
Fire(m) ==
  /\ m.live /\ now >= m.when
  /\ timers' = (timers \ {m}) \cup {[m EXCEPT !.live = FALSE]}
  /\ Begin([Run("issue", "find", m.t) EXCEPT !.asked = FALSE, !.id = -m.job])
  /\ UNCHANGED <<tasks, trigger, restore, restoring, now, jobs, calls, restarts>>

-----------------------------------------------------------------------------
(***************************************************************************)
(* The runs.                                                               *)
(***************************************************************************)
Go(r, q) == runs' = (runs \ {r}) \cup {q}
End(r)   == runs' = runs \ {r}
Issue(r) == [r EXCEPT !.call = "issue", !.at = "find"]

NewJob == jobs + 1

\* router.post('/task')
CreateInsert(r) ==
  /\ r.call = "create" /\ r.at = "insert"
  /\ tasks' = [tasks EXCEPT ![r.t] = [Absent EXCEPT !.there = TRUE, !.when = r.when]]
  /\ Go(r, IF r.immediate THEN Issue(r)
           ELSE [r EXCEPT !.at = "job", !.job = NewJob])
  /\ jobs' = IF r.immediate THEN jobs ELSE NewJob
  /\ UNCHANGED <<timers, trigger, restore, restoring, now, calls, restarts, astray>>

CreateJob(r) ==
  /\ r.call = "create" /\ r.at = "job"
  /\ tasks' = [tasks EXCEPT ![r.t].job = r.job]
  /\ timers' = Arm(timers, r.job, r.t, r.when)
  /\ Late(r.t, r.when)
  /\ End(r)
  /\ UNCHANGED <<trigger, restore, restoring, now, jobs, calls, restarts>>

\* router.put('/task/:taskId')
\* Mutant: the timer of the old time is not removed.
EditKeepingTimer(r) ==
  /\ r.call = "edit" /\ r.at = "find" /\ (r.immediate \/ r.when # 0)
  /\ Go(r, [r EXCEPT !.at = "write", !.job = NewJob])
  /\ jobs' = NewJob
  /\ UNCHANGED <<tasks, timers, trigger, restore, restoring, now, calls, restarts,
                 astray>>

EditFind(r) ==
  /\ r.call = "edit" /\ r.at = "find"
  /\ timers' = Without(tasks[r.t].job) \ {m \in timers : m.job = r.job}
  /\ IF ~r.immediate /\ r.when = 0
     THEN End(r) /\ astray' = astray \cup {r.t} /\ UNCHANGED jobs
     ELSE LET j == IF r.job # 0 THEN r.job ELSE NewJob
          IN  /\ Go(r, [r EXCEPT !.at = "write", !.job = j])
              /\ jobs' = IF j > jobs THEN j ELSE jobs
              /\ UNCHANGED astray
  /\ UNCHANGED <<tasks, trigger, restore, restoring, now, calls, restarts>>

\* Mutant: the timer that had the id is removed after the new one is added.
EditRemovingLast(r) ==
  /\ r.call = "edit" /\ r.at = "write" /\ ~r.immediate
  /\ tasks' = [tasks EXCEPT ![r.t].job = r.job, ![r.t].when = r.when,
                            ![r.t].status = "pending"]
  /\ timers' = Without(r.job)
  /\ End(r) /\ Late(r.t, r.when)
  /\ UNCHANGED <<trigger, restore, restoring, now, jobs, calls, restarts>>

EditWrite(r) ==
  /\ r.call = "edit" /\ r.at = "write"
  /\ LET w == IF r.when = 0 THEN tasks[r.t].when ELSE r.when
     IN  IF r.immediate
         THEN /\ tasks' = [tasks EXCEPT ![r.t].job = 0, ![r.t].when = w]
              /\ Go(r, Issue(r))
              /\ UNCHANGED <<timers, astray>>
         ELSE /\ tasks' = [tasks EXCEPT ![r.t].job = r.job, ![r.t].when = w,
                                        ![r.t].status = "pending"]
              /\ timers' = Arm(timers, r.job, r.t, w)
              /\ Late(r.t, w)
              /\ End(r)
  /\ UNCHANGED <<trigger, restore, restoring, now, jobs, calls, restarts>>

\* router.post('/task/:taskId/stop')
\* Mutant: the timer of a stopped task runs on.
StopKeepingTimer(r) ==
  /\ r.call = "stop" /\ r.at = "find" /\ tasks[r.t].status \notin Finished
  /\ Go(r, [r EXCEPT !.at = "write"])
  /\ UNCHANGED <<tasks, timers, trigger, restore, restoring, now, jobs, calls,
                 restarts, astray>>

StopFind(r) ==
  /\ r.call = "stop" /\ r.at = "find"
  /\ IF tasks[r.t].status \in Finished
     THEN End(r) /\ UNCHANGED timers
     ELSE /\ timers' = Without(tasks[r.t].job)
          /\ Go(r, [r EXCEPT !.at = "write"])
  /\ UNCHANGED <<tasks, trigger, restore, restoring, now, jobs, calls, restarts,
                 astray>>

StopWrite(r) ==
  /\ r.call = "stop" /\ r.at = "write"
  /\ tasks' = [tasks EXCEPT ![r.t].job = 0, ![r.t].status = "abort"]
  /\ End(r)
  /\ UNCHANGED <<timers, trigger, restore, restoring, now, jobs, calls, restarts,
                 astray>>

(***************************************************************************)
(* issue: the document is read and its timer removed; then the trigger is  *)
(* looked up, and a missing one ends the run with an error and the task as *)
(* it is; then the webhook and the notification are called, which may      *)
(* fail; then the result is written, whatever the document says by now.    *)
(***************************************************************************)
IssueFind(r) ==
  /\ r.call = "issue" /\ r.at = "find"
  /\ timers' = Without(tasks[r.t].job)
  /\ Go(r, [r EXCEPT !.at = "lookup"])
  /\ UNCHANGED <<tasks, trigger, restore, restoring, now, jobs, calls, restarts,
                 astray>>

IssueLookup(r) ==
  /\ r.call = "issue" /\ r.at = "lookup"
  /\ IF trigger THEN Go(r, [r EXCEPT !.at = "webhook"]) ELSE End(r)
  /\ UNCHANGED <<tasks, timers, trigger, restore, restoring, now, jobs, calls,
                 restarts, astray>>

IssueWrite(r) ==
  /\ r.call = "issue" /\ r.at = "webhook"
  /\ \E result \in {"success", "fail"} :
       tasks' = [tasks EXCEPT ![r.t].job = 0, ![r.t].status = result,
                              ![r.t].when = now]
  /\ End(r)
  /\ UNCHANGED <<timers, trigger, restore, restoring, now, jobs, calls, restarts,
                 astray>>

-----------------------------------------------------------------------------
\* router.delete('/trigger/:triggerId')
DeleteTrigger ==
  /\ trigger /\ trigger' = FALSE
  /\ UNCHANGED <<tasks, timers, runs, restore, restoring, now, jobs, calls,
                 restarts, astray>>

Tick ==
  /\ now < MaxClock /\ now' = now + 1
  /\ UNCHANGED <<tasks, timers, runs, trigger, restore, restoring, jobs, calls,
                 restarts, astray>>

(***************************************************************************)
(* The server restarts: timers and runs are gone.  It listens at once, and *)
(* restoreTasks reads all documents and updates one after the other.       *)
(***************************************************************************)
Restart ==
  /\ restarts < MaxRestarts /\ restarts' = restarts + 1
  /\ timers' = {} /\ runs' = {} /\ restore' = {} /\ restoring' = TRUE
  /\ UNCHANGED <<tasks, trigger, now, jobs, calls, astray>>

RestoreFind ==
  /\ restoring /\ restoring' = FALSE
  /\ restore' = {[t |-> t, doc |-> tasks[t], at |-> now] :
                   t \in {u \in Task : tasks[u].there}}
  /\ UNCHANGED <<tasks, timers, runs, trigger, now, jobs, calls, restarts, astray>>

RestoreWrite(d) ==
  /\ restore' = restore \ {d}
  /\ tasks' = IF d.doc.when > d.at
              THEN [tasks EXCEPT ![d.t].status = "abort",
                                 ![d.t].job = IF d.doc.job # 0 THEN 0 ELSE @]
              ELSE tasks
  /\ UNCHANGED <<timers, runs, trigger, restoring, now, jobs, calls, restarts,
                 astray>>

Step(r) == \/ CreateInsert(r) \/ CreateJob(r) \/ EditFind(r) \/ EditWrite(r)
           \/ StopFind(r) \/ StopWrite(r)
           \/ IssueFind(r) \/ IssueLookup(r) \/ IssueWrite(r)

Next ==
  \/ \E t \in Task : PostTask(t) \/ PutTask(t) \/ StopTask(t) \/ TriggerTask(t)
  \/ \E m \in timers : Fire(m)
  \/ \E r \in runs : Step(r)
  \/ DeleteTrigger \/ Tick \/ Restart \/ RestoreFind
  \/ \E d \in restore : RestoreWrite(d)

Spec == Init /\ [][Next]_vars

(***************************************************************************)
(* Fairness: time passes, due timers fire, awaits return, and restoreTasks *)
(* goes on.                                                                *)
(***************************************************************************)
Fairness ==
  /\ WF_vars(Tick) /\ WF_vars(\E m \in timers : Fire(m))
  /\ WF_vars(\E r \in runs : Step(r))
  /\ WF_vars(RestoreFind) /\ WF_vars(\E d \in restore : RestoreWrite(d))

FairSpec == Spec /\ Fairness

-----------------------------------------------------------------------------
(***************************************************************************)
(* Properties.                                                             *)
(***************************************************************************)
Live(t) == {m \in timers : m.t = t /\ m.live}
Quiet(t) == On(t) = {} /\ ~Restored(t) /\ t \notin astray

\* The types of the variables; one timer has one job id.
TypeOK ==
  /\ tasks \in [Task -> [there : BOOLEAN, status : Finished \cup {"pending"},
                         job : 0 .. jobs, when : 0 .. MaxClock]]
  /\ timers \subseteq [job : 1 .. jobs, t : Task, when : 0 .. MaxClock,
                       live : BOOLEAN]
  /\ \A m, n \in timers : m.job = n.job => m = n
  /\ \A r \in runs : r.t \in Task /\ r.job \in 0 .. jobs
  /\ {trigger, restoring} \subseteq BOOLEAN /\ astray \subseteq Task

(***************************************************************************)
(* A timer that is going to fire is the one its task's document names, and *)
(* the task is pending: whatever was edited, stopped, triggered by hand or *)
(* cancelled by a restart, no earlier timer is left over.                  *)
(***************************************************************************)
NoTimerLeftOver ==
  /\ TypeOK
  /\ \A t \in Task : Quiet(t) =>
       \A m \in Live(t) : tasks[t].status = "pending" /\ tasks[t].job = m.job

(***************************************************************************)
(* A task that was cancelled gets a result only from a run that began      *)
(* before the cancel was written, or from one that was asked for by hand:  *)
(* no timer of it fires any more.                                          *)
(***************************************************************************)
CancelledIsNotDispatched ==
  [][\A t \in Task :
       /\ tasks[t].status = "abort" /\ tasks'[t].status \in {"success", "fail"}
       /\ t \notin astray
       => \E r \in On(t) : r.at = "webhook" /\ (r.asked \/ r.seen # "abort")]_vars

(***************************************************************************)
(* A scheduled task does not stay pending for ever: its timer fires and    *)
(* its result is written, unless its trigger is missing, the server is     *)
(* restarted, it is armed in the midst of something else or for a time     *)
(* already past, or an edit takes its timer away and is then refused.      *)
(***************************************************************************)
ScheduledTaskEnds ==
  \A t \in Task :
    tasks[t].status = "pending" /\ Live(t) # {}
      ~> \/ tasks[t].status # "pending" \/ ~trigger
         \/ Restored(t) \/ restarts > 0 \/ t \in astray
=============================================================================
