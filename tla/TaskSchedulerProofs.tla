------------------------ MODULE TaskSchedulerProofs ------------------------
(***************************************************************************)
(* What TaskScheduler promises, for every set of tasks, every bound on the *)
(* clock, on the requests and on the restarts, and every order in which    *)
(* requests, timers, their awaits, a restart and the restoring that follows*)
(* it go.                                                                  *)
(*                                                                         *)
(* The invariant is said of a task that is not astray.  A request that     *)
(* arms a timer is alone on its task from its first await to its last one  *)
(* (otherwise the task is astray), so no handler has read the document it  *)
(* is about to change; every other handler takes the timer away before it  *)
(* writes.  While some run has come further than the read of its document, *)
(* and while restoreTasks has still to come to the task, no timer of the   *)
(* task is set.                                                            *)
(***************************************************************************)
EXTENDS TaskScheduler, TLAPS

Doc == [there : BOOLEAN, status : Finished \cup {"pending"}, job : 0 .. jobs,
        when : 0 .. MaxClock]

TimerType == [job : 1 .. jobs, t : Task, when : 0 .. MaxClock, live : BOOLEAN]

RunType ==
  [call : {"create", "edit", "stop", "issue"},
   at : {"insert", "job", "find", "write", "lookup", "webhook"},
   t : Task, seen : Finished \cup {"pending"}, immediate : BOOLEAN,
   when : 0 .. MaxClock, job : 0 .. jobs, asked : BOOLEAN, id : Int]

\* What the place a run has come to says of it.
Placed(r) ==
  /\ r.call = "create" => r.at \in {"insert", "job"}
  /\ r.call = "edit"   => r.at \in {"find", "write"} /\ tasks[r.t].there
  /\ r.at = "job"      => r.call = "create" /\ tasks[r.t].there
  /\ r.at = "job" \/ (r.call = "edit" /\ r.at = "write") => r.job # 0

Typed ==
  /\ TypeOK
  /\ jobs \in Nat /\ calls \in Nat /\ now \in 1 .. MaxClock
  /\ runs \subseteq RunType
  /\ \A d \in restore : d.t \in Task
  /\ \A r \in runs : Placed(r)

\* The timers of a task, and its document.
Named(t) ==
  /\ \A m \in Live(t) : tasks[t].status = "pending" /\ tasks[t].job = m.job
  /\ Restored(t) \/ ~tasks[t].there => Live(t) = {}
  /\ \A r \in On(t) : r.at # "find" => Live(t) = {}

\* The runs on a task.
Alone(t) ==
  \A r \in On(t) : /\ Arming(r) => On(t) = {r} /\ ~Restored(t)
                   /\ Arming(r) /\ r.at = "job" => tasks[t].status = "pending"
                   /\ ~r.asked  => r.seen # "abort"

Sound(t) == Named(t) /\ Alone(t)

IInv == Typed /\ \A t \in Task : t \notin astray => Sound(t)

-----------------------------------------------------------------------------
(***************************************************************************)
(* The types.                                                              *)
(***************************************************************************)

\* More job ids: what was a run, a document or a timer is one still.
LEMMA Widens ==
  ASSUME Typed, jobs' \in Nat, jobs <= jobs'
  PROVE  /\ \A x \in RunType : x \in RunType'
         /\ \A x \in Doc : x \in Doc'
         /\ \A x \in TimerType : x \in TimerType'
<1>1. \A i \in 0 .. jobs : i \in 0 .. jobs'
  BY DEF Typed
<1>2. \A i \in 1 .. jobs : i \in 1 .. jobs'
  BY DEF Typed
<1>3. \A x \in RunType : x \in RunType'
  BY <1>1 DEF RunType
<1>4. \A x \in Doc : x \in Doc'
  BY <1>1 DEF Doc
<1>5. \A x \in TimerType : x \in TimerType'
  BY <1>2 DEF TimerType
<1> QED BY <1>3, <1>4, <1>5

\* What a step has to show to keep the types.
LEMMA TypedBy ==
  ASSUME Typed, jobs' \in Nat, jobs <= jobs', calls' \in Nat, now' \in 1 .. MaxClock,
         tasks' \in [Task -> Doc'],
         \A u \in Task : tasks[u].there => tasks'[u].there,
         timers' \subseteq TimerType',
         \A m, n \in timers' : m.job = n.job => m = n,
         NEW S, runs' \subseteq runs \cup S,
         \A q \in S : q \in RunType' /\ Placed(q)',
         \A d \in restore' : d.t \in Task,
         trigger' \in BOOLEAN, restoring' \in BOOLEAN, astray' \subseteq Task
  PROVE  Typed'
<1>1. TypeOK'
  <2>1. \A r \in runs' : r.t \in Task /\ r.job \in 0 .. jobs'
    <3> SUFFICES ASSUME NEW r \in runs' PROVE r.t \in Task /\ r.job \in 0 .. jobs'
      OBVIOUS
    <3>1. r \in RunType'
      BY Widens DEF Typed
    <3> QED BY <3>1 DEF RunType
  <2> QED BY <2>1 DEF TypeOK, Doc, TimerType
<1>2. runs' \subseteq RunType'
  BY Widens DEF Typed
<1>3. \A r \in runs' : Placed(r)'
  <2> SUFFICES ASSUME NEW r \in runs, Placed(r) PROVE Placed(r)'
    BY DEF Typed
  <2>1. r.t \in Task
    BY DEF Typed, RunType
  <2> QED BY <2>1 DEF Placed
<1> QED BY <1>1, <1>2, <1>3 DEF Typed

\* What the types say.
LEMMA TypeFacts ==
  ASSUME Typed
  PROVE  /\ tasks \in [Task -> Doc] /\ timers \subseteq TimerType
         /\ \A m, n \in timers : m.job = n.job => m = n
         /\ \A r \in runs : r \in RunType /\ r.t \in Task /\ Placed(r)
         /\ now \in Nat /\ now \in 0 .. MaxClock /\ MaxClock \in Nat
BY SchedulerAssumption DEF Typed, TypeOK, Doc, TimerType, RunType

\* A step that neither takes nor makes a timer, a document or a job id.
LEMMA TypedKept ==
  ASSUME Typed, UNCHANGED <<tasks, jobs>>, calls' \in Nat, now' \in 1 .. MaxClock,
         timers' \subseteq timers,
         NEW S, runs' \subseteq runs \cup S,
         \A q \in S : q \in RunType /\ Placed(q),
         \A d \in restore' : d.t \in Task,
         trigger' \in BOOLEAN, restoring' \in BOOLEAN, astray' \subseteq Task
  PROVE  Typed'
<1>1. jobs' \in Nat /\ jobs <= jobs'
  BY DEF Typed
<1>2. tasks' \in [Task -> Doc'] /\ timers' \subseteq TimerType'
  BY TypeFacts DEF Doc, TimerType
<1>3. \A u \in Task : tasks[u].there => tasks'[u].there
  OBVIOUS
<1>4. \A m, n \in timers' : m.job = n.job => m = n
  BY TypeFacts
<1>5. \A q \in S : q \in RunType' /\ Placed(q)'
  BY DEF RunType, Placed
<1> QED BY <1>1, <1>2, <1>3, <1>4, <1>5, TypedBy

\* A run that begins, or goes on with no more than its place changed.
LEMMA BeginTyped ==
  ASSUME Typed, NEW q, q \in RunType, Placed(q), Begin(q), UNCHANGED <<tasks, jobs>>,
         calls' \in Nat, UNCHANGED <<now, restore, trigger, restoring>>,
         timers' \subseteq timers
  PROVE  Typed'
<1>1. runs' \subseteq runs \cup {q}
  BY DEF Begin
<1>2. astray' \subseteq Task
  BY DEF Begin, Typed, TypeOK, RunType
<1>3. now' \in 1 .. MaxClock /\ trigger' \in BOOLEAN /\ restoring' \in BOOLEAN
  BY DEF Typed, TypeOK
<1>4. \A d \in restore' : d.t \in Task
  BY DEF Typed
<1> DEFINE S == {q}
<1>5. runs' \subseteq runs \cup S /\ \A x \in S : x \in RunType /\ Placed(x)
  BY <1>1
<1> HIDE DEF S
<1> QED BY <1>2, <1>3, <1>4, <1>5, TypedKept

\* The four requests.
LEMMA CallTyped ==
  ASSUME Typed, NEW q, q \in RunType, Placed(q), Call(q)
  PROVE  Typed'
<1>1. calls' \in Nat
  BY DEF Call, Typed
<1> QED BY <1>1, BeginTyped DEF Call

LEMMA RequestTyped ==
  ASSUME Typed, NEW t \in Task,
         PostTask(t) \/ PutTask(t) \/ StopTask(t) \/ TriggerTask(t)
  PROVE  Typed'
<1>1. tasks[t] \in Doc /\ calls \in Int /\ 0 \in 0 .. MaxClock /\ 0 \in 0 .. jobs
  BY TypeFacts DEF Typed
<1>2. tasks[t].status \in Finished \cup {"pending"} /\ tasks[t].job \in 0 .. jobs
  BY <1>1 DEF Doc
<1>3. \A c \in {"create", "edit", "stop", "issue"} : \A a \in {"insert", "find"} :
        Run(c, a, t) \in RunType
  BY <1>1, <1>2 DEF RunType, Run
<1>4. CASE PostTask(t)
  <2>1. PICK w \in 0 .. MaxClock :
          Call([Run("create", "insert", t) EXCEPT !.when = w, !.immediate = (w = 0)])
    BY <1>4 DEF PostTask
  <2> DEFINE q == [Run("create", "insert", t) EXCEPT !.when = w, !.immediate = (w = 0)]
  <2>2. q \in RunType
    BY <1>3 DEF RunType
  <2>3. q.call = "create" /\ q.at = "insert"
    BY DEF Run
  <2> HIDE DEF q
  <2>4. Placed(q)
    BY <2>3 DEF Placed
  <2> QED BY <2>1, <2>2, <2>4, CallTyped DEF q
<1>8. CASE PutTask(t)
  <2>1. PICK w \in 0 .. MaxClock, immediate \in BOOLEAN, j \in {0, tasks[t].job} :
          Call([Run("edit", "find", t) EXCEPT
                  !.when = w, !.immediate = immediate, !.job = j])
    BY <1>8 DEF PutTask
  <2> DEFINE q == [Run("edit", "find", t) EXCEPT
                     !.when = w, !.immediate = immediate, !.job = j]
  <2>2. q \in RunType
    BY <1>1, <1>2, <1>3 DEF RunType
  <2>3. q.call = "edit" /\ q.at = "find" /\ q.t = t
    BY DEF Run
  <2> HIDE DEF q
  <2>4. Placed(q)
    BY <1>8, <2>3 DEF Placed, PutTask
  <2> QED BY <2>1, <2>2, <2>4, CallTyped DEF q
<1>5. ASSUME NEW c \in {"stop", "issue"}, Call(Run(c, "find", t)) PROVE Typed'
  <2>1. Run(c, "find", t) \in RunType /\ Placed(Run(c, "find", t))
    BY <1>3 DEF Placed, Run
  <2> QED BY <1>5, <2>1, CallTyped
<1>6. CASE StopTask(t)
  BY <1>5, <1>6 DEF StopTask
<1>7. CASE TriggerTask(t)
  BY <1>5, <1>7 DEF TriggerTask
<1> QED BY <1>4, <1>6, <1>7, <1>8

\* A timer that fires is not live any more, and a run of its task begins.
LEMMA FireTyped ==
  ASSUME Typed, NEW m \in timers, Fire(m)
  PROVE  Typed'
<1> DEFINE n == [m EXCEPT !.live = FALSE]
           q == [Run("issue", "find", m.t) EXCEPT !.asked = FALSE, !.id = -m.job]
<1>1. m \in TimerType /\ m.t \in Task /\ m.job \in Int
  BY TypeFacts DEF TimerType, Typed
<1>2. n \in TimerType /\ n.job = m.job
  BY <1>1 DEF TimerType
<1>3. tasks[m.t].status \in Finished \cup {"pending"} /\ 0 \in 0 .. MaxClock /\ 0 \in 0 .. jobs
  BY <1>1, TypeFacts DEF Doc, Typed
<1>4. Run("issue", "find", m.t) \in RunType /\ -m.job \in Int
  BY <1>1, <1>3 DEF RunType, Run, Typed
<1>5. q \in RunType /\ Placed(q)
  <2>1. q \in RunType
    BY <1>4 DEF RunType
  <2>2. q.call = "issue" /\ q.at = "find"
    BY DEF Run
  <2> HIDE DEF q
  <2> QED BY <2>1, <2>2 DEF Placed
<1>6. /\ timers' = (timers \ {m}) \cup {n} /\ Begin(q)
      /\ UNCHANGED <<tasks, trigger, restore, restoring, now, jobs, calls, restarts>>
  BY DEF Fire
<1> HIDE DEF n, q
<1>7. timers' \subseteq TimerType' /\ TimerType' = TimerType
  BY <1>2, <1>6, TypeFacts DEF TimerType
<1>8. \A a, b \in timers' : a.job = b.job => a = b
  BY <1>2, <1>6, TypeFacts
<1>9. astray' \subseteq Task
  BY <1>5, <1>6 DEF Begin, Typed, TypeOK, RunType
<1>10. jobs' \in Nat /\ jobs <= jobs' /\ calls' \in Nat /\ now' \in 1 .. MaxClock
       /\ trigger' \in BOOLEAN /\ restoring' \in BOOLEAN /\ \A d \in restore' : d.t \in Task
  BY <1>6 DEF Typed, TypeOK
<1>11. tasks' \in [Task -> Doc'] /\ \A u \in Task : tasks[u].there => tasks'[u].there
  BY <1>6, TypeFacts DEF Doc
<1> DEFINE S == {q}
<1>12. runs' \subseteq runs \cup S /\ \A x \in S : x \in RunType' /\ Placed(x)'
  BY <1>5, <1>6 DEF Begin, RunType, Placed
<1> HIDE DEF S
<1> QED BY <1>7, <1>8, <1>9, <1>10, <1>11, <1>12, TypedBy

\* A timer armed under a job id is the only one that has it.
LEMMA ArmTyped ==
  ASSUME Typed, NEW j \in 1 .. jobs, NEW t \in Task, NEW w \in 0 .. MaxClock
  PROVE  /\ Arm(timers, j, t, w) \subseteq TimerType
         /\ \A a, b \in Arm(timers, j, t, w) : a.job = b.job => a = b
         /\ Without(j) \subseteq timers
<1>1. Timer(j, t, w) \in TimerType /\ Timer(j, t, w).job = j
  BY DEF Timer, TimerType
<1> QED BY <1>1, TypeFacts DEF Arm, Without

\* What every step of a run leaves alone.
Elsewhere == UNCHANGED <<trigger, restore, restoring, now, calls, restarts>>

LEMMA ElsewhereTyped ==
  ASSUME Typed, Elsewhere
  PROVE  /\ calls' \in Nat /\ now' \in 1 .. MaxClock
         /\ trigger' \in BOOLEAN /\ restoring' \in BOOLEAN
         /\ \A d \in restore' : d.t \in Task
BY DEF Elsewhere, Typed, TypeOK

\* A run that ends, or goes on with the same task, while the documents stay.
LEMMA GoTyped ==
  ASSUME Typed, Elsewhere, NEW r \in runs, NEW q, q \in RunType, Placed(q),
         Go(r, q) \/ End(r), UNCHANGED <<tasks, jobs>>, timers' \subseteq timers,
         astray' \subseteq Task
  PROVE  Typed'
<1> DEFINE S == {q}
<1>1. runs' \subseteq runs \cup S /\ \A x \in S : x \in RunType /\ Placed(x)
  BY DEF Go, End
<1> HIDE DEF S
<1> QED BY <1>1, ElsewhereTyped, TypedKept

\* A run that writes the document of its task.
LEMMA WriteTyped ==
  ASSUME Typed, Elsewhere, NEW r \in runs, NEW q, NEW d,
         jobs' \in Nat, jobs <= jobs',
         q \in RunType', Placed(q)', Go(r, q) \/ End(r),
         tasks' = [tasks EXCEPT ![r.t] = d], d \in Doc',
         tasks[r.t].there => d.there,
         timers' \subseteq TimerType', \A m, n \in timers' : m.job = n.job => m = n,
         astray' \subseteq Task
  PROVE  Typed'
<1> DEFINE S == {q}
<1>1. runs' \subseteq runs \cup S /\ \A x \in S : x \in RunType' /\ Placed(x)'
  BY DEF Go, End
<1>2. tasks' \in [Task -> Doc']
  BY TypeFacts, Widens
<1>3. \A u \in Task : tasks[u].there => tasks'[u].there
  BY TypeFacts
<1> HIDE DEF S
<1> QED BY <1>1, <1>2, <1>3, ElsewhereTyped, TypedBy

\* A job id is only missing where there is no timer to set.
LEMMA CreateInsertTyped ==
  ASSUME Typed, NEW r \in runs, CreateInsert(r)
  PROVE  Typed'
<1>1. r \in RunType /\ r.t \in Task /\ Elsewhere /\ timers' = timers
      /\ r.call = "create" /\ r.at = "insert"
  BY TypeFacts DEF CreateInsert, Elsewhere
<1> DEFINE d == [Absent EXCEPT !.there = TRUE, !.when = r.when]
<1>q. PICK q : q = IF r.immediate THEN Issue(r) ELSE [r EXCEPT !.at = "job", !.job = NewJob]
  OBVIOUS
<1>3. jobs' \in Nat /\ jobs <= jobs'
  BY DEF CreateInsert, NewJob, Typed
<1>2. d \in Doc' /\ d.there = TRUE
  <2>1. Absent \in Doc'
    BY <1>3, SchedulerAssumption DEF Doc, Absent, Finished
  <2>2. r.when \in 0 .. MaxClock
    BY <1>1 DEF RunType
  <2> QED BY <2>1, <2>2 DEF Doc
<1>4. r \in RunType'
  BY <1>1, <1>3, Widens
<1>5. Go(r, q) /\ tasks' = [tasks EXCEPT ![r.t] = d]
  BY <1>q DEF CreateInsert
<1>6. q \in RunType' /\ q.t = r.t
  <2>1. CASE r.immediate
    BY <1>4, <1>q, <2>1 DEF RunType, Issue
  <2>2. CASE ~r.immediate
    <3>1. NewJob \in 0 .. jobs'
      BY <2>2 DEF CreateInsert, NewJob, Typed
    <3> QED BY <1>4, <1>q, <2>2, <3>1 DEF RunType
  <2> QED BY <2>1, <2>2
<1>7. Placed(q)'
  <2>1. tasks'[r.t].there
    BY <1>1, <1>2, <1>5, TypeFacts
  <2>2. CASE r.immediate
    <3>1. q.call = "issue" /\ q.at = "find"
      BY <1>4, <1>q, <2>2 DEF Issue, RunType
    <3> QED BY <3>1 DEF Placed
  <2>3. CASE ~r.immediate
    <3>1. q.call = "create" /\ q.at = "job" /\ q.job = NewJob
      BY <1>1, <1>4, <1>q, <2>3 DEF RunType
    <3>2. NewJob # 0
      BY DEF NewJob, Typed
    <3> QED BY <1>6, <2>1, <3>1, <3>2 DEF Placed
  <2> QED BY <2>2, <2>3
<1>8. timers' \subseteq TimerType' /\ \A m, n \in timers' : m.job = n.job => m = n
  BY <1>1, <1>3, TypeFacts, Widens
<1>9. astray' \subseteq Task
  BY DEF CreateInsert, Typed, TypeOK
<1> HIDE DEF d
<1> QED BY <1>1, <1>2, <1>3, <1>5, <1>6, <1>7, <1>8, <1>9, WriteTyped

LEMMA CreateJobTyped ==
  ASSUME Typed, NEW r \in runs, CreateJob(r)
  PROVE  Typed'
<1> DEFINE d == [tasks[r.t] EXCEPT !.job = r.job]
<1>1. r \in RunType /\ r.t \in Task /\ Elsewhere /\ jobs' = jobs /\ Placed(r)
      /\ r.call = "create" /\ r.at = "job" /\ timers' = Arm(timers, r.job, r.t, r.when)
      /\ tasks' = [tasks EXCEPT ![r.t] = d] /\ End(r) /\ Late(r.t, r.when)
  BY TypeFacts DEF CreateJob, Elsewhere
<1>2. tasks[r.t] \in Doc /\ r.job \in 0 .. jobs /\ r.job \in 1 .. jobs /\ r.when \in 0 .. MaxClock
  BY <1>1, TypeFacts DEF RunType, Placed, Typed
<1>3. d \in Doc' /\ d.there = tasks[r.t].there
  BY <1>1, <1>2 DEF Doc
<1>4. TimerType' = TimerType
  BY <1>1 DEF TimerType
<1>5. timers' \subseteq TimerType' /\ \A m, n \in timers' : m.job = n.job => m = n
  BY <1>1, <1>2, <1>4, ArmTyped
<1>6. r \in RunType' /\ Placed(r)'
  BY <1>1, <1>3, TypeFacts DEF RunType, Placed
<1>7. astray' \subseteq Task
  BY <1>1 DEF Late, Typed, TypeOK
<1>8. jobs' \in Nat /\ jobs <= jobs'
  BY <1>1 DEF Typed
<1> HIDE DEF d
<1> QED BY <1>1, <1>3, <1>5, <1>6, <1>7, <1>8, WriteTyped

LEMMA EditFindTyped ==
  ASSUME Typed, NEW r \in runs, EditFind(r)
  PROVE  Typed'
<1>1. r \in RunType /\ r.t \in Task /\ Elsewhere /\ Placed(r) /\ r.call = "edit" /\ r.at = "find"
      /\ timers' \subseteq timers /\ tasks' = tasks
  BY TypeFacts DEF EditFind, Elsewhere, Without
<1>2. CASE ~r.immediate /\ r.when = 0
  <2>1. astray' \subseteq Task /\ jobs' = jobs /\ End(r)
    BY <1>1, <1>2 DEF EditFind, Typed, TypeOK
  <2> QED BY <1>1, <2>1, GoTyped
<1>3. CASE ~(~r.immediate /\ r.when = 0)
  <2> DEFINE j == IF r.job # 0 THEN r.job ELSE NewJob
  <2>q. PICK q : q = [r EXCEPT !.at = "write", !.job = j]
    OBVIOUS
  <2>1. Go(r, q) /\ jobs' = (IF j > jobs THEN j ELSE jobs) /\ astray' = astray
    BY <1>3, <2>q DEF EditFind
  <2>2. r.job \in 0 .. jobs
    BY <1>1 DEF RunType
  <2>3. j \in 0 .. jobs' /\ jobs' \in Nat /\ jobs <= jobs' /\ j # 0
    BY <2>1, <2>2 DEF NewJob, Typed
  <2> HIDE DEF j
  <2>4. r \in RunType'
    BY <1>1, <2>3, Widens
  <2>5. q \in RunType' /\ q.t = r.t /\ q.call = "edit" /\ q.at = "write" /\ q.job = j
    BY <1>1, <2>3, <2>4, <2>q DEF RunType
  <2>6. Placed(q)'
    BY <1>1, <2>3, <2>5 DEF Placed
  <2>7. timers' \subseteq TimerType' /\ \A m, n \in timers' : m.job = n.job => m = n
    BY <1>1, <2>3, TypeFacts, Widens
  <2>8. tasks' \in [Task -> Doc'] /\ \A u \in Task : tasks[u].there => tasks'[u].there
    BY <1>1, <2>3, TypeFacts, Widens
  <2> DEFINE S == {q}
  <2>9. runs' \subseteq runs \cup S /\ \A x \in S : x \in RunType' /\ Placed(x)'
    BY <2>1, <2>5, <2>6 DEF Go
  <2>10. astray' \subseteq Task
    BY <2>1 DEF Typed, TypeOK
  <2> HIDE DEF S
  <2> QED BY <1>1, <2>3, <2>7, <2>8, <2>9, <2>10, ElsewhereTyped, TypedBy
<1> QED BY <1>2, <1>3

LEMMA EditWriteTyped ==
  ASSUME Typed, NEW r \in runs, EditWrite(r)
  PROVE  Typed'
<1> DEFINE w == IF r.when = 0 THEN tasks[r.t].when ELSE r.when
<1>1. r \in RunType /\ r.t \in Task /\ Elsewhere /\ Placed(r) /\ r.call = "edit" /\ r.at = "write"
      /\ jobs' = jobs /\ tasks[r.t] \in Doc
  BY TypeFacts DEF EditWrite, Elsewhere
<1>2. w \in 0 .. MaxClock /\ r.job \in 1 .. jobs /\ 0 \in 0 .. jobs /\ r.job \in 0 .. jobs
  BY <1>1 DEF RunType, Doc, Placed, Typed
<1>3. jobs' \in Nat /\ jobs <= jobs' /\ TimerType' = TimerType
  BY <1>1 DEF Typed, TimerType
<1>4. CASE r.immediate
  <2> DEFINE d == [[tasks[r.t] EXCEPT !.job = 0] EXCEPT !.when = w]
  <2>1. /\ tasks' = [tasks EXCEPT ![r.t].job = 0, ![r.t].when = w]
        /\ Go(r, Issue(r)) /\ timers' = timers /\ astray' = astray
    BY <1>4 DEF EditWrite
  <2>2. tasks' = [tasks EXCEPT ![r.t] = d]
    BY <1>1, <2>1, TypeFacts
  <2> HIDE DEF w
  <2>3. d \in Doc' /\ d.there = tasks[r.t].there
    BY <1>1, <1>2 DEF Doc
  <2>4. Issue(r) \in RunType' /\ Issue(r).call = "issue" /\ Issue(r).at = "find"
    BY <1>1 DEF RunType, Issue
  <2>5. Placed(Issue(r))'
    BY <2>4 DEF Placed
  <2>6. timers' \subseteq TimerType' /\ (\A m, n \in timers' : m.job = n.job => m = n)
        /\ astray' \subseteq Task
    BY <1>3, <2>1, TypeFacts DEF Typed, TypeOK
  <2> HIDE DEF d
  <2> QED BY <1>1, <1>3, <2>1, <2>2, <2>3, <2>4, <2>5, <2>6, WriteTyped
<1>5. CASE ~r.immediate
  <2> DEFINE d == [[[tasks[r.t] EXCEPT !.job = r.job] EXCEPT !.when = w] EXCEPT !.status = "pending"]
  <2>1. /\ tasks' = [tasks EXCEPT ![r.t].job = r.job, ![r.t].when = w, ![r.t].status = "pending"]
        /\ End(r) /\ timers' = Arm(timers, r.job, r.t, w) /\ Late(r.t, w)
    BY <1>5 DEF EditWrite
  <2>2. tasks' = [tasks EXCEPT ![r.t] = d]
    BY <1>1, <2>1, TypeFacts
  <2> HIDE DEF w
  <2>3. d \in Doc' /\ d.there = tasks[r.t].there
    BY <1>1, <1>2 DEF Doc
  <2>4. r \in RunType' /\ Placed(r)'
    BY <1>1, <2>2, <2>3, TypeFacts DEF RunType, Placed
  <2>5. timers' \subseteq TimerType' /\ \A m, n \in timers' : m.job = n.job => m = n
    BY <1>1, <1>2, <1>3, <2>1, ArmTyped
  <2>6. astray' \subseteq Task
    BY <1>1, <2>1 DEF Late, Typed, TypeOK
  <2> HIDE DEF d
  <2> QED BY <1>1, <1>3, <2>1, <2>2, <2>3, <2>4, <2>5, <2>6, WriteTyped
<1> QED BY <1>4, <1>5

\* The steps of a run that stops a task or dispatches it, but for the last one.
LEMMA PlaceTyped ==
  ASSUME Typed, NEW r \in runs,
         StopFind(r) \/ IssueFind(r) \/ IssueLookup(r)
  PROVE  Typed'
<1>1. r \in RunType /\ Elsewhere /\ UNCHANGED <<tasks, jobs>> /\ r.call \in {"stop", "issue"}
      /\ timers' \subseteq timers /\ astray' \subseteq Task
  BY TypeFacts DEF StopFind, IssueFind, IssueLookup, Elsewhere, Without, Typed, TypeOK
<1>2. PICK a \in {"write", "lookup", "webhook"} : Go(r, [r EXCEPT !.at = a]) \/ End(r)
  BY DEF StopFind, IssueFind, IssueLookup
<1> DEFINE q == [r EXCEPT !.at = a]
<1>3. q \in RunType /\ q.call \in {"stop", "issue"} /\ q.at = a
  BY <1>1, <1>2 DEF RunType
<1>4. Go(r, q) \/ End(r)
  BY <1>2
<1> HIDE DEF q
<1>5. Placed(q)
  BY <1>3 DEF Placed
<1> QED BY <1>1, <1>3, <1>4, <1>5, GoTyped

\* The last step: the result is written, or the abort.
LEMMA ResultTyped ==
  ASSUME Typed, NEW r \in runs, StopWrite(r) \/ IssueWrite(r)
  PROVE  Typed'
<1>1. r \in RunType /\ r.t \in Task /\ Elsewhere /\ jobs' = jobs /\ timers' = timers
      /\ Placed(r) /\ End(r) /\ astray' = astray /\ tasks[r.t] \in Doc
      /\ r.call \in {"stop", "issue"} /\ r.at \in {"write", "webhook"}
  BY TypeFacts DEF StopWrite, IssueWrite, Elsewhere
<1>2. \E s \in Finished, w \in 0 .. MaxClock :
        tasks' = [tasks EXCEPT ![r.t] = [[[@ EXCEPT !.job = 0] EXCEPT !.status = s] EXCEPT !.when = w]]
  <2>1. CASE StopWrite(r)
    <3>1. tasks' = [tasks EXCEPT ![r.t].job = 0, ![r.t].status = "abort"]
      BY <2>1 DEF StopWrite
    <3> DEFINE e == [[tasks[r.t] EXCEPT !.job = 0] EXCEPT !.status = "abort"]
    <3>2. tasks' = [tasks EXCEPT ![r.t] = e]
      BY <1>1, <3>1, TypeFacts
    <3>3. e \in [there : BOOLEAN, status : Finished \cup {"pending"}, job : 0 .. jobs,
                 when : 0 .. MaxClock]
      BY <1>1, 0 \in 0 .. jobs DEF Doc, Finished, Typed
    <3>4. e = [e EXCEPT !.when = e.when] /\ e.when \in 0 .. MaxClock
      BY <3>3
    <3> QED BY <3>2, <3>4 DEF Finished
  <2>2. CASE IssueWrite(r)
    <3>1. PICK s \in {"success", "fail"} :
            tasks' = [tasks EXCEPT ![r.t].job = 0, ![r.t].status = s, ![r.t].when = now]
      BY <2>2 DEF IssueWrite
    <3> QED BY <1>1, <3>1, TypeFacts DEF Finished
  <2> QED BY <2>1, <2>2
<1>3. PICK s \in Finished, w \in 0 .. MaxClock :
        tasks' = [tasks EXCEPT ![r.t] = [[[@ EXCEPT !.job = 0] EXCEPT !.status = s] EXCEPT !.when = w]]
  BY <1>2
<1> DEFINE d == [[[tasks[r.t] EXCEPT !.job = 0] EXCEPT !.status = s] EXCEPT !.when = w]
<1>4. tasks' = [tasks EXCEPT ![r.t] = d]
  BY <1>3
<1>5. 0 \in 0 .. jobs /\ jobs' \in Nat /\ jobs <= jobs'
  BY <1>1 DEF Typed
<1>6. d \in Doc' /\ d.there = tasks[r.t].there
  BY <1>1, <1>3, <1>5 DEF Doc
<1>7. r \in RunType' /\ Placed(r)'
  BY <1>1 DEF RunType, Placed
<1>8. timers' \subseteq TimerType' /\ (\A m, n \in timers' : m.job = n.job => m = n)
      /\ astray' \subseteq Task
  BY <1>1, TypeFacts DEF Typed, TypeOK, TimerType
<1> HIDE DEF d
<1> QED BY <1>1, <1>4, <1>5, <1>6, <1>7, <1>8, WriteTyped

\* A step of none of the runs; the documents may be written.
LEMMA TypedIdle ==
  ASSUME Typed, jobs' = jobs, calls' \in Nat, now' \in 1 .. MaxClock,
         tasks' \in [Task -> Doc], \A u \in Task : tasks[u].there => tasks'[u].there,
         timers' \subseteq timers, runs' \subseteq runs,
         \A d \in restore' : d.t \in Task,
         trigger' \in BOOLEAN, restoring' \in BOOLEAN, astray' \subseteq Task
  PROVE  Typed'
<1> DEFINE S == {}
<1>1. runs' \subseteq runs \cup S /\ \A q \in S : q \in RunType' /\ Placed(q)'
  OBVIOUS
<1>2. jobs' \in Nat /\ jobs <= jobs'
  BY DEF Typed
<1>3. timers' \subseteq TimerType' /\ tasks' \in [Task -> Doc']
      /\ \A m, n \in timers' : m.job = n.job => m = n
  BY TypeFacts DEF Doc, TimerType
<1> HIDE DEF S
<1> QED BY <1>1, <1>2, <1>3, TypedBy

\* The steps of the server itself.
LEMMA ServerTyped ==
  ASSUME Typed,
         DeleteTrigger \/ Tick \/ Restart \/ RestoreFind \/ \E d \in restore : RestoreWrite(d)
  PROVE  Typed'
<1>0. /\ jobs \in Nat /\ calls \in Nat /\ now \in 1 .. MaxClock /\ MaxClock \in Nat
      /\ \A d \in restore : d.t \in Task
      /\ trigger \in BOOLEAN /\ restoring \in BOOLEAN /\ astray \subseteq Task
      /\ tasks \in [Task -> Doc]
  BY SchedulerAssumption, TypeFacts DEF Typed, TypeOK
<1>1. CASE DeleteTrigger
  BY <1>0, <1>1, TypedIdle DEF DeleteTrigger
<1>2. CASE Tick
  <2>1. now' \in 1 .. MaxClock
    BY <1>0, <1>2 DEF Tick
  <2> QED BY <1>0, <1>2, <2>1, TypedIdle DEF Tick
<1>3. CASE Restart
  BY <1>0, <1>3, TypedIdle DEF Restart
<1>4. CASE RestoreFind
  <2>1. \A d \in restore' : d.t \in Task
    BY <1>4 DEF RestoreFind
  <2> QED BY <1>0, <1>4, <2>1, TypedIdle DEF RestoreFind
<1>5. ASSUME NEW d \in restore, RestoreWrite(d) PROVE Typed'
  <2>1. /\ UNCHANGED <<timers, runs, trigger, restoring, now, jobs, calls, restarts, astray>>
        /\ restore' = restore \ {d}
    BY <1>5 DEF RestoreWrite
  <2>2. CASE tasks' = tasks
    BY <1>0, <2>1, <2>2, TypedIdle
  <2>3. CASE tasks' # tasks
    <3>1. tasks' = [tasks EXCEPT ![d.t].status = "abort",
                                 ![d.t].job = IF d.doc.job # 0 THEN 0 ELSE @]
      BY <1>5, <2>3 DEF RestoreWrite
    <3>2. d.t \in Task /\ tasks[d.t] \in Doc /\ tasks \in [Task -> Doc]
      BY <1>0
    <3> DEFINE f == [tasks[d.t] EXCEPT !.status = "abort"]
               e == [f EXCEPT !.job = IF d.doc.job # 0 THEN 0 ELSE f.job]
    <3>3. f \in Doc /\ f.there = tasks[d.t].there
      BY <3>2 DEF Doc, Finished
    <3>4. tasks' = [tasks EXCEPT ![d.t] = e]
      BY <3>1, <3>2
    <3> HIDE DEF f
    <3>5. e \in Doc /\ e.there = f.there
      <4>1. (IF d.doc.job # 0 THEN 0 ELSE f.job) \in 0 .. jobs
        BY <1>0, <3>3 DEF Doc
      <4> QED BY <3>3, <4>1 DEF Doc
    <3> HIDE DEF e
    <3>6. tasks' \in [Task -> Doc] /\ Doc' = Doc
      BY <2>1, <3>2, <3>4, <3>5 DEF Doc
    <3>7. \A u \in Task : tasks[u].there => tasks'[u].there
      BY <3>2, <3>3, <3>4, <3>5
    <3> QED BY <1>0, <2>1, <3>6, <3>7, TypedIdle
  <2> QED BY <2>2, <2>3
<1> QED BY <1>1, <1>2, <1>3, <1>4, <1>5

LEMMA TypedStep ==
  ASSUME Typed, [Next]_vars
  PROVE  Typed'
<1>1. CASE UNCHANGED vars
  <2>1. TypeOK'
    BY <1>1 DEF vars, Typed, TypeOK
  <2>2. runs' \subseteq RunType' /\ \A r \in runs' : Placed(r)'
    BY <1>1 DEF vars, Typed, RunType, Placed
  <2> QED BY <1>1, <2>1, <2>2 DEF vars, Typed
<1>2. ASSUME NEW r \in runs, Step(r) PROVE Typed'
  BY <1>2, CreateInsertTyped, CreateJobTyped, EditFindTyped, EditWriteTyped, PlaceTyped,
     ResultTyped DEF Step
<1> QED BY <1>1, <1>2, RequestTyped, FireTyped, ServerTyped DEF Next

-----------------------------------------------------------------------------
(***************************************************************************)
(* The timers and the runs of a task.                                      *)
(***************************************************************************)

\* A task keeps what is sound about it in a step of another task.
LEMMA Aside ==
  ASSUME NEW t \in Task, Sound(t), On(t)' \subseteq On(t), Live(t)' \subseteq Live(t),
         tasks'[t] = tasks[t], Restored(t)' => Restored(t)
  PROVE  Sound(t)'
BY DEF Sound, Named, Alone

\* The runs on each task when a run goes on, or ends.
LEMMA RunsOn ==
  ASSUME NEW r \in runs, NEW q, q.t = r.t, Go(r, q) \/ End(r)
  PROVE  /\ \A u : u # r.t => On(u)' \subseteq On(u)
         /\ On(r.t)' \subseteq (On(r.t) \ {r}) \cup {q}
         /\ End(r) => On(r.t)' = On(r.t) \ {r}
BY DEF Go, End, On

\* The handlers of a task keep to themselves.
LEMMA AloneStays ==
  ASSUME NEW t \in Task, NEW r \in On(t), Alone(t), NEW q,
         On(t)' \subseteq (On(t) \ {r}) \cup {q},
         q \in On(t)' => (Arming(q) => Arming(r)) /\ (~q.asked => ~r.asked) /\ q.seen = r.seen,
         q \in On(t)' /\ Arming(q) /\ q.at = "job" => tasks'[t].status = "pending",
         Restored(t)' => Restored(t)
  PROVE  Alone(t)'
<1> SUFFICES ASSUME NEW p \in On(t)'
             PROVE  /\ Arming(p) => On(t)' = {p} /\ ~Restored(t)'
                    /\ Arming(p) /\ p.at = "job" => tasks'[t].status = "pending"
                    /\ ~p.asked  => p.seen # "abort"
  BY DEF Alone
<1>1. CASE p \in On(t) \ {r}
  BY <1>1 DEF Alone
<1>2. CASE p = q
  BY <1>2 DEF Alone
<1> QED BY <1>1, <1>2

\* A task without a live timer has none to explain.
LEMMA NamedDark ==
  ASSUME NEW t \in Task, Live(t)' = {}
  PROVE  Named(t)'
BY DEF Named

\* A run begins on a task that is not astray afterwards.
LEMMA BeginSound ==
  ASSUME NEW t \in Task, NEW q, Begin(q), Sound(t), t \notin astray',
         Live(t)' \subseteq Live(t), tasks'[t] = tasks[t], Restored(t)' => Restored(t),
         q.at # "job",
         q.t = t => (q.at # "find" => Live(t)' = {}) /\ (~q.asked => q.seen # "abort")
  PROVE  Sound(t)'
<1>1. CASE q.t # t
  BY <1>1, Aside DEF Begin, On
<1>2. CASE q.t = t
  <2>1. On(t)' = On(t) \cup {q}
    BY <1>2 DEF Begin, On
  <2>2. Arming(q) => On(t) = {} /\ ~Restored(t)
    BY <1>2 DEF Begin
  <2>3. \A p \in On(t) : ~Arming(p)
    BY <1>2 DEF Begin
  <2>4. Alone(t)'
    BY <1>2, <2>1, <2>2, <2>3 DEF Sound, Alone
  <2>5. Named(t)'
    BY <1>2, <2>1 DEF Sound, Named
  <2> QED BY <2>4, <2>5 DEF Sound
<1> QED BY <1>1, <1>2

\* A run goes on, or ends, and the documents stay.
LEMMA GoSound ==
  ASSUME NEW t \in Task, NEW r \in runs, NEW q, q.t = r.t, Go(r, q) \/ End(r), Sound(t),
         Live(t)' \subseteq Live(t), tasks'[t] = tasks[t], Restored(t)' => Restored(t),
         r.t = t /\ Go(r, q) =>
           /\ Live(t)' = {} \/ q.at = "find"
           /\ q.at # "job"
           /\ (Arming(q) => Arming(r)) /\ (~q.asked => ~r.asked) /\ q.seen = r.seen
  PROVE  Sound(t)'
<1>1. CASE r.t # t
  BY <1>1, RunsOn, Aside
<1>2. CASE r.t = t /\ Go(r, q)
  <2>1. r \in On(t) /\ On(t)' \subseteq (On(t) \ {r}) \cup {q}
    BY <1>2, RunsOn DEF On
  <2>2. Alone(t)'
    BY <1>2, <2>1, AloneStays DEF Sound
  <2>3. Named(t)'
    BY <1>2, <2>1 DEF Sound, Named
  <2> QED BY <2>2, <2>3 DEF Sound
<1>3. CASE r.t = t /\ End(r)
  BY <1>3, RunsOn, Aside
<1> QED BY <1>1, <1>2, <1>3

\* A run writes the document of its task while no timer of it is set.
LEMMA DarkSound ==
  ASSUME NEW t \in Task, NEW r \in runs, NEW q, q.t = r.t, Go(r, q) \/ End(r), Sound(t),
         Live(t)' \subseteq Live(t), Restored(t)' => Restored(t),
         r.t # t => tasks'[t] = tasks[t],
         r.t = t => Live(t) = {},
         Go(r, q) => (Arming(q) => Arming(r)) /\ (~q.asked => ~r.asked) /\ q.seen = r.seen,
         Go(r, q) /\ r.t = t /\ q.at = "job" => tasks'[t].status = "pending"
  PROVE  Sound(t)'
<1>1. CASE r.t # t
  BY <1>1, RunsOn, Aside
<1>2. CASE r.t = t /\ Go(r, q)
  <2>1. r \in On(t) /\ On(t)' \subseteq (On(t) \ {r}) \cup {q}
    BY <1>2, RunsOn DEF On
  <2> QED BY <1>2, <2>1, AloneStays, NamedDark DEF Sound
<1>3. CASE r.t = t /\ End(r)
  <2>1. On(t)' = On(t) \ {r} /\ r \in On(t)
    BY <1>3, RunsOn DEF On
  <2> QED BY <1>3, <2>1, NamedDark DEF Sound, Alone
<1> QED BY <1>2, <1>1, <1>3

\* A run that is alone on its task sets a timer, and writes it in the document.
LEMMA ArmSound ==
  ASSUME Typed, NEW t \in Task, NEW r \in runs, NEW w, Arming(r), r.at # "find", End(r), Sound(t),
         timers' = Arm(timers, r.job, r.t, w),
         r.t # t => tasks'[t] = tasks[t],
         r.t = t => /\ tasks[t].status = "pending" \/ r.at # "job" => tasks'[t].status = "pending"
                    /\ tasks'[t].job = r.job /\ tasks'[t].there,
         Restored(t)' => Restored(t)
  PROVE  Sound(t)'
<1>1. \A m : m \in timers' => m \in timers \/ (m.job = r.job /\ m.t = r.t)
  BY DEF Arm, Timer
<1>2. CASE r.t # t
  <2>1. Live(t)' \subseteq Live(t)
    BY <1>1, <1>2 DEF Live
  <2> QED BY <1>2, <2>1, RunsOn, Aside
<1>3. CASE r.t = t
  <2>1. r \in On(t) /\ On(t) = {r} /\ ~Restored(t) /\ Live(t) = {}
    BY <1>3 DEF On, Sound, Alone, Named
  <2>5. tasks'[t].status = "pending"
    BY <1>3, <2>1 DEF Sound, Alone
  <2>2. On(t)' = {}
    BY <1>3, <2>1, RunsOn
  <2>3. \A m \in Live(t)' : m.job = r.job
    BY <1>1, <1>3, <2>1 DEF Live
  <2>4. Named(t)' /\ Alone(t)'
    BY <1>3, <2>1, <2>2, <2>3, <2>5 DEF Named, Alone
  <2> QED BY <2>4 DEF Sound
<1> QED BY <1>2, <1>3

\* Fewer timers, fewer live ones; and none once the one of the document is gone.
LEMMA LiveFacts ==
  ASSUME NEW t \in Task
  PROVE  /\ timers' \subseteq timers => Live(t)' \subseteq Live(t)
         /\ timers' \subseteq Without(tasks[t].job) /\ Named(t) => Live(t)' = {}
BY DEF Live, Without, Named

\* restoreTasks has no more to come than before.
LEMMA RestoredFacts ==
  ASSUME NEW t \in Task, UNCHANGED <<restore, restoring>>
  PROVE  Restored(t)' = Restored(t)
BY DEF Restored

LEMMA RequestSound ==
  ASSUME Typed, NEW t \in Task, t \notin astray', Sound(t),
         NEW u \in Task, PostTask(u) \/ PutTask(u) \/ StopTask(u) \/ TriggerTask(u)
  PROVE  Sound(t)'
<1>1. PICK q : Call(q) /\ q.asked = TRUE /\ q.at # "job" /\ (q.t = t => q.at = "find" \/ Live(t) = {})
  <2>1. CASE PostTask(u)
    <3>1. PICK w \in 0 .. MaxClock :
            Call([Run("create", "insert", u) EXCEPT !.when = w, !.immediate = (w = 0)])
      BY <2>1 DEF PostTask
    <3> DEFINE q == [Run("create", "insert", u) EXCEPT !.when = w, !.immediate = (w = 0)]
    <3>2. q.asked = TRUE /\ q.t = u /\ q.at # "job"
      BY DEF Run
    <3>3. u = t => Live(t) = {}
      BY <2>1 DEF PostTask, Sound, Named
    <3> HIDE DEF q
    <3> QED BY <3>1, <3>2, <3>3 DEF q
  <2>2. CASE PutTask(u)
    <3>1. PICK w \in 0 .. MaxClock, immediate \in BOOLEAN, j \in {0, tasks[u].job} :
            Call([Run("edit", "find", u) EXCEPT
                    !.when = w, !.immediate = immediate, !.job = j])
      BY <2>2 DEF PutTask
    <3> DEFINE q == [Run("edit", "find", u) EXCEPT
                       !.when = w, !.immediate = immediate, !.job = j]
    <3>2. q.asked = TRUE /\ q.at = "find"
      BY DEF Run
    <3> HIDE DEF q
    <3> QED BY <3>1, <3>2 DEF q
  <2>3. CASE StopTask(u)
    BY <2>3 DEF StopTask, Run
  <2>4. CASE TriggerTask(u)
    BY <2>4 DEF TriggerTask, Run
  <2> QED BY <2>1, <2>2, <2>3, <2>4
<1>2. Begin(q) /\ UNCHANGED <<tasks, timers, restore, restoring>>
  BY <1>1 DEF Call
<1>3. Live(t)' \subseteq Live(t) /\ Restored(t)' = Restored(t)
  BY <1>2, LiveFacts, RestoredFacts
<1> QED BY <1>1, <1>2, <1>3, BeginSound

\* The timer that fires is the one the document names, so no other one is live.
LEMMA FireSound ==
  ASSUME Typed, NEW t \in Task, t \notin astray', Sound(t), NEW m \in timers, Fire(m)
  PROVE  Sound(t)'
<1> DEFINE q == [Run("issue", "find", m.t) EXCEPT !.asked = FALSE, !.id = -m.job]
<1>1. /\ timers' = (timers \ {m}) \cup {[m EXCEPT !.live = FALSE]} /\ Begin(q)
      /\ UNCHANGED <<tasks, restore, restoring>> /\ m.live
  BY DEF Fire
<1>2. m \in TimerType
  BY TypeFacts
<1>3. [m EXCEPT !.live = FALSE].live = FALSE
  BY <1>2 DEF TimerType
<1>4. Live(t)' \subseteq Live(t)
  BY <1>1, <1>3 DEF Live
<1>5. q.at = "find" /\ q.t = m.t /\ q.seen = tasks[m.t].status
  BY DEF Run
<1>6. q.t = t => q.seen # "abort"
  <2>1. CASE m.t = t
    BY <1>1, <1>5, <2>1 DEF Live, Sound, Named
  <2> QED BY <1>5, <2>1
<1> HIDE DEF q
<1>7. Restored(t)' = Restored(t)
  BY <1>1, RestoredFacts
<1> QED BY <1>1, <1>4, <1>5, <1>6, <1>7, BeginSound

LEMMA CreateInsertSound ==
  ASSUME Typed, NEW t \in Task, Sound(t), NEW r \in runs, CreateInsert(r)
  PROVE  Sound(t)'
<1>q. PICK q : q = IF r.immediate THEN Issue(r) ELSE [r EXCEPT !.at = "job", !.job = NewJob]
  OBVIOUS
<1>1. r \in RunType /\ r.t \in Task /\ Go(r, q) /\ r.call = "create" /\ r.at = "insert"
  BY <1>q, TypeFacts DEF CreateInsert
<1>2. q.t = r.t /\ q.asked = r.asked /\ q.seen = r.seen
  BY <1>1, <1>q DEF RunType, Issue
<1>3. Arming(r)
  BY <1>1 DEF Arming
<1>4. timers' = timers /\ UNCHANGED <<restore, restoring>>
      /\ (r.t # t => tasks'[t] = tasks[t])
  BY DEF CreateInsert
<1>5. Live(t)' \subseteq Live(t) /\ Restored(t)' = Restored(t)
  BY <1>4, LiveFacts, RestoredFacts
<1>6. r.t = t => Live(t) = {}
  BY <1>1 DEF Sound, Named, On
<1>7. r.t = t => tasks'[t].status = "pending"
  <2>1. tasks' = [tasks EXCEPT ![r.t] = [Absent EXCEPT !.there = TRUE, !.when = r.when]]
    BY DEF CreateInsert
  <2>2. [Absent EXCEPT !.there = TRUE, !.when = r.when].status = "pending"
    BY DEF Absent
  <2> QED BY <1>1, <2>1, <2>2, TypeFacts
<1> QED BY <1>1, <1>2, <1>3, <1>4, <1>5, <1>6, <1>7, DarkSound

LEMMA CreateJobSound ==
  ASSUME Typed, NEW t \in Task, Sound(t), NEW r \in runs, CreateJob(r)
  PROVE  Sound(t)'
<1>1. r.t \in Task /\ Placed(r) /\ r.call = "create" /\ r.at = "job" /\ End(r) /\ tasks[r.t] \in Doc
      /\ timers' = Arm(timers, r.job, r.t, r.when) /\ UNCHANGED <<restore, restoring>>
      /\ tasks' = [tasks EXCEPT ![r.t].job = r.job] /\ tasks \in [Task -> Doc]
  BY TypeFacts DEF CreateJob
<1>2. Arming(r) /\ r.at # "find"
  BY <1>1 DEF Arming
<1>3. r.t # t => tasks'[t] = tasks[t]
  BY <1>1
<1>4. r.t = t => tasks'[t].job = r.job /\ tasks'[t].there /\ tasks'[t].status = tasks[t].status
  BY <1>1 DEF Doc, Placed
<1> QED BY <1>1, <1>2, <1>3, <1>4, RestoredFacts, ArmSound

LEMMA EditFindSound ==
  ASSUME Typed, NEW t \in Task, t \notin astray', Sound(t), NEW r \in runs, EditFind(r)
  PROVE  Sound(t)'
<1>1. r \in RunType /\ r.call = "edit" /\ r.at = "find" /\ tasks' = tasks
      /\ timers' \subseteq Without(tasks[r.t].job) /\ timers' \subseteq timers
      /\ UNCHANGED <<restore, restoring>>
  BY TypeFacts DEF EditFind, Without
<1>2. PICK q : q.t = r.t /\ q.call = r.call /\ q.asked = r.asked /\ q.seen = r.seen
               /\ q.at # "job" /\ (Go(r, q) \/ End(r))
  <2>1. CASE ~r.immediate /\ r.when = 0
    BY <1>1, <2>1 DEF EditFind
  <2>2. CASE ~(~r.immediate /\ r.when = 0)
    <3> DEFINE j == IF r.job # 0 THEN r.job ELSE NewJob
    <3>1. Go(r, [r EXCEPT !.at = "write", !.job = j])
      BY <2>2 DEF EditFind
    <3> HIDE DEF j
    <3>2. PICK q : q = [r EXCEPT !.at = "write", !.job = j]
      OBVIOUS
    <3>3. q.t = r.t /\ q.call = r.call /\ q.asked = r.asked /\ q.seen = r.seen /\ q.at # "job"
      BY <1>1, <3>2 DEF RunType
    <3> QED BY <3>1, <3>2, <3>3
  <2> QED BY <2>1, <2>2
<1>3. Live(t)' \subseteq Live(t) /\ (r.t = t => Live(t)' = {}) /\ Restored(t)' = Restored(t)
  BY <1>1, LiveFacts, RestoredFacts DEF Sound
<1>4. Arming(q) => Arming(r)
  BY <1>2 DEF Arming
<1> QED BY <1>1, <1>2, <1>3, <1>4, GoSound

LEMMA EditWriteSound ==
  ASSUME Typed, NEW t \in Task, Sound(t), NEW r \in runs, EditWrite(r)
  PROVE  Sound(t)'
<1> DEFINE w == IF r.when = 0 THEN tasks[r.t].when ELSE r.when
<1>1. r \in RunType /\ r.t \in Task /\ Placed(r) /\ r.call = "edit" /\ r.at = "write"
      /\ UNCHANGED <<restore, restoring>> /\ tasks \in [Task -> Doc]
  BY TypeFacts DEF EditWrite
<1>2. Arming(r) /\ r.at # "find" /\ (r.t = t => Live(t) = {}) /\ Restored(t)' = Restored(t)
  BY <1>1, RestoredFacts DEF Arming, Sound, Named, On
<1>3. CASE r.immediate
  <2>1. /\ tasks' = [tasks EXCEPT ![r.t].job = 0, ![r.t].when = w]
        /\ Go(r, Issue(r)) /\ timers' = timers
    BY <1>3 DEF EditWrite
  <2>2. PICK q : q = Issue(r)
    OBVIOUS
  <2>3. q.t = r.t /\ q.asked = r.asked /\ q.seen = r.seen /\ Go(r, q) /\ q.at # "job"
    BY <1>1, <2>1, <2>2 DEF Issue, RunType
  <2>4. (r.t # t => tasks'[t] = tasks[t]) /\ Live(t)' \subseteq Live(t)
    BY <1>1, <2>1, LiveFacts
  <2> QED BY <1>2, <2>3, <2>4, DarkSound
<1>4. CASE ~r.immediate
  <2>1. /\ tasks' = [tasks EXCEPT ![r.t].job = r.job, ![r.t].when = w, ![r.t].status = "pending"]
        /\ End(r) /\ timers' = Arm(timers, r.job, r.t, w)
    BY <1>4 DEF EditWrite
  <2>2. tasks[r.t] \in Doc /\ tasks[r.t].there
    BY <1>1 DEF Placed
  <2> HIDE DEF w
  <2>3. r.t # t => tasks'[t] = tasks[t]
    BY <1>1, <2>1
  <2>4. r.t = t => tasks'[t].job = r.job /\ tasks'[t].there /\ tasks'[t].status = "pending"
    BY <1>1, <2>1, <2>2 DEF Doc
  <2>5. PICK v : v = w
    OBVIOUS
  <2> QED BY <1>1, <1>2, <2>1, <2>3, <2>4, <2>5, ArmSound
<1> QED BY <1>3, <1>4

\* The steps that take the timer away, and the look at the trigger.
LEMMA PlaceSound ==
  ASSUME Typed, NEW t \in Task, Sound(t), NEW r \in runs,
         StopFind(r) \/ IssueFind(r) \/ IssueLookup(r)
  PROVE  Sound(t)'
<1>1. r \in RunType /\ r.call \in {"stop", "issue"} /\ tasks' = tasks /\ timers' \subseteq timers
      /\ UNCHANGED <<restore, restoring>>
  BY TypeFacts DEF StopFind, IssueFind, IssueLookup, Without
<1>2. PICK a \in {"write", "lookup", "webhook"} :
        \/ Go(r, [r EXCEPT !.at = a])
           /\ (timers' = Without(tasks[r.t].job) \/ (r.at = "lookup" /\ timers' = timers))
        \/ End(r)
  BY DEF StopFind, IssueFind, IssueLookup
<1> DEFINE q == [r EXCEPT !.at = a]
<1>3. q.t = r.t /\ q.call = r.call /\ q.asked = r.asked /\ q.seen = r.seen /\ q.at # "job"
  BY <1>1, <1>2 DEF RunType
<1>4. Live(t)' \subseteq Live(t) /\ Restored(t)' = Restored(t)
  BY <1>1, LiveFacts, RestoredFacts
<1>5. Go(r, q) \/ End(r)
  BY <1>2
<1>6. Arming(q) => Arming(r)
  BY <1>3 DEF Arming
<1> HIDE DEF q
<1>7. CASE ~End(r)
  <2>1. r.t = t => Live(t)' = {}
    <3>1. CASE timers' = Without(tasks[r.t].job)
      BY <3>1, LiveFacts DEF Sound
    <3>2. CASE r.at = "lookup" /\ timers' = timers
      <4>1. r.t = t => Live(t) = {}
        BY <3>2 DEF Sound, Named, On
      <4> QED BY <1>4, <4>1
    <3> QED BY <1>2, <1>7, <3>1, <3>2
  <2> QED BY <1>1, <1>3, <1>4, <1>5, <1>6, <2>1, GoSound
<1>8. CASE End(r)
  <2>1. On(t)' \subseteq On(t)
    BY <1>8 DEF End, On
  <2> QED BY <1>1, <1>4, <2>1, Aside
<1> QED BY <1>7, <1>8

\* A result, or the abort, is written when no timer of the task is set.
LEMMA ResultSound ==
  ASSUME Typed, NEW t \in Task, Sound(t), NEW r \in runs, StopWrite(r) \/ IssueWrite(r)
  PROVE  Sound(t)'
<1>1. r.t \in Task /\ r.at # "find" /\ End(r) /\ timers' = timers /\ UNCHANGED <<restore, restoring>>
      /\ (r.t # t => tasks'[t] = tasks[t])
  BY TypeFacts DEF StopWrite, IssueWrite
<1>2. Live(t)' \subseteq Live(t) /\ Restored(t)' = Restored(t) /\ On(t)' \subseteq On(t)
  BY <1>1, LiveFacts, RestoredFacts DEF End, On
<1>3. CASE r.t = t
  <2>1. Live(t) = {} /\ r \in On(t) /\ On(t)' = On(t) \ {r}
    BY <1>1, <1>3 DEF Sound, Named, On, End
  <2> QED BY <1>2, <2>1, NamedDark DEF Sound, Alone
<1>4. CASE r.t # t
  BY <1>1, <1>2, <1>4, Aside
<1> QED BY <1>3, <1>4

\* restoreTasks cancels what it finds scheduled; no timer of it is set yet.
LEMMA ServerSound ==
  ASSUME Typed, NEW t \in Task, Sound(t),
         DeleteTrigger \/ Tick \/ Restart \/ RestoreFind \/ \E d \in restore : RestoreWrite(d)
  PROVE  Sound(t)'
<1>1. CASE DeleteTrigger \/ Tick
  <2>1. UNCHANGED <<tasks, timers, runs, restore, restoring>>
    BY <1>1 DEF DeleteTrigger, Tick
  <2>2. Restored(t)' = Restored(t) /\ Live(t)' = Live(t) /\ On(t)' = On(t)
    BY <2>1 DEF Restored, Live, On
  <2> QED BY <2>1, <2>2, Aside
<1>2. CASE Restart
  BY <1>2 DEF Restart, Sound, Named, Alone, Live, On
<1>3. CASE RestoreFind
  <2>1. UNCHANGED <<tasks, timers, runs>> /\ restoring /\ ~restoring'
    BY <1>3 DEF RestoreFind
  <2>2. Restored(t)' => Restored(t)
    BY <2>1 DEF Restored
  <2>3. Live(t)' = Live(t) /\ On(t)' = On(t)
    BY <2>1 DEF Live, On
  <2> QED BY <2>1, <2>2, <2>3, Aside
<1>4. ASSUME NEW d \in restore, RestoreWrite(d) PROVE Sound(t)'
  <2>1. UNCHANGED <<timers, runs, restoring>> /\ restore' = restore \ {d}
        /\ (d.t # t => tasks'[t] = tasks[t])
    BY <1>4, TypeFacts DEF RestoreWrite, Typed
  <2>2. (Restored(t)' => Restored(t)) /\ Live(t)' = Live(t) /\ On(t)' = On(t)
    BY <2>1 DEF Restored, Live, On
  <2>3. CASE d.t # t
    BY <2>1, <2>2, <2>3, Aside
  <2>4. CASE d.t = t
    <3>1. Live(t) = {}
      BY <2>4 DEF Restored, Sound, Named
    <3>2. Alone(t)'
      <4>1. Restored(t)
        BY <2>4 DEF Restored
      <4> QED BY <2>2, <4>1 DEF Sound, Alone
    <3> QED BY <2>2, <3>1, <3>2, NamedDark DEF Sound
  <2> QED BY <2>3, <2>4
<1> QED BY <1>1, <1>2, <1>3, <1>4

\* A task that is astray stays astray.
LEMMA AstrayStays ==
  ASSUME [Next]_vars
  PROVE  astray \subseteq astray'
<1>1. \A q : Begin(q) => astray \subseteq astray'
  BY DEF Begin
<1>2. ASSUME NEW t \in Task, PostTask(t) \/ PutTask(t) \/ StopTask(t) \/ TriggerTask(t)
      PROVE  astray \subseteq astray'
  <2>1. \A q : Call(q) => astray \subseteq astray'
    BY <1>1 DEF Call
  <2> QED BY <1>2, <2>1 DEF PostTask, PutTask, StopTask, TriggerTask
<1>3. ASSUME NEW m \in timers, Fire(m) PROVE astray \subseteq astray'
  BY <1>1, <1>3 DEF Fire
<1>4. ASSUME NEW r \in runs, Step(r) PROVE astray \subseteq astray'
  BY <1>4 DEF Step, CreateInsert, CreateJob, EditFind, EditWrite, StopFind, StopWrite,
              IssueFind, IssueLookup, IssueWrite, Late
<1>5. CASE DeleteTrigger \/ Tick \/ Restart \/ RestoreFind \/ \E d \in restore : RestoreWrite(d)
  BY <1>5 DEF DeleteTrigger, Tick, Restart, RestoreFind, RestoreWrite
<1> QED BY <1>2, <1>3, <1>4, <1>5 DEF Next, vars

LEMMA Invariant ==
  /\ Init => IInv
  /\ IInv /\ [Next]_vars => IInv'
<1>1. Init => IInv
  <2> SUFFICES ASSUME Init PROVE IInv
    OBVIOUS
  <2>1. TypeOK
    <3>1. Absent \in [there : BOOLEAN, status : Finished \cup {"pending"}, job : 0 .. 0,
                      when : 0 .. MaxClock]
      BY SchedulerAssumption DEF Absent, Finished
    <3> QED BY <3>1 DEF Init, TypeOK
  <2>2. Typed
    BY <2>1, SchedulerAssumption DEF Init, Typed
  <2>3. \A t \in Task : Sound(t)
    BY DEF Init, Sound, Named, Alone, Live, On
  <2> QED BY <2>2, <2>3 DEF IInv
<1>2. ASSUME IInv, [Next]_vars PROVE IInv'
  <2>1. Typed /\ Typed'
    BY <1>2, TypedStep DEF IInv
  <2>2. ASSUME NEW t \in Task, t \notin astray' PROVE Sound(t)'
    <3>1. Sound(t)
      BY <1>2, <2>2, AstrayStays DEF IInv
    <3>2. CASE UNCHANGED vars
      BY <3>1, <3>2 DEF vars, Sound, Named, Alone, Live, On, Restored
    <3>3. ASSUME NEW r \in runs, Step(r) PROVE Sound(t)'
      BY <2>1, <2>2, <3>1, <3>3, CreateInsertSound, CreateJobSound, EditFindSound,
         EditWriteSound, PlaceSound, ResultSound DEF Step
    <3> QED BY <1>2, <2>1, <2>2, <3>1, <3>2, <3>3, RequestSound, FireSound, ServerSound DEF Next
  <2> QED BY <2>1, <2>2 DEF IInv
<1> QED BY <1>1, <1>2

-----------------------------------------------------------------------------
(***************************************************************************)
(* A live timer is the one its task's document names, and the task is      *)
(* pending: proved for a task on which runs are under way as well          *)
(* (TaskManager.ts:14-42, apis/task.ts).                                   *)
(***************************************************************************)
THEOREM TimersAreNamed == Spec => []NoTimerLeftOver
<1>1. IInv => NoTimerLeftOver
  BY DEF IInv, Typed, NoTimerLeftOver, Quiet, Sound, Named
<1> QED BY <1>1, Invariant, PTL DEF Spec

(***************************************************************************)
(* The result of a cancelled task comes from a run that was asked for, or  *)
(* that began before the cancel (apis/task.ts, restoreTasks).              *)
(***************************************************************************)
THEOREM CancelHolds == Spec => CancelledIsNotDispatched
<1> DEFINE Dispatch(t) ==
      /\ tasks[t].status = "abort" /\ tasks'[t].status \in {"success", "fail"}
      /\ t \notin astray
      => \E r \in On(t) : r.at = "webhook" /\ (r.asked \/ r.seen # "abort")
<1>1. ASSUME IInv, [Next]_vars, NEW t \in Task PROVE Dispatch(t)
  <2> SUFFICES ASSUME tasks[t].status = "abort", tasks'[t].status \in {"success", "fail"},
                      t \notin astray
               PROVE  \E r \in On(t) : r.at = "webhook" /\ (r.asked \/ r.seen # "abort")
    OBVIOUS
  <2>1. Typed /\ Sound(t) /\ tasks \in [Task -> Doc] /\ \A r \in runs : r.t \in Task
    BY <1>1, TypeFacts DEF IInv
  <2>2. ASSUME NEW r \in runs, Step(r)
        PROVE  IssueWrite(r) /\ r.t = t
    <3>1. ASSUME CreateInsert(r) PROVE FALSE
      BY <2>1, <3>1 DEF CreateInsert, Absent
    <3>2. ASSUME CreateJob(r) PROVE FALSE
      BY <2>1, <3>2 DEF CreateJob, Doc
    <3>3. ASSUME EditFind(r) \/ StopFind(r) \/ IssueFind(r) \/ IssueLookup(r) PROVE FALSE
      BY <3>3 DEF EditFind, StopFind, IssueFind, IssueLookup
    <3>4. ASSUME EditWrite(r) PROVE FALSE
      BY <2>1, <3>4 DEF EditWrite, Doc
    <3>5. ASSUME StopWrite(r) PROVE FALSE
      BY <2>1, <3>5 DEF StopWrite, Doc
    <3>6. ASSUME IssueWrite(r), r.t # t PROVE FALSE
      BY <2>1, <3>6 DEF IssueWrite
    <3> QED BY <2>2, <3>1, <3>2, <3>3, <3>4, <3>5, <3>6 DEF Step
  <2>3. ASSUME NEW d \in restore, RestoreWrite(d) PROVE FALSE
    BY <2>1, <2>3 DEF RestoreWrite, Doc
  <2>4. \E r \in runs : Step(r)
    <3>1. ASSUME tasks' = tasks PROVE FALSE
      BY <3>1
    <3>2. ASSUME NEW u \in Task, PostTask(u) \/ PutTask(u) \/ StopTask(u) \/ TriggerTask(u)
          PROVE  FALSE
      <4>1. \A q : Call(q) => tasks' = tasks
        BY DEF Call
      <4> QED BY <3>1, <3>2, <4>1 DEF PostTask, PutTask, StopTask, TriggerTask
    <3>3. ASSUME NEW m \in timers, Fire(m) PROVE FALSE
      BY <3>1, <3>3 DEF Fire
    <3>4. ASSUME DeleteTrigger \/ Tick \/ Restart \/ RestoreFind PROVE FALSE
      BY <3>1, <3>4 DEF DeleteTrigger, Tick, Restart, RestoreFind
    <3> QED BY <1>1, <2>3, <3>1, <3>2, <3>3, <3>4 DEF Next, vars
  <2>5. PICK r \in runs : IssueWrite(r) /\ r.t = t
    BY <2>2, <2>4
  <2>6. r \in On(t) /\ r.at = "webhook" /\ r \in RunType
    BY <2>1, <2>5, TypeFacts DEF On, IssueWrite
  <2>7. r.asked \/ r.seen # "abort"
    BY <2>1, <2>6 DEF Sound, Alone
  <2> QED BY <2>6, <2>7
<1>2. IInv /\ [Next]_vars => [\A t \in Task : Dispatch(t)]_vars
  BY <1>1
<1> QED BY <1>2, Invariant, PTL DEF Spec, CancelledIsNotDispatched
=============================================================================
