------------------------ MODULE AdministrationProofs ------------------------
(***************************************************************************)
(* Theorems about module Administration, for every set of rules, apps,     *)
(* projects and device records and every bound: its types, RulesAreFresh,  *)
(* CatalogIsKept and OpensCountedOnce.  AdminInv is inductive.  Its three  *)
(* parts are about separate variables and separate kinds of calls, and     *)
(* only a crash and the set torn join them; each action has one lemma for  *)
(* the part that it changes, and the frame lemmas do the others.           *)
(*                                                                         *)
(* And about module McpServer: of what an agent asks of the console's      *)
(* tasks, for any tasks, names and users.                                  *)
(***************************************************************************)
EXTENDS Administration, McpServer, FiniteSetTheorems, WellFoundedInduction, TLAPS

-----------------------------------------------------------------------------
(***************************************************************************)
(* The calls under way, and those of one of the three kinds.               *)
(***************************************************************************)
Steps == {"list", "push", "null", "name", "rename", "flag", "pull"}

Copy == [Kind -> [rule : Rule \cup {0}, on : BOOLEAN]]

RuleCall == [id : Nat, op : {"rule"}, snap : Copy \cup {<<>>}, ver : Nat]
AppsCall == [id : Nat, op : {"app"}, app : App, todo : SUBSET Steps, name : Name,
             project : Project]
GcCall == [id : Nat, op : {"gc"}, start : Nat, batch : SUBSET Open,
           info : {"read", "remove", "done"}, log : BOOLEAN]

CallsOK == calls \subseteq RuleCall \cup AppsCall \cup GcCall /\ started \in Nat

Calls(op) == {c \in calls : c.op = op}

(***************************************************************************)
(* The rules.  The copy is that of the last write unless a call is under   *)
(* way that will make it so: one that has not read the rules yet, or has   *)
(* read them since the last write.                                         *)
(***************************************************************************)
Bounded(rs) == \E n \in Nat : \A r \in Rule : rs[r] # "none" => r <= n

RuleTypes ==
  /\ rules \in [Rule -> {"none", "on", "off", "gone"}] /\ Bounded(rules)
  /\ ruleMap \in Copy
  /\ version \in Nat /\ mapVersion \in Nat /\ unsynced \in BOOLEAN

SnapsOK ==
  \A c \in Calls("rule") :
    /\ c.ver <= version
    /\ c.ver = version /\ c.snap # <<>> => c.snap = FromModels(rules)

CopyOK ==
  ~unsynced =>
    /\ mapVersion = version => ruleMap = FromModels(rules)
    /\ mapVersion # version =>
         \E c \in Calls("rule") : c.snap = <<>> \/ c.ver = version

RulesInv == RuleTypes /\ mapVersion <= version /\ SnapsOK /\ CopyOK

(***************************************************************************)
(* The apps.  An app that is live and not listed has a call under way that *)
(* will list it or delete it.  The calls of an app that has had one at a   *)
(* time say by what they have left to do how its document and its entry    *)
(* differ.                                                                 *)
(***************************************************************************)
Own(a) == {e \in entries : e.app = a}
CallsOf(a) == {c \in Calls("app") : c.app = a}

AppTypes ==
  /\ apps \in [App -> [state : {"none", "live", "deleted"}, name : Name]]
  /\ entries \subseteq [project : Project, app : App, name : Name,
                        kind : {"id", "document", "null"}]
  /\ torn \subseteq App \cup Open /\ crossed \subseteq App

Listed(a) ==
  /\ \A c \in CallsOf(a) : "pull" \in c.todo => "flag" \in c.todo \/ apps[a].state = "deleted"
  /\ apps[a].state = "live" /\ Own(a) = {} =>
       \E c \in CallsOf(a) : "list" \in c.todo \/ "flag" \in c.todo

Creating(a, c) ==
  /\ c.todo = {"list"}
  /\ Own(a) = {} /\ apps[a].state = "live" /\ apps[a].name = c.name

Renaming(a, c) ==
  /\ c.todo # {} /\ c.todo \subseteq {"name", "rename"}
  /\ apps[a].state = "live"
  /\ "name" \notin c.todo => apps[a].name = c.name
  /\ "rename" \notin c.todo => \A e \in Own(a) : e.name = c.name

Deleting(a, c) ==
  /\ c.todo # {} /\ c.todo \subseteq {"flag", "pull"}
  /\ apps[a].state # "none"
  /\ "flag" \notin c.todo => apps[a].state = "deleted"
  /\ "pull" \notin c.todo => Own(a) = {}

InOrder(a) ==
  /\ \A e, f \in Own(a) : e = f
  /\ \A e \in Own(a) : e.kind = "id"
  /\ \A c, d \in CallsOf(a) : c = d
  /\ \A c \in CallsOf(a) : Creating(a, c) \/ Renaming(a, c) \/ Deleting(a, c)
  /\ CallsOf(a) = {} =>
       \A e \in Own(a) : apps[a].state = "live" /\ e.name = apps[a].name

AppsInv ==
  /\ AppTypes
  /\ \A a \in App \ torn : Listed(a) /\ (a \notin crossed => InOrder(a))

(***************************************************************************)
(* The openings.  One that has been added up, or is being, is in the batch *)
(* of the clean-up that did so as long as it is in the log; and what that  *)
(* clean-up is about to remove is in its batch.                            *)
(***************************************************************************)
LogTypes ==
  /\ clock \in 0 .. MaxClock
  /\ opened \subseteq Open /\ unsent \subseteq opened
  /\ DOMAIN log \subseteq opened
  /\ log = [o \in DOMAIN log |-> log[o]]
  /\ \A o \in DOMAIN log : log[o] \in 0 .. clock
  /\ counted \in [Open -> Nat]
  /\ \A o \in Open \ opened : counted[o] = 0

GcOK ==
  /\ \A c, d \in Calls("gc") : c = d
  /\ \A c \in Calls("gc") :
       /\ c.start <= clock /\ c.batch \subseteq opened
       /\ c.info # "remove" => c.batch = {}
       /\ c.info = "remove" => Older(InfoDays, c.start) \subseteq c.batch

OpenOK(o) ==
  /\ counted[o] <= 1
  /\ o \in unsent => counted[o] = 0
  /\ o \in DOMAIN log \/ counted[o] = 1 \/ o \in unsent
  /\ o \in DOMAIN log /\ (counted[o] = 1 \/ o \in unsent) =>
       \E c \in Calls("gc") : o \in c.batch
  /\ \A c \in Calls("gc") : o \in c.batch => counted[o] = 1 \/ o \in unsent

LogInv == LogTypes /\ GcOK /\ \A o \in opened \ torn : OpenOK(o)

AdminInv == CallsOK /\ RulesInv /\ AppsInv /\ LogInv

-----------------------------------------------------------------------------
(***************************************************************************)
(* A call that begins, and one that goes on or ends, leave those of the    *)
(* other kinds alone.                                                      *)
(***************************************************************************)
AnyCall == RuleCall \cup AppsCall \cup GcCall

LEMMA KindOfCall ==
  \A c \in AnyCall : /\ c.op = "rule" => c \in RuleCall
                     /\ c.op = "app" => c \in AppsCall
                     /\ c.op = "gc" => c \in GcCall
BY DEF AnyCall, RuleCall, AppsCall, GcCall

LEMMA CallBegins ==
  ASSUME CallsOK, NEW call \in AnyCall, Begin(call)
  PROVE  \E d : /\ d = [call EXCEPT !.id = started + 1] /\ d \in AnyCall
                /\ d.op = call.op
                /\ CallsOK'
                /\ Calls(call.op)' = Calls(call.op) \cup {d}
                /\ \A op : op # call.op => Calls(op)' = Calls(op)
<1> DEFINE d == [call EXCEPT !.id = started + 1]
<1>1. started \in Nat /\ started' = started + 1 /\ calls' = calls \cup {d}
  BY DEF CallsOK, Begin
<1>2. d \in AnyCall /\ d.op = call.op
  <2>1. CASE call \in RuleCall
    BY <1>1, <2>1 DEF AnyCall, RuleCall
  <2>2. CASE call \in AppsCall
    BY <1>1, <2>2 DEF AnyCall, AppsCall
  <2>3. CASE call \in GcCall
    BY <1>1, <2>3 DEF AnyCall, GcCall
  <2> QED BY <2>1, <2>2, <2>3 DEF AnyCall
<1> HIDE DEF d
<1>3. CallsOK'
  BY <1>1, <1>2 DEF CallsOK, AnyCall
<1>4. \A op : Calls(op)' = IF op = call.op THEN Calls(op) \cup {d} ELSE Calls(op)
  BY <1>1, <1>2 DEF Calls
<1> QED BY <1>2, <1>3, <1>4 DEF d

LEMMA CallMovesOn ==
  ASSUME CallsOK, NEW c \in calls, NEW next, Becomes(c, next), started' = started,
         \A d \in next : d \in AnyCall /\ d.op = c.op
  PROVE  /\ CallsOK'
         /\ Calls(c.op)' = (Calls(c.op) \ {c}) \cup next
         /\ \A op : op # c.op => Calls(op)' = Calls(op)
<1>1. calls' = (calls \ {c}) \cup next
  BY DEF Becomes
<1>2. CallsOK'
  BY <1>1 DEF CallsOK, AnyCall
<1>3. Calls(c.op)' = (Calls(c.op) \ {c}) \cup next
  BY <1>1 DEF Calls
<1>4. \A op : op # c.op => Calls(op)' = Calls(op)
  BY <1>1 DEF Calls
<1> QED BY <1>2, <1>3, <1>4

LEMMA CallEnds ==
  ASSUME CallsOK, NEW c \in calls, Finish(c), started' = started
  PROVE  /\ CallsOK'
         /\ Calls(c.op)' = Calls(c.op) \ {c}
         /\ \A op : op # c.op => Calls(op)' = Calls(op)
<1>1. Becomes(c, {})
  BY DEF Finish
<1>2. /\ CallsOK'
      /\ Calls(c.op)' = (Calls(c.op) \ {c}) \cup {}
      /\ \A op : op # c.op => Calls(op)' = Calls(op)
  BY <1>1, CallMovesOn
<1> QED BY <1>2

LEMMA NoCallMoves ==
  ASSUME CallsOK, calls' = calls, started' = started
  PROVE  CallsOK' /\ \A op : Calls(op)' = Calls(op)
BY DEF CallsOK, Calls

-----------------------------------------------------------------------------
(***************************************************************************)
(* The rules.                                                              *)
(***************************************************************************)
LEMMA LeastMember ==
  ASSUME NEW T \in SUBSET Nat, T # {}
  PROVE  \E x \in T : \A y \in T : x <= y
<1>1. PICK x \in T : \A y \in T : ~ (<<y, x>> \in OpToRel(<, Nat))
  BY NatLessThanWellFounded, WFMin
<1>2. \A y \in T : ~(y < x)
  BY <1>1 DEF OpToRel
<1> QED BY <1>2

\* The last rule of a kind, which from_models keeps.
LEMMA LastExists ==
  ASSUME NEW rs, Bounded(rs), NEW k, Live(rs, k) # {}
  PROVE  \E r \in Live(rs, k) : \A q \in Live(rs, k) : q <= r
<1> DEFINE L == Live(rs, k)
           Over == {n \in Nat : \A q \in L : q <= n}
<1>1. L \subseteq Nat \ {0} /\ \A r \in L : r \in Rule /\ rs[r] # "none"
  BY AdministrationAssumption DEF Live
<1>2. Over # {}
  BY <1>1 DEF Bounded
<1> HIDE DEF L
<1>3. PICK n \in Over : \A m \in Over : n <= m
  <2>1. Over \in SUBSET Nat
    OBVIOUS
  <2> HIDE DEF Over
  <2> QED BY <1>2, <2>1, LeastMember
<1>4. n \in L
  <2> SUFFICES ASSUME n \notin L PROVE FALSE
    OBVIOUS
  <2>1. \A q \in L : q <= n - 1
    BY <1>1, <1>3
  <2>2. n \in Nat /\ n # 0
    <3>1. PICK q \in L : TRUE
      BY DEF L
    <3>2. q <= n /\ q \in Nat \ {0}
      BY <1>1, <1>3
    <3> QED BY <1>3, <3>2
  <2>3. n - 1 \in Over
    BY <2>1, <2>2
  <2>4. n <= n - 1
    <3> HIDE DEF Over
    <3> QED BY <1>3, <2>3
  <2> QED BY <2>2, <2>4
<1> QED BY <1>3, <1>4 DEF L

LEMMA FromModelsIsCopy ==
  ASSUME NEW rs, Bounded(rs)
  PROVE  FromModels(rs) \in Copy
<1> DEFINE entry(k) == IF Live(rs, k) = {} THEN NoRule
                       ELSE LET last == CHOOSE r \in Live(rs, k) : \A q \in Live(rs, k) : q <= r
                            IN  [rule |-> last, on |-> rs[last] = "on"]
<1>1. ASSUME NEW k \in Kind PROVE entry(k) \in [rule : Rule \cup {0}, on : BOOLEAN]
  <2>1. CASE Live(rs, k) = {}
    BY <2>1 DEF NoRule
  <2>2. CASE Live(rs, k) # {}
    <3> DEFINE last == CHOOSE r \in Live(rs, k) : \A q \in Live(rs, k) : q <= r
    <3>1. last \in Live(rs, k)
      BY <2>2, LastExists
    <3>2. last \in Rule
      BY <3>1 DEF Live
    <3>3. entry(k) = [rule |-> last, on |-> rs[last] = "on"]
      BY <2>2
    <3> HIDE DEF last, entry
    <3>4. (rs[last] = "on") \in BOOLEAN
      OBVIOUS
    <3> QED BY <3>2, <3>3, <3>4
  <2> QED BY <2>1, <2>2
<1>2. FromModels(rs) = [k \in Kind |-> entry(k)]
  BY DEF FromModels
<1> HIDE DEF entry
<1> QED BY <1>1, <1>2 DEF Copy

LEMMA RulesInit == Init => RulesInv
<1> SUFFICES ASSUME Init PROVE RulesInv
  OBVIOUS
<1>1. rules = [r \in Rule |-> "none"] /\ ruleMap = [k \in Kind |-> NoRule] /\ calls = {}
      /\ version = 0 /\ mapVersion = 0 /\ unsynced = FALSE
  BY DEF Init
<1>2. Bounded(rules)
  BY <1>1 DEF Bounded
<1>3. FromModels(rules) = ruleMap
  <2>1. \A k \in Kind : Live(rules, k) = {}
    BY <1>1 DEF Live
  <2> QED BY <1>1, <2>1 DEF FromModels
<1>4. ruleMap \in Copy
  BY <1>1 DEF Copy, NoRule
<1>5. RuleTypes
  BY <1>1, <1>2, <1>4 DEF RuleTypes
<1>6. Calls("rule") = {}
  BY <1>1 DEF Calls
<1> QED BY <1>1, <1>3, <1>5, <1>6 DEF RulesInv, SnapsOK, CopyOK

LEMMA RulesUnchanged ==
  ASSUME RulesInv, UNCHANGED ruleVars, Calls("rule")' = Calls("rule")
  PROVE  RulesInv'
<1>1. rules' = rules /\ ruleMap' = ruleMap /\ version' = version /\ mapVersion' = mapVersion
      /\ unsynced' = unsynced
  BY DEF ruleVars
<1>2. RuleTypes' /\ mapVersion' <= version'
  BY <1>1 DEF RulesInv, RuleTypes, Bounded
<1>3. SnapsOK' /\ CopyOK'
  BY <1>1 DEF RulesInv, SnapsOK, CopyOK, FromModels, Live
<1> QED BY <1>2, <1>3 DEF RulesInv

LEMMA SyncIsCall == Sync \in AnyCall /\ Sync.op = "rule"
BY DEF Sync, AnyCall, RuleCall

LEMMA RulesWriteRule ==
  ASSUME CallsOK, RulesInv, NEW r \in Rule, NEW how \in Change, WriteRule(r, how)
  PROVE  CallsOK' /\ RulesInv' /\ \A op : op # "rule" => Calls(op)' = Calls(op)
<1>1. /\ rules' = [rules EXCEPT ![r] = Changed(r, how)] /\ version' = version + 1
      /\ ruleMap' = ruleMap /\ mapVersion' = mapVersion /\ unsynced' = unsynced
      /\ Begin(Sync)
  BY DEF WriteRule
<1>2. PICK d : /\ d = [Sync EXCEPT !.id = started + 1] /\ d \in AnyCall
               /\ d.op = Sync.op
               /\ CallsOK'
               /\ Calls(Sync.op)' = Calls(Sync.op) \cup {d}
               /\ \A op : op # Sync.op => Calls(op)' = Calls(op)
  BY <1>1, SyncIsCall, CallBegins
<1>3. d.snap = <<>> /\ d.ver = 0
  BY <1>2 DEF Sync
<1>4. CallsOK' /\ Calls("rule")' = Calls("rule") \cup {d} /\ \A op : op # "rule" => Calls(op)' = Calls(op)
  BY <1>2, SyncIsCall
<1>5. rules \in [Rule -> {"none", "on", "off", "gone"}] /\ Bounded(rules)
      /\ ruleMap \in Copy /\ version \in Nat /\ mapVersion \in Nat /\ unsynced \in BOOLEAN
      /\ mapVersion <= version
  BY DEF RulesInv, RuleTypes
<1>6. Changed(r, how) \in {"none", "on", "off", "gone"}
  BY <1>5 DEF Changed, Change
<1>7. Bounded(rules')
  <2>1. PICK n \in Nat : \A q \in Rule : rules[q] # "none" => q <= n
    BY <1>5 DEF Bounded
  <2>2. r \in Nat
    BY AdministrationAssumption
  <2> DEFINE m == IF n < r THEN r ELSE n
  <2>3. m \in Nat /\ n <= m /\ r <= m
    BY <2>2
  <2> HIDE DEF m
  <2>4. ASSUME NEW q \in Rule, rules'[q] # "none" PROVE q <= m
    <3>1. q \in Nat
      BY AdministrationAssumption
    <3>2. q = r \/ rules[q] # "none"
      BY <1>1, <1>5, <2>4
    <3> QED BY <2>1, <2>3, <3>1, <3>2
  <2> QED BY <2>3, <2>4 DEF Bounded
<1>8. RuleTypes'
  BY <1>1, <1>5, <1>6, <1>7 DEF RuleTypes
<1>9. SnapsOK'
  <2>1. \A c \in Calls("rule") : c.ver <= version /\ c \in RuleCall
    BY KindOfCall DEF RulesInv, SnapsOK, Calls, CallsOK, AnyCall
  <2>2. \A c \in Calls("rule") : c.ver <= version + 1 /\ c.ver # version + 1
    BY <1>5, <2>1 DEF RuleCall
  <2>3. 0 <= version + 1
    BY <1>5
  <2> QED BY <1>1, <1>3, <1>4, <2>2, <2>3 DEF SnapsOK
<1>10. CopyOK'
  <2>1. mapVersion' # version'
    BY <1>1, <1>5
  <2> QED BY <1>3, <1>4, <2>1 DEF CopyOK
<1> QED BY <1>1, <1>4, <1>5, <1>8, <1>9, <1>10 DEF RulesInv

LEMMA RuleCallIs ==
  ASSUME CallsOK, NEW c \in calls, c.op = "rule"
  PROVE  c \in RuleCall /\ c \in Calls("rule")
BY KindOfCall DEF CallsOK, AnyCall, Calls

LEMMA RulesRead ==
  ASSUME CallsOK, RulesInv, NEW c \in calls, ReadRules(c)
  PROVE  CallsOK' /\ RulesInv' /\ \A op : op # "rule" => Calls(op)' = Calls(op)
<1> DEFINE d == [c EXCEPT !.snap = FromModels(rules), !.ver = version]
<1>1. c.op = "rule" /\ Becomes(c, {d}) /\ started' = started
      /\ rules' = rules /\ ruleMap' = ruleMap /\ version' = version /\ mapVersion' = mapVersion
      /\ unsynced' = unsynced
  BY DEF ReadRules, ruleVars
<1>2. c \in RuleCall
  BY <1>1, RuleCallIs
<1>3. version \in Nat /\ FromModels(rules) \in Copy
  BY FromModelsIsCopy DEF RulesInv, RuleTypes
<1>4. d \in RuleCall
  <2> DEFINE h == [c EXCEPT !.snap = FromModels(rules)]
  <2>1. h \in RuleCall
    BY <1>2, <1>3 DEF RuleCall
  <2>2. d = [h EXCEPT !.ver = version]
    BY <1>2 DEF RuleCall
  <2> HIDE DEF h, d
  <2> QED BY <1>3, <2>1, <2>2 DEF RuleCall
<1>5. d.op = "rule" /\ d.snap = FromModels(rules) /\ d.ver = version
  BY <1>2 DEF RuleCall
<1> HIDE DEF d
<1>6. /\ CallsOK'
      /\ Calls(c.op)' = (Calls(c.op) \ {c}) \cup {d}
      /\ \A op : op # c.op => Calls(op)' = Calls(op)
  BY <1>1, <1>4, <1>5, CallMovesOn DEF AnyCall
<1>7. Calls("rule")' = (Calls("rule") \ {c}) \cup {d}
  BY <1>1, <1>6
<1>8. RuleTypes' /\ mapVersion' <= version'
  BY <1>1 DEF RulesInv, RuleTypes
<1>9. SnapsOK'
  BY <1>1, <1>3, <1>5, <1>7 DEF RulesInv, SnapsOK
<1>10. CopyOK'
  BY <1>1, <1>5, <1>7 DEF RulesInv, CopyOK
<1> QED BY <1>1, <1>6, <1>8, <1>9, <1>10 DEF RulesInv

LEMMA RulesInsert ==
  ASSUME CallsOK, RulesInv, NEW c \in calls, InsertRules(c)
  PROVE  CallsOK' /\ RulesInv' /\ \A op : op # "rule" => Calls(op)' = Calls(op)
<1>1. c.op = "rule" /\ c.snap # <<>> /\ ruleMap' = c.snap /\ mapVersion' = c.ver
      /\ Finish(c) /\ started' = started /\ rules' = rules /\ version' = version
      /\ unsynced' = (c.ver < mapVersion \/ (unsynced /\ c.ver < version))
  BY DEF InsertRules
<1>2. c \in RuleCall /\ c \in Calls("rule")
  BY <1>1, RuleCallIs
<1>3. /\ CallsOK'
      /\ Calls("rule")' = Calls("rule") \ {c}
      /\ \A op : op # "rule" => Calls(op)' = Calls(op)
  BY <1>1, CallEnds
<1>4. c.ver <= version /\ (c.ver = version => c.snap = FromModels(rules))
      /\ c.ver \in Nat /\ c.snap \in Copy /\ version \in Nat /\ mapVersion \in Nat
      /\ mapVersion <= version
  BY <1>1, <1>2 DEF RulesInv, RuleTypes, SnapsOK, RuleCall
<1>5. unsynced' \in BOOLEAN
  BY <1>1
<1>6. RuleTypes' /\ mapVersion' <= version'
  BY <1>1, <1>4, <1>5 DEF RulesInv, RuleTypes
<1>7. SnapsOK'
  BY <1>1, <1>3 DEF RulesInv, SnapsOK
<1>8. CopyOK'
  <2> SUFFICES ASSUME ~unsynced'
               PROVE  /\ mapVersion' = version' => ruleMap' = FromModels(rules')
                      /\ mapVersion' # version' =>
                           \E d \in Calls("rule")' : d.snap = <<>> \/ d.ver = version'
    BY DEF CopyOK
  <2>1. ~(c.ver < mapVersion) /\ ~(unsynced /\ c.ver < version)
    BY <1>1
  <2>2. mapVersion' = version' => ruleMap' = FromModels(rules')
    BY <1>1, <1>4
  <2>3. ASSUME mapVersion' # version'
        PROVE  \E d \in Calls("rule")' : d.snap = <<>> \/ d.ver = version'
    <3>1. c.ver < version /\ mapVersion # version
      BY <1>1, <1>4, <2>1, <2>3
    <3>2. ~unsynced
      BY <2>1, <3>1
    <3>3. PICK d \in Calls("rule") : d.snap = <<>> \/ d.ver = version
      BY <3>1, <3>2 DEF RulesInv, CopyOK
    <3>4. d # c
      BY <1>1, <1>4, <3>1, <3>3
    <3> QED BY <1>1, <1>3, <3>3, <3>4
  <2> QED BY <2>2, <2>3
<1> QED BY <1>3, <1>6, <1>7, <1>8 DEF RulesInv

LEMMA RulesSyncFails ==
  ASSUME CallsOK, RulesInv, NEW c \in calls, SyncFails(c)
  PROVE  CallsOK' /\ RulesInv' /\ \A op : op # "rule" => Calls(op)' = Calls(op)
<1>1. c.op = "rule" /\ unsynced' = TRUE /\ Finish(c) /\ started' = started
      /\ rules' = rules /\ ruleMap' = ruleMap /\ version' = version /\ mapVersion' = mapVersion
  BY DEF SyncFails
<1>2. /\ CallsOK'
      /\ Calls("rule")' = Calls("rule") \ {c}
      /\ \A op : op # "rule" => Calls(op)' = Calls(op)
  BY <1>1, CallEnds
<1>3. RuleTypes' /\ mapVersion' <= version'
  BY <1>1 DEF RulesInv, RuleTypes
<1>4. SnapsOK' /\ CopyOK'
  BY <1>1, <1>2 DEF RulesInv, SnapsOK, CopyOK
<1> QED BY <1>2, <1>3, <1>4 DEF RulesInv

LEMMA RulesRestart ==
  ASSUME CallsOK, RulesInv, RestartLogService
  PROVE  CallsOK' /\ RulesInv' /\ \A op : op # "rule" => Calls(op)' = Calls(op)
<1>1. PICK ok \in BOOLEAN :
         /\ ruleMap' = IF ok THEN FromModels(rules) ELSE [k \in Kind |-> NoRule]
         /\ unsynced' = ~ok
  BY DEF RestartLogService
<1>2. mapVersion' = version /\ version' = version /\ rules' = rules /\ started' = started
      /\ calls' = {c \in calls : c.op = "rule" => c.snap = <<>>}
  BY DEF RestartLogService
<1>3. CallsOK' /\ Calls("rule")' = {c \in Calls("rule") : c.snap = <<>>}
      /\ \A op : op # "rule" => Calls(op)' = Calls(op)
  BY <1>2 DEF CallsOK, Calls
<1>4. FromModels(rules) \in Copy /\ [k \in Kind |-> NoRule] \in Copy /\ version \in Nat
  BY FromModelsIsCopy DEF RulesInv, RuleTypes, Copy, NoRule
<1>5. ruleMap' \in Copy /\ unsynced' \in BOOLEAN
  <2>1. ruleMap' \in Copy
    BY <1>1, <1>4
  <2>2. unsynced' \in BOOLEAN
    BY <1>1
  <2> QED BY <2>1, <2>2
<1>6. RuleTypes' /\ mapVersion' <= version'
  BY <1>2, <1>4, <1>5 DEF RulesInv, RuleTypes
<1>7. SnapsOK'
  BY <1>2, <1>3 DEF RulesInv, SnapsOK
<1>8. CopyOK'
  BY <1>1, <1>2 DEF CopyOK
<1> QED BY <1>3, <1>6, <1>7, <1>8 DEF RulesInv

LEMMA RulesCrash ==
  ASSUME CallsOK, RulesInv, Crash
  PROVE  CallsOK' /\ RulesInv' /\ \A op : Calls(op)' = {}
<1>1. /\ unsynced' = (unsynced \/ \E c \in calls : c.op = "rule")
      /\ calls' = {} /\ started' = started
      /\ rules' = rules /\ ruleMap' = ruleMap /\ version' = version /\ mapVersion' = mapVersion
  BY DEF Crash
<1>2. CallsOK' /\ \A op : Calls(op)' = {}
  BY <1>1 DEF CallsOK, Calls
<1>3. unsynced' \in BOOLEAN
  BY <1>1
<1>4. RuleTypes' /\ mapVersion' <= version'
  BY <1>1, <1>3 DEF RulesInv, RuleTypes
<1>5. CopyOK'
  <2>1. ~unsynced' => ~unsynced /\ Calls("rule") = {}
    BY <1>1 DEF Calls
  <2> QED BY <1>1, <2>1 DEF RulesInv, CopyOK
<1> QED BY <1>2, <1>4, <1>5 DEF RulesInv, SnapsOK

LEMMA RulesHold ==
  ASSUME CallsOK, RulesInv, ~unsynced, \A c \in calls : c.op # "rule",
         NEW k \in Kind, NEW r \in Rule, Live(rules, k) = {r}
  PROVE  CheckRule(ruleMap, k) = IF rules[r] = "on" THEN r ELSE 0
<1>1. ruleMap = FromModels(rules)
  <2>1. Calls("rule") = {}
    BY DEF Calls
  <2> QED BY <2>1 DEF RulesInv, CopyOK
<1> DEFINE last == CHOOSE q \in Live(rules, k) : \A p \in Live(rules, k) : p <= q
<1>2. last = r
  <2>1. r \in Nat
    BY AdministrationAssumption
  <2> QED BY <2>1
<1>3. ruleMap[k] = [rule |-> last, on |-> rules[last] = "on"]
  BY <1>1 DEF FromModels
<1> HIDE DEF last
<1>4. ruleMap[k].rule = r
  BY <1>2, <1>3
<1>5. ruleMap[k].on = (rules[r] = "on")
  BY <1>2, <1>3
<1> QED BY <1>4, <1>5 DEF CheckRule

-----------------------------------------------------------------------------
(***************************************************************************)
(* The apps.                                                               *)
(***************************************************************************)
LEMMA SomeName == (CHOOSE n \in Name : TRUE) \in Name /\ (CHOOSE p \in Project : TRUE) \in Project
BY AdministrationAssumption

LEMMA AppsInit == Init => AppsInv
<1> SUFFICES ASSUME Init PROVE AppsInv
  OBVIOUS
<1> DEFINE n0 == CHOOSE n \in Name : TRUE
           p0 == CHOOSE p \in Project : TRUE
<1>1. /\ apps = [a \in App |-> [state |-> IF a = Logged THEN "live" ELSE "none", name |-> n0]]
      /\ entries = {Entry(p0, Logged, n0)}
      /\ torn = {} /\ crossed = {} /\ calls = {}
  BY DEF Init
<1>2. n0 \in Name /\ p0 \in Project /\ Logged \in App
  BY SomeName, AdministrationAssumption
<1> HIDE DEF n0, p0
<1>3. AppTypes
  BY <1>1, <1>2 DEF AppTypes, Entry
<1>4. ASSUME NEW a \in App PROVE Listed(a) /\ InOrder(a)
  <2>1. CallsOf(a) = {}
    BY <1>1 DEF CallsOf, Calls
  <2>2. apps[a].state = (IF a = Logged THEN "live" ELSE "none") /\ apps[a].name = n0
    BY <1>1
  <2>3. Own(a) = IF a = Logged THEN {Entry(p0, Logged, n0)} ELSE {}
    BY <1>1 DEF Own, Entry
  <2>4. Entry(p0, Logged, n0).kind = "id" /\ Entry(p0, Logged, n0).name = n0
    BY DEF Entry
  <2> QED BY <2>1, <2>2, <2>3, <2>4 DEF Listed, InOrder
<1> QED BY <1>3, <1>4 DEF AppsInv

\* An app that a step does not touch.
LEMMA OtherApp ==
  ASSUME NEW a \in App, Own(a)' = Own(a), apps'[a] = apps[a], CallsOf(a)' = CallsOf(a)
  PROVE  (Listed(a) => Listed(a)') /\ (InOrder(a) => InOrder(a)')
<1>1. Listed(a) => Listed(a)'
  BY DEF Listed
<1>2. \A c : /\ Creating(a, c) => Creating(a, c)'
             /\ Renaming(a, c) => Renaming(a, c)'
             /\ Deleting(a, c) => Deleting(a, c)'
  BY DEF Creating, Renaming, Deleting
<1>3. InOrder(a) => InOrder(a)'
  BY <1>2 DEF InOrder
<1> QED BY <1>1, <1>3

LEMMA AppsUnchanged ==
  ASSUME AppsInv, UNCHANGED appVars, Calls("app")' = Calls("app"),
         torn \subseteq torn', torn' \subseteq App \cup Open, crossed' = crossed
  PROVE  AppsInv'
<1>1. apps' = apps /\ entries' = entries
  BY DEF appVars
<1>2. \A a \in App : Own(a)' = Own(a) /\ apps'[a] = apps[a] /\ CallsOf(a)' = CallsOf(a)
  BY <1>1 DEF Own, CallsOf
<1>3. \A a \in App \ torn' : Listed(a)' /\ (a \notin crossed' => InOrder(a)')
  BY <1>2, OtherApp DEF AppsInv
<1>4. AppTypes'
  BY <1>1 DEF AppsInv, AppTypes
<1> QED BY <1>3, <1>4 DEF AppsInv

LEMMA BusyIs == \A a : Busy(a) <=> CallsOf(a) # {}
BY DEF Busy, CallsOf, Calls

LEMMA AppsCrash ==
  ASSUME AppsInv, Crash, \A op : Calls(op)' = {}, torn' \subseteq App \cup Open
  PROVE  AppsInv'
<1>1. apps' = apps /\ entries' = entries /\ crossed' = crossed
  BY DEF Crash, appVars
<1>2. \A a \in App \ torn' : CallsOf(a) = {} /\ a \notin torn
  <2>1. \A a \in App : Busy(a) => a \in torn'
    BY DEF Crash
  <2>2. torn \subseteq torn'
    BY DEF Crash
  <2> QED BY <2>1, <2>2, BusyIs
<1>3. \A a \in App : CallsOf(a)' = {}
  BY DEF CallsOf
<1>4. \A a \in App \ torn' : Own(a)' = Own(a) /\ apps'[a] = apps[a] /\ CallsOf(a)' = CallsOf(a)
  BY <1>1, <1>2, <1>3 DEF Own
<1>5. \A a \in App \ torn' : Listed(a)' /\ (a \notin crossed' => InOrder(a)')
  BY <1>1, <1>2, <1>4, OtherApp DEF AppsInv
<1>6. AppTypes'
  BY <1>1 DEF AppsInv, AppTypes
<1> QED BY <1>5, <1>6 DEF AppsInv

-----------------------------------------------------------------------------
\* A call of app a begins.
LEMMA AppBegins ==
  ASSUME CallsOK, NEW a \in App, NEW todo \in SUBSET Steps, NEW n \in Name, NEW p \in Project,
         Begin(AppCall(a, todo, n, p))
  PROVE  \E d : /\ d.todo = todo /\ d.name = n
                /\ CallsOK'
                /\ CallsOf(a)' = CallsOf(a) \cup {d}
                /\ \A b : b # a => CallsOf(b)' = CallsOf(b)
                /\ \A op : op # "app" => Calls(op)' = Calls(op)
<1> DEFINE call == AppCall(a, todo, n, p)
<1>1. call \in AnyCall /\ call.op = "app" /\ call.app = a /\ call.todo = todo /\ call.name = n
      /\ call = [id |-> 0, op |-> "app", app |-> a, todo |-> todo, name |-> n, project |-> p]
  BY DEF AppCall, AnyCall, AppsCall
<1>2. PICK d : /\ d = [call EXCEPT !.id = started + 1] /\ d \in AnyCall
               /\ d.op = call.op
               /\ CallsOK'
               /\ Calls(call.op)' = Calls(call.op) \cup {d}
               /\ \A op : op # call.op => Calls(op)' = Calls(op)
  <2> HIDE DEF call
  <2>1. call \in AnyCall
    BY <1>1
  <2> QED BY <2>1, CallBegins DEF call
<1>3. d.app = a /\ d.todo = todo /\ d.name = n
  BY <1>1, <1>2
<1> HIDE DEF call
<1>4. Calls("app")' = Calls("app") \cup {d} /\ \A op : op # "app" => Calls(op)' = Calls(op)
  BY <1>1, <1>2
<1>5. \A b : CallsOf(b)' = IF b = a THEN CallsOf(b) \cup {d} ELSE CallsOf(b)
  BY <1>3, <1>4 DEF CallsOf
<1> QED BY <1>2, <1>3, <1>4, <1>5

\* A call of app a does one of its steps, or fails to.
LEMMA AppMoves ==
  ASSUME CallsOK, NEW c \in calls, c.op = "app", NEW step \in c.todo,
         Becomes(c, Rest(c, step)), started' = started
  PROVE  /\ c \in AppsCall /\ c \in CallsOf(c.app)
         /\ CallsOK'
         /\ \A op : op # "app" => Calls(op)' = Calls(op)
         /\ \A b : b # c.app => CallsOf(b)' = CallsOf(b)
         /\ \E R : /\ CallsOf(c.app)' = (CallsOf(c.app) \ {c}) \cup R
                   /\ \A d \in R : d.todo = c.todo \ {step} /\ d.name = c.name
                   /\ \A d, e \in R : d = e
                   /\ R = {} <=> c.todo = {step}
<1> DEFINE R == Rest(c, step)
           d == [c EXCEPT !.todo = c.todo \ {step}]
<1>1. c \in AppsCall /\ c \in CallsOf(c.app)
  BY KindOfCall DEF CallsOK, AnyCall, CallsOf, Calls
<1>2. d \in AppsCall /\ d.op = "app" /\ d.app = c.app /\ d.todo = c.todo \ {step} /\ d.name = c.name
  BY <1>1 DEF AppsCall
<1>3. R = IF c.todo = {step} THEN {} ELSE {d}
  BY DEF Rest
<1> HIDE DEF d, R
<1>4. \A e \in R : e \in AnyCall /\ e.op = c.op
  BY <1>2, <1>3 DEF AnyCall
<1>5. /\ CallsOK'
      /\ Calls(c.op)' = (Calls(c.op) \ {c}) \cup R
      /\ \A op : op # c.op => Calls(op)' = Calls(op)
  BY <1>4, CallMovesOn DEF R
<1>6. Calls("app")' = (Calls("app") \ {c}) \cup R
  BY <1>5
<1>7. \A b : CallsOf(b)' = IF b = c.app THEN (CallsOf(b) \ {c}) \cup R ELSE CallsOf(b)
  BY <1>2, <1>3, <1>6 DEF CallsOf
<1>8. /\ \A e \in R : e.todo = c.todo \ {step} /\ e.name = c.name
      /\ \A e, f \in R : e = f
      /\ R = {} <=> c.todo = {step}
  BY <1>2, <1>3
<1> QED BY <1>1, <1>5, <1>7, <1>8

\* A call begins that leaves the documents alone.
LEMMA AppsBegin ==
  ASSUME AppsInv, NEW a \in App, NEW d,
         CallsOf(a)' = CallsOf(a) \cup {d}, \A b : b # a => CallsOf(b)' = CallsOf(b),
         UNCHANGED appVars, torn' = torn,
         crossed' = IF Busy(a) THEN crossed \cup {a} ELSE crossed,
         "pull" \in d.todo => "flag" \in d.todo,
         Renaming(a, d) \/ Deleting(a, d)
  PROVE  AppsInv'
<1>1. apps' = apps /\ entries' = entries
  BY DEF appVars
<1>2. AppTypes'
  BY <1>1 DEF AppsInv, AppTypes
<1>3. \A b : Own(b)' = Own(b) /\ apps'[b] = apps[b]
  BY <1>1 DEF Own
<1>4. ASSUME NEW b \in App \ torn, b # a PROVE Listed(b)' /\ (b \notin crossed' => InOrder(b)')
  BY <1>3, <1>4, OtherApp DEF AppsInv
<1>5. a \notin torn => Listed(a)'
  BY <1>3 DEF AppsInv, Listed
<1>6. ASSUME a \notin torn, a \notin crossed' PROVE InOrder(a)'
  <2>1. CallsOf(a) = {} /\ a \notin crossed
    BY <1>6, BusyIs
  <2>2. InOrder(a)
    BY <1>6, <2>1 DEF AppsInv
  <2>3. CallsOf(a)' = {d}
    BY <2>1
  <2>4. Renaming(a, d)' \/ Deleting(a, d)'
    BY <1>3 DEF Renaming, Deleting
  <2> QED BY <1>3, <2>2, <2>3, <2>4 DEF InOrder
<1> QED BY <1>2, <1>4, <1>5, <1>6 DEF AppsInv

LEMMA AppsRename ==
  ASSUME CallsOK, AppsInv, NEW a \in App, NEW n \in Name, RenameApp(a, n)
  PROVE  CallsOK' /\ AppsInv' /\ \A op : op # "app" => Calls(op)' = Calls(op)
<1> DEFINE p == CHOOSE q \in Project : TRUE
           todo == {"name", "rename"}
<1>1. /\ apps[a].state = "live" /\ Begin(AppCall(a, todo, n, p))
      /\ crossed' = IF Busy(a) THEN crossed \cup {a} ELSE crossed
      /\ torn' = torn /\ UNCHANGED appVars
  BY DEF RenameApp, BeginApp
<1>2. p \in Project /\ todo \in SUBSET Steps
  BY SomeName DEF Steps
<1> HIDE DEF p, todo
<1>3. PICK d : /\ d.todo = todo /\ d.name = n
               /\ CallsOK'
               /\ CallsOf(a)' = CallsOf(a) \cup {d}
               /\ \A b : b # a => CallsOf(b)' = CallsOf(b)
               /\ \A op : op # "app" => Calls(op)' = Calls(op)
  BY <1>1, <1>2, AppBegins
<1>4. Renaming(a, d) /\ ("pull" \in d.todo => "flag" \in d.todo)
  BY <1>1, <1>3 DEF Renaming, todo
<1>5. AppsInv'
  BY <1>1, <1>3, <1>4, AppsBegin
<1> QED BY <1>3, <1>5

LEMMA AppsDelete ==
  ASSUME CallsOK, AppsInv, NEW a \in App, DeleteApp(a)
  PROVE  CallsOK' /\ AppsInv' /\ \A op : op # "app" => Calls(op)' = Calls(op)
<1> DEFINE p == CHOOSE q \in Project : TRUE
           n == CHOOSE m \in Name : TRUE
           todo == {"flag", "pull"}
<1>1. /\ apps[a].state # "none" /\ Begin(AppCall(a, todo, n, p))
      /\ crossed' = IF Busy(a) THEN crossed \cup {a} ELSE crossed
      /\ torn' = torn /\ UNCHANGED appVars
  BY DEF DeleteApp, BeginApp
<1>2. p \in Project /\ n \in Name /\ todo \in SUBSET Steps
  BY SomeName DEF Steps
<1> HIDE DEF p, n, todo
<1>3. PICK d : /\ d.todo = todo /\ d.name = n
               /\ CallsOK'
               /\ CallsOf(a)' = CallsOf(a) \cup {d}
               /\ \A b : b # a => CallsOf(b)' = CallsOf(b)
               /\ \A op : op # "app" => Calls(op)' = Calls(op)
  BY <1>1, <1>2, AppBegins
<1>4. Deleting(a, d) /\ ("pull" \in d.todo => "flag" \in d.todo)
  BY <1>1, <1>3 DEF Deleting, todo
<1>5. AppsInv'
  BY <1>1, <1>3, <1>4, AppsBegin
<1> QED BY <1>3, <1>5

LEMMA AppsMove ==
  ASSUME CallsOK, AppsInv, NEW a \in App, NEW p \in Project, MoveApp(a, p)
  PROVE  CallsOK' /\ AppsInv' /\ \A op : op # "app" => Calls(op)' = Calls(op)
<1> DEFINE todo == {IF apps[a].state = "live" THEN "push" ELSE "null"}
           n == apps[a].name
<1>1. /\ Begin(AppCall(a, todo, n, p))
      /\ crossed' = crossed \cup {a} /\ torn' = torn /\ apps' = apps /\ entries' = entries
  BY DEF MoveApp, appVars
<1>2. n \in Name /\ todo \in SUBSET Steps /\ "pull" \notin todo
  BY DEF AppsInv, AppTypes, Steps
<1> HIDE DEF todo, n
<1>3. PICK d : /\ d.todo = todo /\ d.name = n
               /\ CallsOK'
               /\ CallsOf(a)' = CallsOf(a) \cup {d}
               /\ \A b : b # a => CallsOf(b)' = CallsOf(b)
               /\ \A op : op # "app" => Calls(op)' = Calls(op)
  BY <1>1, <1>2, AppBegins
<1>4. AppTypes'
  BY <1>1 DEF AppsInv, AppTypes
<1>5. \A b : Own(b)' = Own(b) /\ apps'[b] = apps[b]
  BY <1>1 DEF Own
<1>6. ASSUME NEW b \in App \ torn, b # a PROVE Listed(b)' /\ (b \notin crossed' => InOrder(b)')
  BY <1>1, <1>3, <1>5, <1>6, OtherApp DEF AppsInv
<1>7. a \notin torn => Listed(a)'
  BY <1>2, <1>3, <1>5 DEF AppsInv, Listed
<1>8. AppsInv'
  BY <1>1, <1>4, <1>6, <1>7 DEF AppsInv
<1> QED BY <1>3, <1>8

LEMMA AppsCreate ==
  ASSUME CallsOK, AppsInv, NEW a \in App, NEW n \in Name, NEW p \in Project, CreateApp(a, n, p)
  PROVE  CallsOK' /\ AppsInv' /\ \A op : op # "app" => Calls(op)' = Calls(op)
<1>1. PICK todo \in SUBSET Steps :
      /\ todo = {"list"}
      /\ apps[a].state = "none" /\ apps' = [apps EXCEPT ![a] = [state |-> "live", name |-> n]]
      /\ Begin(AppCall(a, todo, n, p))
      /\ crossed' = IF Busy(a) THEN crossed \cup {a} ELSE crossed
      /\ torn' = torn /\ entries' = entries
  BY DEF CreateApp, BeginApp, Steps
<1>3. PICK d : /\ d.todo = todo /\ d.name = n
               /\ CallsOK'
               /\ CallsOf(a)' = CallsOf(a) \cup {d}
               /\ \A b : b # a => CallsOf(b)' = CallsOf(b)
               /\ \A op : op # "app" => Calls(op)' = Calls(op)
  <2>1. todo \in SUBSET Steps /\ Begin(AppCall(a, todo, n, p))
    BY <1>1
  <2> QED BY <2>1, AppBegins
<1>4. AppTypes'
  BY <1>1 DEF AppsInv, AppTypes
<1>5. /\ \A b : Own(b)' = Own(b)
      /\ \A b \in App : b # a => apps'[b] = apps[b]
      /\ apps'[a].state = "live" /\ apps'[a].name = n
  BY <1>1 DEF Own, AppsInv, AppTypes
<1>6. ASSUME NEW b \in App \ torn, b # a PROVE Listed(b)' /\ (b \notin crossed' => InOrder(b)')
  BY <1>1, <1>3, <1>5, <1>6, OtherApp DEF AppsInv
<1>7. a \notin torn => Listed(a)'
  BY <1>1, <1>3, <1>5 DEF AppsInv, Listed
<1>8. ASSUME a \notin torn, a \notin crossed' PROVE InOrder(a)'
  <2>1. CallsOf(a) = {} /\ a \notin crossed
    BY <1>1, <1>8, BusyIs
  <2>2. InOrder(a)
    BY <1>8, <2>1 DEF AppsInv
  <2>3. CallsOf(a)' = {d}
    BY <1>3, <2>1
  <2>4. Own(a) = {}
    BY <1>1, <2>1, <2>2 DEF InOrder
  <2>5. Creating(a, d)'
    <3>1. d.todo = {"list"} /\ d.name = n
      BY <1>1, <1>3
    <3> QED BY <1>5, <2>4, <3>1 DEF Creating
  <2> QED BY <1>5, <2>3, <2>4, <2>5 DEF InOrder
<1>9. AppsInv'
  <2>1. torn' = torn
    BY <1>1
  <2> QED BY <2>1, <1>4, <1>6, <1>7, <1>8 DEF AppsInv
<1> QED BY <1>3, <1>9

LEMMA AppsStepFails ==
  ASSUME CallsOK, AppsInv, NEW c \in calls, NEW step, AppStepFails(c, step)
  PROVE  /\ CallsOK' /\ AppsInv' /\ \A op : op # "app" => Calls(op)' = Calls(op)
         /\ \A o \in Open \ torn' : o \notin torn
<1> DEFINE a == c.app
<1>1. /\ c.op = "app" /\ step \in c.todo /\ Becomes(c, Rest(c, step)) /\ started' = started
      /\ torn' = torn \cup {a} /\ apps' = apps /\ entries' = entries /\ crossed' = crossed
  BY DEF AppStepFails, appVars
<1>2. /\ c \in AppsCall
      /\ CallsOK'
      /\ \A op : op # "app" => Calls(op)' = Calls(op)
      /\ \A b : b # a => CallsOf(b)' = CallsOf(b)
  BY <1>1, AppMoves
<1>3. a \in App
  BY <1>2 DEF AppsCall
<1> HIDE DEF a
<1>4. AppTypes'
  BY <1>1, <1>3 DEF AppsInv, AppTypes
<1>5. \A b : Own(b)' = Own(b) /\ apps'[b] = apps[b]
  BY <1>1 DEF Own
<1>6. ASSUME NEW b \in App \ torn' PROVE Listed(b)' /\ (b \notin crossed' => InOrder(b)')
  <2>1. b # a /\ b \notin torn
    BY <1>1
  <2> QED BY <1>1, <1>2, <1>5, <2>1, OtherApp DEF AppsInv
<1>7. AppsInv'
  BY <1>4, <1>6 DEF AppsInv
<1> QED BY <1>1, <1>2, <1>7

-----------------------------------------------------------------------------
\* What a step of a call does to the documents.
LEMMA StepDoes ==
  ASSUME AppTypes, NEW c \in AppsCall, NEW step \in Steps, Do(c, step),
         torn' = torn, crossed' = crossed
  PROVE  /\ AppTypes'
         /\ \A b \in App \ {c.app} : Own(b)' = Own(b) /\ apps'[b] = apps[b]
         /\ step \in {"list", "push", "null"} =>
              /\ apps'[c.app] = apps[c.app]
              /\ \E e : /\ Own(c.app)' = Own(c.app) \cup {e} /\ e.name = c.name
                        /\ step = "list" => e.kind = "id"
         /\ step = "name" => /\ Own(c.app)' = Own(c.app)
                             /\ apps'[c.app].state = apps[c.app].state
                             /\ apps'[c.app].name = c.name
         /\ step = "flag" => /\ Own(c.app)' = Own(c.app)
                             /\ apps'[c.app].state = "deleted"
         /\ step = "rename" =>
              /\ apps'[c.app] = apps[c.app]
              /\ Own(c.app)' = {IF e.kind = "id" THEN [e EXCEPT !.name = c.name] ELSE e :
                                  e \in Own(c.app)}
         /\ step = "pull" => /\ apps'[c.app] = apps[c.app]
                             /\ Own(c.app)' = {e \in Own(c.app) : e.kind # "id"}
<1> DEFINE a == c.app
           Record == [project : Project, app : App, name : Name,
                      kind : {"id", "document", "null"}]
<1>1. a \in App /\ c.name \in Name /\ c.project \in Project
  BY DEF AppsCall
<1>2. /\ apps \in [App -> [state : {"none", "live", "deleted"}, name : Name]]
      /\ entries \subseteq Record
      /\ torn \subseteq App \cup Open /\ crossed \subseteq App
  BY DEF AppTypes
<1>3. CASE step \in {"list", "push", "null"}
  <2> DEFINE kind == IF step = "list" THEN "id" ELSE IF step = "push" THEN "document" ELSE "null"
             e == [project |-> c.project, app |-> a, kind |-> kind, name |-> c.name]
  <2>1. entries' = entries \cup {e} /\ apps' = apps
    <3>1. CASE step = "list"
      BY <3>1 DEF Do, WithEntry, Entry
    <3>2. CASE step = "push"
      BY <3>2 DEF Do, WithEntry, Entry
    <3>3. CASE step = "null"
      BY <3>3 DEF Do, WithEntry, Entry
    <3> QED BY <1>3, <3>1, <3>2, <3>3
  <2>2. e \in Record /\ e.app = a /\ e.name = c.name /\ (step = "list" => e.kind = "id")
    BY <1>1, <1>3
  <2> HIDE DEF e
  <2>3. AppTypes'
    BY <1>2, <2>1, <2>2 DEF AppTypes
  <2>4. \A b : Own(b)' = IF b = a THEN Own(b) \cup {e} ELSE Own(b)
    BY <2>1, <2>2 DEF Own
  <2> QED BY <1>3, <2>1, <2>2, <2>3, <2>4
<1>4. CASE step = "name"
  <2>1. apps' = [apps EXCEPT ![a].name = c.name] /\ entries' = entries
    BY <1>4 DEF Do
  <2> DEFINE r == [apps[a] EXCEPT !.name = c.name]
  <2>2. apps' = [apps EXCEPT ![a] = r]
    BY <1>1, <1>2, <2>1
  <2>3. r \in [state : {"none", "live", "deleted"}, name : Name] /\ r.state = apps[a].state
        /\ r.name = c.name
    BY <1>1, <1>2
  <2> HIDE DEF r
  <2>4. apps' \in [App -> [state : {"none", "live", "deleted"}, name : Name]]
        /\ apps'[a] = r /\ \A b \in App \ {a} : apps'[b] = apps[b]
    BY <1>1, <1>2, <2>2, <2>3
  <2>5. AppTypes'
    BY <1>2, <2>1, <2>4 DEF AppTypes
  <2>6. \A b : Own(b)' = Own(b)
    BY <2>1 DEF Own
  <2> QED BY <1>4, <2>3, <2>4, <2>5, <2>6
<1>5. CASE step = "flag"
  <2>1. apps' = [apps EXCEPT ![a].state = "deleted"] /\ entries' = entries
    BY <1>5 DEF Do
  <2> DEFINE r == [apps[a] EXCEPT !.state = "deleted"]
  <2>2. apps' = [apps EXCEPT ![a] = r]
    BY <1>1, <1>2, <2>1
  <2>3. r \in [state : {"none", "live", "deleted"}, name : Name] /\ r.state = "deleted"
    BY <1>1, <1>2
  <2> HIDE DEF r
  <2>4. apps' \in [App -> [state : {"none", "live", "deleted"}, name : Name]]
        /\ apps'[a] = r /\ \A b \in App \ {a} : apps'[b] = apps[b]
    BY <1>1, <1>2, <2>2, <2>3
  <2>5. AppTypes'
    BY <1>2, <2>1, <2>4 DEF AppTypes
  <2>6. \A b : Own(b)' = Own(b)
    BY <2>1 DEF Own
  <2> QED BY <1>5, <2>3, <2>4, <2>5, <2>6
<1>6. CASE step = "rename"
  <2>1. entries' = Renamed(a, c.name) /\ apps' = apps
    BY <1>6 DEF Do
  <2> DEFINE new(e) == IF e.kind = "id" THEN [e EXCEPT !.name = c.name] ELSE e
  <2>2. \A e \in Record : new(e) \in Record /\ new(e).app = e.app
    BY <1>1
  <2>3. entries' = {IF e.app = a THEN new(e) ELSE e : e \in entries}
    BY <2>1 DEF Renamed
  <2>4. Own(a)' = {new(e) : e \in Own(a)}
    <3> HIDE DEF new, Record
    <3> QED BY <1>2, <2>2, <2>3 DEF Own
  <2>5. \A b \in App \ {a} : Own(b)' = Own(b)
    <3> HIDE DEF new, Record
    <3> QED BY <1>2, <2>2, <2>3 DEF Own
  <2>6. entries' \subseteq Record
    <3> HIDE DEF new, Record
    <3> QED BY <1>2, <2>2, <2>3
  <2>7. AppTypes'
    BY <1>2, <2>1, <2>6 DEF AppTypes
  <2> QED BY <1>6, <2>1, <2>4, <2>5, <2>7
<1>7. CASE step = "pull"
  <2>1. entries' = Pulled(a) /\ apps' = apps
    BY <1>7 DEF Do
  <2>2. AppTypes'
    BY <1>2, <2>1 DEF AppTypes, Pulled
  <2>3. \A b \in App \ {a} : Own(b)' = Own(b)
    BY <2>1 DEF Own, Pulled
  <2>4. Own(a)' = {e \in Own(a) : e.kind # "id"}
    BY <2>1 DEF Own, Pulled
  <2> QED BY <1>7, <2>1, <2>2, <2>3, <2>4
<1> QED BY <1>3, <1>4, <1>5, <1>6, <1>7 DEF Steps

LEMMA AppsStep ==
  ASSUME CallsOK, AppsInv, NEW c \in calls, NEW step, AppStep(c, step)
  PROVE  CallsOK' /\ AppsInv' /\ \A op : op # "app" => Calls(op)' = Calls(op)
<1> DEFINE a == c.app
           Does == /\ step \in {"list", "push", "null"} =>
                        /\ apps'[a] = apps[a]
                        /\ \E e : /\ Own(a)' = Own(a) \cup {e} /\ e.name = c.name
                                  /\ step = "list" => e.kind = "id"
                   /\ step = "name" => /\ Own(a)' = Own(a)
                                       /\ apps'[a].state = apps[a].state
                                       /\ apps'[a].name = c.name
                   /\ step = "flag" => /\ Own(a)' = Own(a)
                                       /\ apps'[a].state = "deleted"
                   /\ step = "rename" =>
                        /\ apps'[a] = apps[a]
                        /\ Own(a)' = {IF e.kind = "id" THEN [e EXCEPT !.name = c.name] ELSE e :
                                        e \in Own(a)}
                   /\ step = "pull" => /\ apps'[a] = apps[a]
                                       /\ Own(a)' = {e \in Own(a) : e.kind # "id"}
<1>1. /\ c.op = "app" /\ step \in c.todo /\ Do(c, step)
      /\ Becomes(c, Rest(c, step)) /\ started' = started
      /\ torn' = torn /\ crossed' = crossed
  BY DEF AppStep, history
<1>2. /\ c \in AppsCall /\ c \in CallsOf(a)
      /\ CallsOK'
      /\ \A op : op # "app" => Calls(op)' = Calls(op)
      /\ \A b : b # a => CallsOf(b)' = CallsOf(b)
      /\ \E R : /\ CallsOf(a)' = (CallsOf(a) \ {c}) \cup R
                /\ \A d \in R : d.todo = c.todo \ {step} /\ d.name = c.name
                /\ \A d, e \in R : d = e
                /\ R = {} <=> c.todo = {step}
  BY <1>1, AppMoves
<1>3. a \in App /\ step \in Steps
  BY <1>1, <1>2 DEF AppsCall
<1>4. AppTypes' /\ (\A b \in App \ {a} : Own(b)' = Own(b) /\ apps'[b] = apps[b]) /\ Does
  BY <1>1, <1>2, <1>3, StepDoes DEF AppsInv
<1> HIDE DEF a
<1>5. PICK R : /\ CallsOf(a)' = (CallsOf(a) \ {c}) \cup R
               /\ \A d \in R : d.todo = c.todo \ {step} /\ d.name = c.name
               /\ \A d, e \in R : d = e
               /\ R = {} <=> c.todo = {step}
  BY <1>2
<1>6. ASSUME NEW b \in App \ torn, b # a PROVE Listed(b)' /\ (b \notin crossed' => InOrder(b)')
  BY <1>1, <1>2, <1>4, <1>6, OtherApp DEF AppsInv
<1>7. ASSUME a \notin torn PROVE Listed(a)'
  <2>1. Listed(a)
    BY <1>3, <1>7 DEF AppsInv
  <2>2. (apps'[a].state = apps[a].state /\ step # "flag") \/ (apps'[a].state = "deleted" /\ step = "flag")
    BY <1>3, <1>4 DEF Steps
  <2>3. \A d \in CallsOf(a)' : "pull" \in d.todo => "flag" \in d.todo \/ apps'[a].state = "deleted"
    BY <1>2, <1>5, <2>1, <2>2 DEF Listed
  <2>4. ASSUME apps'[a].state = "live", Own(a)' = {}
        PROVE  \E d \in CallsOf(a)' : "list" \in d.todo \/ "flag" \in d.todo
    <3>1. apps[a].state = "live" /\ step # "flag" /\ step \notin {"list", "push", "null"}
      BY <1>4, <2>2, <2>4
    <3>2. CASE step = "pull"
      <4>1. "flag" \in c.todo
        BY <1>1, <1>2, <2>1, <3>1, <3>2 DEF Listed
      <4> QED BY <1>5, <3>2, <4>1
    <3>3. CASE step # "pull"
      <4>1. Own(a) = {}
        <5>1. step \in {"name", "rename"}
          BY <1>3, <3>1, <3>3 DEF Steps
        <5>2. CASE step = "name"
          BY <1>4, <2>4, <5>2
        <5>3. CASE step = "rename"
          <6>1. Own(a)' = {IF e.kind = "id" THEN [e EXCEPT !.name = c.name] ELSE e : e \in Own(a)}
            BY <1>4, <5>3
          <6> QED BY <2>4, <6>1
        <5> QED BY <5>1, <5>2, <5>3
      <4>2. PICK w \in CallsOf(a) : "list" \in w.todo \/ "flag" \in w.todo
        BY <2>1, <3>1, <4>1 DEF Listed
      <4>3. step # "list"
        BY <3>1
      <4> QED BY <1>5, <3>1, <4>2, <4>3
    <3> QED BY <3>2, <3>3
  <2> QED BY <2>3, <2>4 DEF Listed
<1>8. ASSUME a \notin torn, a \notin crossed PROVE InOrder(a)'
  <2>1. InOrder(a)
    BY <1>3, <1>8 DEF AppsInv
  <2>2. CallsOf(a)' = R
    BY <1>2, <1>5, <2>1 DEF InOrder
  <2>3. \A d, e \in CallsOf(a)' : d = e
    BY <1>5, <2>2
  <2>4. CASE Creating(a, c)
    <3>1. step = "list" /\ R = {} /\ Own(a) = {} /\ apps[a].state = "live" /\ apps[a].name = c.name
      BY <1>1, <1>5, <2>4 DEF Creating
    <3>2. PICK e : Own(a)' = {e} /\ e.name = c.name /\ e.kind = "id" /\ apps'[a] = apps[a]
      BY <1>4, <3>1
    <3> QED BY <2>2, <3>1, <3>2 DEF InOrder
  <2>5. CASE Renaming(a, c)
    <3>1. /\ c.todo \subseteq {"name", "rename"} /\ apps[a].state = "live"
          /\ "name" \notin c.todo => apps[a].name = c.name
          /\ "rename" \notin c.todo => \A e \in Own(a) : e.name = c.name
      BY <2>5 DEF Renaming
    <3>2. /\ apps'[a].state = "live"
          /\ step = "name" => apps'[a].name = c.name /\ Own(a)' = Own(a)
          /\ step = "rename" => apps'[a] = apps[a] /\ \A e \in Own(a)' : e.name = c.name
          /\ \A e, f \in Own(a)' : e = f
          /\ \A e \in Own(a)' : e.kind = "id"
      <4>1. CASE step = "name"
        BY <1>4, <2>1, <3>1, <4>1 DEF InOrder
      <4>2. CASE step = "rename"
        <5>1. \A e \in Own(a) : e.kind = "id" /\ e \in [project : Project, app : App, name : Name,
                      kind : {"id", "document", "null"}]
          BY <2>1 DEF InOrder, AppsInv, AppTypes, Own
        <5>2. Own(a)' = {[e EXCEPT !.name = c.name] : e \in Own(a)}
          BY <1>4, <4>2, <5>1
        <5>3. \A e \in Own(a) : [e EXCEPT !.name = c.name].kind = "id"
                                /\ [e EXCEPT !.name = c.name].name = c.name
          BY <5>1
        <5>4. \A e, f \in Own(a)' : e = f
          <6> SUFFICES ASSUME NEW e \in Own(a)', NEW f \in Own(a)' PROVE e = f
            OBVIOUS
          <6>1. PICK e0 \in Own(a) : e = [e0 EXCEPT !.name = c.name]
            BY <5>2
          <6>2. PICK f0 \in Own(a) : f = [f0 EXCEPT !.name = c.name]
            BY <5>2
          <6>3. e0 = f0
            BY <2>1 DEF InOrder
          <6> DEFINE new(x) == [x EXCEPT !.name = c.name]
          <6>4. e = new(e0) /\ f = new(f0)
            BY <6>1, <6>2
          <6> HIDE DEF new
          <6> QED BY <6>3, <6>4
        <5>5. \A e \in Own(a)' : e.kind = "id" /\ e.name = c.name
          <6> DEFINE new(x) == [x EXCEPT !.name = c.name]
          <6>1. Own(a)' = {new(e) : e \in Own(a)}
            BY <5>2
          <6>2. \A e \in Own(a) : new(e).kind = "id" /\ new(e).name = c.name
            BY <5>3
          <6> HIDE DEF new
          <6> QED BY <6>1, <6>2
        <5>6. apps'[a] = apps[a]
          BY <1>4, <4>2
        <5> QED BY <3>1, <4>2, <5>4, <5>5, <5>6
      <4> QED BY <1>1, <3>1, <4>1, <4>2
    <3>3. step \in {"name", "rename"}
      BY <1>1, <3>1
    <3>4. /\ "name" \notin c.todo \ {step} => apps'[a].name = c.name
          /\ "rename" \notin c.todo \ {step} => \A e \in Own(a)' : e.name = c.name
      BY <3>1, <3>2, <3>3
    <3>5. \A d \in R : Renaming(a, d)'
      <4> SUFFICES ASSUME NEW d \in R PROVE Renaming(a, d)'
        OBVIOUS
      <4>1. d.todo = c.todo \ {step} /\ d.name = c.name /\ c.todo # {step}
        BY <1>5
      <4>2. d.todo # {} /\ d.todo \subseteq {"name", "rename"}
        BY <1>1, <3>1, <4>1
      <4> QED BY <3>2, <3>4, <4>1, <4>2 DEF Renaming
    <3>6. R = {} => \A e \in Own(a)' : apps'[a].state = "live" /\ e.name = apps'[a].name
      BY <1>5, <3>2, <3>4
    <3> QED BY <2>2, <2>3, <3>2, <3>5, <3>6 DEF InOrder
  <2>6. CASE Deleting(a, c)
    <3>1. /\ c.todo \subseteq {"flag", "pull"} /\ apps[a].state # "none"
          /\ "flag" \notin c.todo => apps[a].state = "deleted"
          /\ "pull" \notin c.todo => Own(a) = {}
      BY <2>6 DEF Deleting
    <3>2. step \in {"flag", "pull"}
      BY <1>1, <3>1
    <3>3. /\ step = "flag" => apps'[a].state = "deleted" /\ Own(a)' = Own(a)
          /\ step = "pull" => apps'[a] = apps[a] /\ Own(a)' = {}
      BY <1>4, <2>1 DEF InOrder
    <3>4. /\ \A e, f \in Own(a)' : e = f
          /\ \A e \in Own(a)' : e.kind = "id"
      BY <2>1, <3>2, <3>3 DEF InOrder
    <3>5. /\ apps'[a].state # "none"
          /\ "flag" \notin c.todo \ {step} => apps'[a].state = "deleted"
          /\ "pull" \notin c.todo \ {step} => Own(a)' = {}
      BY <3>1, <3>2, <3>3
    <3>6. \A d \in R : Deleting(a, d)'
      <4> SUFFICES ASSUME NEW d \in R PROVE Deleting(a, d)'
        OBVIOUS
      <4>1. d.todo = c.todo \ {step} /\ c.todo # {step}
        BY <1>5
      <4>2. d.todo # {} /\ d.todo \subseteq {"flag", "pull"}
        BY <1>1, <3>1, <4>1
      <4> QED BY <3>5, <4>1, <4>2 DEF Deleting
    <3>7. R = {} => Own(a)' = {}
      BY <1>5, <3>5
    <3> QED BY <2>2, <2>3, <3>4, <3>6, <3>7 DEF InOrder
  <2> QED BY <1>2, <2>1, <2>4, <2>5, <2>6 DEF InOrder
<1>9. AppsInv'
  BY <1>1, <1>4, <1>6, <1>7, <1>8 DEF AppsInv
<1> QED BY <1>2, <1>9

-----------------------------------------------------------------------------
(***************************************************************************)
(* The log.                                                                *)
(***************************************************************************)
LEMMA LogInit == Init => LogInv
<1> SUFFICES ASSUME Init PROVE LogInv
  OBVIOUS
<1>1. /\ clock = 0 /\ log = [o \in {} |-> 0] /\ opened = {}
      /\ counted = [o \in Open |-> 0] /\ unsent = {} /\ calls = {}
  BY DEF Init
<1>2. DOMAIN log = {}
  BY <1>1
<1>3. log = [o \in DOMAIN log |-> log[o]]
  BY <1>1
<1>4. clock \in 0 .. MaxClock
  BY <1>1, AdministrationAssumption
<1>5. LogTypes
  BY <1>1, <1>2, <1>3, <1>4 DEF LogTypes
<1>6. Calls("gc") = {}
  BY <1>1 DEF Calls
<1> QED BY <1>1, <1>5, <1>6 DEF LogInv, GcOK

LEMMA LogUnchanged ==
  ASSUME LogInv, UNCHANGED <<clock, logVars>>, Calls("gc")' = Calls("gc"), torn \subseteq torn'
  PROVE  LogInv'
<1>1. clock' = clock /\ log' = log /\ opened' = opened /\ counted' = counted /\ unsent' = unsent
  BY DEF logVars
<1>2. LogTypes'
  BY <1>1 DEF LogInv, LogTypes
<1>3. GcOK'
  BY <1>1 DEF LogInv, GcOK, Older
<1>4. \A o \in opened' \ torn' : OpenOK(o)'
  BY <1>1 DEF LogInv, OpenOK
<1> QED BY <1>2, <1>3, <1>4 DEF LogInv

LEMMA LogTick ==
  ASSUME CallsOK, LogInv, Tick
  PROVE  CallsOK' /\ LogInv' /\ \A op : Calls(op)' = Calls(op)
<1>1. /\ clock < MaxClock /\ clock' = clock + 1
      /\ log' = log /\ opened' = opened /\ counted' = counted /\ unsent' = unsent
      /\ calls' = calls /\ started' = started /\ torn' = torn
  BY DEF Tick, logVars, history
<1>2. CallsOK' /\ \A op : Calls(op)' = Calls(op)
  BY <1>1, NoCallMoves
<1>3. clock \in 0 .. MaxClock /\ MaxClock \in Nat /\ \A o \in DOMAIN log : log[o] \in 0 .. clock
  BY AdministrationAssumption DEF LogInv, LogTypes
<1>4. clock' \in 0 .. MaxClock /\ \A o \in DOMAIN log' : log'[o] \in 0 .. clock'
  BY <1>1, <1>3
<1>5. LogTypes'
  BY <1>1, <1>4 DEF LogInv, LogTypes
<1>6. \A c \in Calls("gc") : c.start \in Nat
  BY KindOfCall DEF CallsOK, AnyCall, Calls, GcCall
<1>7. GcOK'
  <2>1. \A c \in Calls("gc") : c.start <= clock'
    BY <1>1, <1>3, <1>6 DEF LogInv, GcOK
  <2> QED BY <1>1, <1>2, <2>1 DEF LogInv, GcOK, Older
<1>8. \A o \in opened' \ torn' : OpenOK(o)'
  BY <1>1, <1>2 DEF LogInv, OpenOK
<1> QED BY <1>2, <1>5, <1>7, <1>8 DEF LogInv

LEMMA LogWriteOpen ==
  ASSUME CallsOK, LogInv, NEW o \in Open, WriteOpen(o)
  PROVE  CallsOK' /\ LogInv' /\ \A op : Calls(op)' = Calls(op)
<1>1. /\ o \notin opened /\ opened' = opened \cup {o}
      /\ log' = [q \in DOMAIN log \cup {o} |-> IF q = o THEN clock ELSE log[q]]
      /\ clock' = clock /\ counted' = counted /\ unsent' = unsent
      /\ calls' = calls /\ started' = started /\ torn' = torn
  BY DEF WriteOpen, history
<1>2. CallsOK' /\ \A op : Calls(op)' = Calls(op)
  BY <1>1, NoCallMoves
<1>3. /\ clock \in Nat /\ opened \subseteq Open /\ unsent \subseteq opened /\ DOMAIN log \subseteq opened
      /\ \A q \in DOMAIN log : log[q] \in 0 .. clock
      /\ \A q \in Open \ opened : counted[q] = 0
      /\ clock \in 0 .. MaxClock /\ counted \in [Open -> Nat]
  BY AdministrationAssumption DEF LogInv, LogTypes
<1>4. /\ DOMAIN log' = DOMAIN log \cup {o} /\ log'[o] = clock
      /\ \A q \in DOMAIN log : log'[q] = log[q]
      /\ log' = [q \in DOMAIN log' |-> log'[q]]
  BY <1>1, <1>3
<1>5. LogTypes'
  BY <1>1, <1>3, <1>4 DEF LogTypes
<1>6. \A c \in Calls("gc") : Older(InfoDays, c.start)' = Older(InfoDays, c.start)
  <2> SUFFICES ASSUME NEW c \in Calls("gc") PROVE Older(InfoDays, c.start)' = Older(InfoDays, c.start)
    OBVIOUS
  <2>1. c.start \in Nat /\ c.start <= clock
    BY KindOfCall DEF CallsOK, AnyCall, Calls, GcCall, LogInv, GcOK
  <2>2. InfoDays \in Nat /\ InfoDays # 0
    BY AdministrationAssumption
  <2>3. ~(clock <= c.start - InfoDays)
    BY <1>3, <2>1, <2>2
  <2> QED BY <1>4, <2>3 DEF Older
<1>7. GcOK'
  BY <1>1, <1>2, <1>6 DEF LogInv, GcOK
<1>8. ASSUME NEW q \in opened' \ torn' PROVE OpenOK(q)'
  <2>1. CASE q = o
    <3>1. counted[o] = 0 /\ o \notin unsent /\ \A c \in Calls("gc") : o \notin c.batch
      BY <1>1, <1>3 DEF LogInv, GcOK
    <3> QED BY <1>1, <1>2, <1>4, <2>1, <3>1 DEF OpenOK
  <2>2. CASE q # o
    <3>1. OpenOK(q)
      BY <1>1, <1>8, <2>2 DEF LogInv
    <3>2. q \in DOMAIN log' <=> q \in DOMAIN log
      BY <1>4, <2>2
    <3> QED BY <1>1, <1>2, <3>1, <3>2 DEF OpenOK
  <2> QED BY <2>1, <2>2
<1> QED BY <1>2, <1>5, <1>7, <1>8 DEF LogInv

LEMMA LogUpdate ==
  ASSUME CallsOK, LogInv, NEW o \in Open, UpdateDevice(o)
  PROVE  CallsOK' /\ LogInv' /\ \A op : Calls(op)' = Calls(op)
<1>1. /\ o \in unsent /\ unsent' = unsent \ {o} /\ counted' = [counted EXCEPT ![o] = @ + 1]
      /\ clock' = clock /\ log' = log /\ opened' = opened
      /\ calls' = calls /\ started' = started /\ torn' = torn
  BY DEF UpdateDevice, history
<1>2. CallsOK' /\ \A op : Calls(op)' = Calls(op)
  BY <1>1, NoCallMoves
<1>3. counted \in [Open -> Nat] /\ unsent \subseteq opened
  BY DEF LogInv, LogTypes
<1>4. /\ counted' \in [Open -> Nat] /\ counted'[o] = counted[o] + 1
      /\ \A q \in Open : q # o => counted'[q] = counted[q]
  BY <1>1, <1>3
<1>5. LogTypes'
  BY <1>1, <1>3, <1>4 DEF LogInv, LogTypes
<1>6. GcOK'
  BY <1>1, <1>2 DEF LogInv, GcOK, Older
<1>7. ASSUME NEW q \in opened' \ torn' PROVE OpenOK(q)'
  <2>1. OpenOK(q) /\ q \in Open
    BY <1>1, <1>7 DEF LogInv, LogTypes
  <2>2. CASE q = o
    BY <1>1, <1>2, <1>4, <2>1, <2>2 DEF OpenOK
  <2>3. CASE q # o
    BY <1>1, <1>2, <1>4, <2>1, <2>3 DEF OpenOK
  <2> QED BY <2>2, <2>3
<1> QED BY <1>2, <1>5, <1>6, <1>7 DEF LogInv

LEMMA LogGc ==
  ASSUME CallsOK, LogInv, Gc
  PROVE  CallsOK' /\ LogInv' /\ \A op : op # "gc" => Calls(op)' = Calls(op)
<1>1. /\ \A c \in calls : c.op # "gc"
      /\ clock' = clock /\ log' = log /\ opened' = opened /\ counted' = counted /\ unsent' = unsent
      /\ torn' = torn
  BY DEF Gc, logVars, history
<1>2. clock \in Nat
  BY AdministrationAssumption DEF LogInv, LogTypes
<1>3. PICK call \in GcCall :
        /\ call.op = "gc" /\ call.start = clock /\ call.batch = {} /\ call.info = "read"
        /\ Begin(call)
  <2> DEFINE new == [id |-> 0, op |-> "gc", start |-> clock, batch |-> {}, info |-> "read", log |-> TRUE]
  <2>1. Begin(new)
    BY DEF Gc
  <2>2. new \in GcCall /\ new.op = "gc" /\ new.start = clock /\ new.batch = {} /\ new.info = "read"
    BY <1>2 DEF GcCall
  <2> HIDE DEF new
  <2> QED BY <2>1, <2>2
<1>4. call \in GcCall /\ call \in AnyCall /\ Begin(call)
  BY <1>3 DEF AnyCall
<1>5. PICK d : /\ d = [call EXCEPT !.id = started + 1] /\ d \in AnyCall
               /\ d.op = call.op
               /\ CallsOK'
               /\ Calls(call.op)' = Calls(call.op) \cup {d}
               /\ \A op : op # call.op => Calls(op)' = Calls(op)
  BY <1>4, CallBegins
<1>6. d.start = clock /\ d.batch = {} /\ d.info = "read"
  <2>1. d.start = call.start /\ d.batch = call.batch /\ d.info = call.info
    BY <1>4, <1>5 DEF GcCall
  <2> QED BY <1>3, <2>1
<1>7. Calls("gc") = {} /\ Calls("gc")' = {d} /\ \A op : op # "gc" => Calls(op)' = Calls(op)
  BY <1>1, <1>3, <1>5 DEF Calls
<1>8. LogTypes'
  BY <1>1 DEF LogInv, LogTypes
<1>9. GcOK'
  BY <1>1, <1>2, <1>6, <1>7 DEF GcOK
<1>10. \A o \in opened' \ torn' : OpenOK(o)'
  BY <1>1, <1>6, <1>7 DEF LogInv, OpenOK
<1> QED BY <1>5, <1>7, <1>8, <1>9, <1>10 DEF LogInv

\* A clean-up goes on or ends; there is no other.
LEMMA GcMoves ==
  ASSUME CallsOK, GcOK, NEW c \in calls, c.op = "gc", NEW next \in GcCall,
         Rests(c, next), started' = started
  PROVE  /\ c \in GcCall /\ Calls("gc") = {c}
         /\ CallsOK' /\ \A op : op # "gc" => Calls(op)' = Calls(op)
         /\ \/ Calls("gc")' = {next}
            \/ Calls("gc")' = {} /\ next.info = "done"
<1>1. c \in GcCall /\ Calls("gc") = {c}
  BY KindOfCall DEF CallsOK, AnyCall, Calls, GcOK
<1>2. CASE next.info = "done" /\ ~next.log
  <2>1. Finish(c)
    BY <1>2 DEF Rests
  <2>2. /\ CallsOK'
        /\ Calls(c.op)' = Calls(c.op) \ {c}
        /\ \A op : op # c.op => Calls(op)' = Calls(op)
    BY <2>1, CallEnds
  <2> QED BY <1>1, <1>2, <2>2
<1>3. CASE ~(next.info = "done" /\ ~next.log)
  <2> DEFINE N == {next}
  <2>1. Becomes(c, N)
    BY <1>3 DEF Rests
  <2>2. \A d \in N : d \in AnyCall /\ d.op = c.op
    BY DEF AnyCall, GcCall
  <2> HIDE DEF N
  <2>3. /\ CallsOK'
        /\ Calls(c.op)' = (Calls(c.op) \ {c}) \cup N
        /\ \A op : op # c.op => Calls(op)' = Calls(op)
    BY <2>1, <2>2, CallMovesOn
  <2>4. Calls("gc")' = {next}
    BY <1>1, <2>3 DEF N
  <2> QED BY <1>1, <2>3, <2>4
<1> QED BY <1>2, <1>3

LEMMA LogAggregate ==
  ASSUME CallsOK, LogInv, NEW c \in calls, Aggregate(c)
  PROVE  CallsOK' /\ LogInv' /\ \A op : op # "gc" => Calls(op)' = Calls(op)
<1> DEFINE B == Older(InfoDays, clock)
           d == [c EXCEPT !.batch = B, !.info = "remove"]
<1>1. /\ c.op = "gc" /\ c.info = "read" /\ unsent' = unsent \cup B
      /\ Becomes(c, {d}) /\ started' = started
      /\ clock' = clock /\ log' = log /\ opened' = opened /\ counted' = counted /\ torn' = torn
  BY DEF Aggregate, Aged, history
<1>2. /\ clock \in Nat /\ opened \subseteq Open /\ DOMAIN log \subseteq opened /\ unsent \subseteq opened
      /\ \A o \in DOMAIN log : log[o] \in Nat
      /\ InfoDays \in Nat /\ counted \in [Open -> Nat]
  BY AdministrationAssumption DEF LogInv, LogTypes
<1>3. B \subseteq DOMAIN log /\ B \subseteq opened
  BY <1>2 DEF Older
<1>4. c \in GcCall /\ Calls("gc") = {c} /\ c.batch = {} /\ c.start <= clock
  BY <1>1, KindOfCall DEF CallsOK, AnyCall, Calls, GcOK, LogInv
<1>5. d \in GcCall /\ d.op = "gc" /\ d.start = c.start /\ d.batch = B /\ d.info = "remove"
  <2> HIDE DEF B
  <2> DEFINE h == [c EXCEPT !.batch = B]
  <2>1. B \in SUBSET Open
    BY <1>2, <1>3
  <2>2. h \in GcCall /\ h.start = c.start /\ h.batch = B
    BY <1>4, <2>1 DEF GcCall
  <2>3. d = [h EXCEPT !.info = "remove"]
    BY <1>4 DEF GcCall
  <2> HIDE DEF h, d
  <2> QED BY <2>2, <2>3 DEF GcCall
<1>6. Older(InfoDays, c.start) \subseteq B
  <2>1. c.start \in Nat
    BY <1>4 DEF GcCall
  <2> QED BY <1>2, <1>4, <2>1 DEF Older
<1> HIDE DEF B, d
<1>7. CallsOK' /\ Calls("gc")' = {d} /\ \A op : op # "gc" => Calls(op)' = Calls(op)
  <2> DEFINE N == {d}
  <2>1. Becomes(c, N) /\ \A e \in N : e \in AnyCall /\ e.op = c.op
    BY <1>1, <1>5 DEF AnyCall
  <2> HIDE DEF N
  <2>2. /\ CallsOK'
        /\ Calls(c.op)' = (Calls(c.op) \ {c}) \cup N
        /\ \A op : op # c.op => Calls(op)' = Calls(op)
    BY <1>1, <2>1, CallMovesOn
  <2> QED BY <1>1, <1>4, <2>2 DEF N
<1>8. LogTypes'
  BY <1>1, <1>2, <1>3 DEF LogInv, LogTypes
<1>9. GcOK'
  <2>1. Older(InfoDays, c.start)' = Older(InfoDays, c.start)
    BY <1>1 DEF Older
  <2>2. \A e, f \in Calls("gc")' : e = f
    BY <1>7
  <2>3. ASSUME NEW e \in Calls("gc")'
        PROVE  /\ e.start <= clock' /\ e.batch \subseteq opened'
               /\ e.info # "remove" => e.batch = {}
               /\ e.info = "remove" => Older(InfoDays, e.start)' \subseteq e.batch
    <3>1. e.start = c.start /\ e.batch = B /\ e.info = "remove"
      BY <1>5, <1>7
    <3>2. Older(InfoDays, e.start)' = Older(InfoDays, c.start)
      BY <1>1, <3>1 DEF Older
    <3> QED BY <1>1, <1>3, <1>4, <1>6, <3>1, <3>2
  <2> QED BY <2>2, <2>3 DEF GcOK
<1>10. ASSUME NEW o \in opened' \ torn' PROVE OpenOK(o)'
  <2>1. OpenOK(o) /\ o \in Open
    BY <1>1, <1>2, <1>10 DEF LogInv
  <2>2. o \in DOMAIN log => counted[o] # 1 /\ o \notin unsent
    BY <1>4, <2>1 DEF OpenOK
  <2>3. CASE o \in B
    <3>1. counted[o] = 0
      BY <1>2, <1>3, <2>1, <2>2, <2>3 DEF OpenOK
    <3> QED BY <1>1, <1>3, <1>5, <1>7, <2>3, <3>1 DEF OpenOK
  <2>4. CASE o \notin B
    BY <1>1, <1>4, <1>5, <1>7, <2>1, <2>2, <2>4 DEF OpenOK
  <2> QED BY <2>3, <2>4
<1> QED BY <1>7, <1>8, <1>9, <1>10 DEF LogInv

\* A clean-up stops minding what it has added up, and some records leave the log.
LEMMA GcShrinks ==
  ASSUME CallsOK, LogInv, NEW c \in calls, c.op = "gc", NEW next \in GcCall,
         Rests(c, next), started' = started,
         next.start = c.start, next.info \in {c.info, "done"},
         next.batch = IF next.info = "done" THEN {} ELSE c.batch,
         NEW S, log' = Without(S),
         UNCHANGED <<clock, opened, counted, unsent>>,
         torn \subseteq torn', torn' \subseteq torn \cup Open,
         \A o \in opened \ torn' : o \in c.batch => o \in next.batch \/ o \in S,
         \A o \in opened \ torn' : o \in S /\ o \in DOMAIN log => o \in c.batch
  PROVE  CallsOK' /\ LogInv' /\ \A op : op # "gc" => Calls(op)' = Calls(op)
<1>1. /\ c \in GcCall /\ Calls("gc") = {c}
      /\ CallsOK' /\ \A op : op # "gc" => Calls(op)' = Calls(op)
      /\ \/ Calls("gc")' = {next}
         \/ Calls("gc")' = {} /\ next.info = "done"
  BY GcMoves DEF LogInv
<1>2. /\ DOMAIN log' = DOMAIN log \ S /\ \A o \in DOMAIN log' : log'[o] = log[o]
      /\ log' = [o \in DOMAIN log' |-> log'[o]]
  BY DEF Without
<1>3. LogTypes'
  BY <1>2 DEF LogInv, LogTypes
<1>4. \A t : Older(InfoDays, t)' \subseteq Older(InfoDays, t)
  BY <1>2 DEF Older
<1>5. GcOK'
  <2>1. c.start <= clock /\ c.batch \subseteq opened
        /\ (c.info # "remove" => c.batch = {})
        /\ (c.info = "remove" => Older(InfoDays, c.start) \subseteq c.batch)
    BY <1>1 DEF LogInv, GcOK
  <2>2. \A e, f \in Calls("gc")' : e = f
    BY <1>1
  <2>3. /\ next.start <= clock' /\ next.batch \subseteq opened'
        /\ next.info # "remove" => next.batch = {}
        /\ next.info = "remove" => Older(InfoDays, next.start)' \subseteq next.batch
    BY <1>4, <2>1
  <2> QED BY <1>1, <2>2, <2>3 DEF GcOK
<1>6. ASSUME NEW o \in opened' \ torn' PROVE OpenOK(o)'
  <2>1. OpenOK(o)
    BY <1>6 DEF LogInv
  <2>2. o \in c.batch => counted[o] = 1 \/ o \in unsent
    BY <1>1, <2>1 DEF OpenOK
  <2>3. o \in DOMAIN log' \/ counted[o] = 1 \/ o \in unsent
    BY <1>2, <1>6, <2>1, <2>2 DEF OpenOK
  <2>4. \A e \in Calls("gc")' : o \in e.batch => o \in c.batch
    BY <1>1
  <2>5. o \in DOMAIN log' /\ (counted[o] = 1 \/ o \in unsent) => \E e \in Calls("gc")' : o \in e.batch
    <3> SUFFICES ASSUME o \in DOMAIN log', counted[o] = 1 \/ o \in unsent
                 PROVE  \E e \in Calls("gc")' : o \in e.batch
      OBVIOUS
    <3>1. o \in DOMAIN log /\ o \notin S
      BY <1>2
    <3>2. o \in c.batch
      BY <1>1, <2>1, <3>1 DEF OpenOK
    <3>3. o \in next.batch
      BY <1>6, <3>1, <3>2
    <3>4. next.info # "done"
      BY <3>3
    <3> QED BY <1>1, <3>3, <3>4
  <2> QED BY <2>1, <2>2, <2>3, <2>4, <2>5 DEF OpenOK
<1> QED BY <1>1, <1>3, <1>5, <1>6 DEF LogInv

LEMMA LogClearInfo ==
  ASSUME CallsOK, LogInv, NEW c \in calls, ClearInfo(c)
  PROVE  /\ CallsOK' /\ LogInv' /\ \A op : op # "gc" => Calls(op)' = Calls(op)
         /\ torn \subseteq torn' /\ torn' \subseteq torn \cup Open
<1> DEFINE S == Older(InfoDays, c.start)
           h == [c EXCEPT !.info = "done"]
           next == [c EXCEPT !.info = "done", !.batch = {}]
<1>1. /\ c.op = "gc" /\ c.info = "remove" /\ log' = Without(S) /\ torn' = torn \cup (c.batch \ S)
      /\ Rests(c, next) /\ started' = started
      /\ UNCHANGED <<clock, opened, counted, unsent>>
  BY DEF ClearInfo
<1>2. c \in GcCall /\ Calls("gc") = {c} /\ S \subseteq c.batch /\ c.batch \subseteq opened
  BY <1>1, KindOfCall DEF CallsOK, AnyCall, Calls, GcOK, LogInv
<1>3. next \in GcCall /\ next.start = c.start /\ next.info = "done" /\ next.batch = {}
  <2>1. h \in GcCall /\ h.start = c.start /\ h.info = "done"
    BY <1>2 DEF GcCall
  <2>2. next = [h EXCEPT !.batch = {}]
    BY <1>2 DEF GcCall
  <2> HIDE DEF h, next
  <2> QED BY <2>1, <2>2 DEF GcCall
<1> HIDE DEF S, next
<1>4. torn \subseteq torn' /\ torn' \subseteq torn \cup Open
  BY <1>1, <1>2 DEF GcCall
<1>5. /\ \A o \in opened \ torn' : o \in c.batch => o \in next.batch \/ o \in S
      /\ \A o \in opened \ torn' : o \in S /\ o \in DOMAIN log => o \in c.batch
  BY <1>1, <1>2
<1>6. CallsOK' /\ LogInv' /\ \A op : op # "gc" => Calls(op)' = Calls(op)
  BY <1>1, <1>3, <1>4, <1>5, GcShrinks
<1> QED BY <1>4, <1>6

LEMMA LogOff ==
  ASSUME NEW c \in GcCall
  PROVE  LET next == [c EXCEPT !.log = FALSE]
         IN  next \in GcCall /\ next.start = c.start /\ next.info = c.info /\ next.batch = c.batch
BY DEF GcCall

LEMMA LogClearLog ==
  ASSUME CallsOK, LogInv, NEW c \in calls, ClearLog(c)
  PROVE  /\ CallsOK' /\ LogInv' /\ \A op : op # "gc" => Calls(op)' = Calls(op)
         /\ torn \subseteq torn' /\ torn' \subseteq torn \cup Open
<1> DEFINE S == Older(LogDays, clock)
           next == [c EXCEPT !.log = FALSE]
<1>1. /\ c.op = "gc" /\ log' = Without(S) /\ torn' = torn \cup (S \ c.batch)
      /\ Rests(c, next) /\ started' = started
      /\ UNCHANGED <<clock, opened, counted, unsent>>
  BY DEF ClearLog
<1>2. c \in GcCall /\ (c.info = "done" => c.batch = {})
  BY <1>1, KindOfCall DEF CallsOK, AnyCall, Calls, GcOK, LogInv
<1>3. next \in GcCall /\ next.start = c.start /\ next.info = c.info /\ next.batch = c.batch
  BY <1>2, LogOff
<1>4. S \subseteq Open
  BY DEF Older, LogInv, LogTypes
<1> HIDE DEF S, next
<1>5. torn \subseteq torn' /\ torn' \subseteq torn \cup Open
  BY <1>1, <1>4
<1>6. /\ \A o \in opened \ torn' : o \in c.batch => o \in next.batch \/ o \in S
      /\ \A o \in opened \ torn' : o \in S /\ o \in DOMAIN log => o \in c.batch
      /\ next.batch = IF next.info = "done" THEN {} ELSE c.batch
  BY <1>1, <1>2, <1>3
<1>7. CallsOK' /\ LogInv' /\ \A op : op # "gc" => Calls(op)' = Calls(op)
  BY <1>1, <1>3, <1>5, <1>6, GcShrinks
<1> QED BY <1>5, <1>7

LEMMA LogGcFails ==
  ASSUME CallsOK, LogInv, NEW c \in calls, GcFails(c)
  PROVE  /\ CallsOK' /\ LogInv' /\ \A op : op # "gc" => Calls(op)' = Calls(op)
         /\ torn \subseteq torn' /\ torn' \subseteq torn \cup Open
<1> DEFINE h == [c EXCEPT !.info = "done"]
           done == [c EXCEPT !.info = "done", !.batch = {}]
           off == [c EXCEPT !.log = FALSE]
           none == {}
<1>1. /\ c.op = "gc" /\ started' = started
      /\ clock' = clock /\ log' = log /\ opened' = opened /\ counted' = counted /\ unsent' = unsent
      /\ \/ c.info # "done" /\ Rests(c, done) /\ torn' = torn \cup c.batch
         \/ c.log /\ Rests(c, off) /\ torn' = torn
  BY DEF GcFails, logVars
<1>2. c \in GcCall /\ c.batch \subseteq Open /\ (c.info = "done" => c.batch = {})
  BY <1>1, KindOfCall DEF CallsOK, AnyCall, Calls, GcCall, GcOK, LogInv
<1>3. done \in GcCall /\ done.start = c.start /\ done.info = "done" /\ done.batch = {}
  <2>1. h \in GcCall /\ h.start = c.start /\ h.info = "done"
    BY <1>2 DEF GcCall
  <2>2. done = [h EXCEPT !.batch = {}]
    BY <1>2 DEF GcCall
  <2> HIDE DEF h, done
  <2> QED BY <2>1, <2>2 DEF GcCall
<1>4. off \in GcCall /\ off.start = c.start /\ off.info = c.info /\ off.batch = c.batch
  BY <1>2, LogOff
<1> HIDE DEF done, off
<1>5. torn \subseteq torn' /\ torn' \subseteq torn \cup Open
  BY <1>1, <1>2
<1>6. log' = Without(none)
  <2>1. log = [o \in DOMAIN log |-> log[o]]
    BY DEF LogInv, LogTypes
  <2>2. DOMAIN log \ none = DOMAIN log
    OBVIOUS
  <2> QED BY <1>1, <2>1, <2>2 DEF Without
<1>7. \A o : o \notin none
  OBVIOUS
<1>8. UNCHANGED <<clock, opened, counted, unsent>>
  BY <1>1
<1> HIDE DEF none
<1>9. CASE Rests(c, done) /\ torn' = torn \cup c.batch
  <2>1. /\ \A o \in opened \ torn' : o \in c.batch => o \in done.batch \/ o \in none
        /\ \A o \in opened \ torn' : o \in none /\ o \in DOMAIN log => o \in c.batch
        /\ done.batch = IF done.info = "done" THEN {} ELSE c.batch
        /\ done.info \in {c.info, "done"}
    BY <1>3, <1>7, <1>9
  <2>2. CallsOK' /\ LogInv' /\ \A op : op # "gc" => Calls(op)' = Calls(op)
    BY <1>1, <1>3, <1>5, <1>6, <1>8, <1>9, <2>1, GcShrinks
  <2> QED BY <1>5, <2>2
<1>10. CASE Rests(c, off) /\ torn' = torn
  <2>1. /\ \A o \in opened \ torn' : o \in c.batch => o \in off.batch \/ o \in none
        /\ \A o \in opened \ torn' : o \in none /\ o \in DOMAIN log => o \in c.batch
        /\ off.batch = IF off.info = "done" THEN {} ELSE c.batch
        /\ off.info \in {c.info, "done"}
    BY <1>2, <1>4, <1>7, <1>10
  <2>2. CallsOK' /\ LogInv' /\ \A op : op # "gc" => Calls(op)' = Calls(op)
    BY <1>1, <1>4, <1>5, <1>6, <1>8, <1>10, <2>1, GcShrinks
  <2> QED BY <1>5, <2>2
<1> QED BY <1>1, <1>9, <1>10

LEMMA LogCrash ==
  ASSUME CallsOK, LogInv, Crash, \A op : Calls(op)' = {}
  PROVE  /\ LogInv' /\ torn \subseteq torn'
         /\ torn' \subseteq torn \cup App \cup Open
<1>1. /\ unsent' = {} /\ clock' = clock /\ log' = log /\ opened' = opened /\ counted' = counted
      /\ torn \subseteq torn' /\ unsent \subseteq torn'
  BY DEF Crash
<1>2. \A c \in Calls("gc") : c.batch \subseteq torn'
  <2> SUFFICES ASSUME NEW c \in calls, c.op = "gc" PROVE c.batch \subseteq torn'
    BY DEF Calls
  <2> DEFINE Batches == {IF d.op = "gc" THEN d.batch ELSE {} : d \in calls}
  <2>1. (UNION Batches) \subseteq torn'
    BY DEF Crash
  <2>2. c.batch \in Batches
    OBVIOUS
  <2> HIDE DEF Batches
  <2> QED BY <2>1, <2>2
<1>3. torn' \subseteq torn \cup App \cup Open
  <2> DEFINE Batches == {IF d.op = "gc" THEN d.batch ELSE {} : d \in calls}
             Crowd == {a \in App : Busy(a)}
  <2>1. torn' = torn \cup unsent \cup (UNION Batches) \cup Crowd
    BY DEF Crash
  <2>2. Crowd \subseteq App /\ unsent \subseteq Open
    BY DEF LogInv, LogTypes
  <2>3. \A B \in Batches : B \subseteq Open
    BY KindOfCall DEF CallsOK, AnyCall, GcCall
  <2> HIDE DEF Batches, Crowd
  <2> QED BY <2>1, <2>2, <2>3
<1>4. LogTypes'
  BY <1>1 DEF LogInv, LogTypes
<1>5. GcOK'
  BY DEF GcOK
<1>6. ASSUME NEW o \in opened' \ torn' PROVE OpenOK(o)'
  <2>1. OpenOK(o) /\ o \notin unsent /\ \A c \in Calls("gc") : o \notin c.batch
    BY <1>1, <1>2, <1>6 DEF LogInv
  <2> QED BY <1>1, <2>1 DEF OpenOK
<1> QED BY <1>1, <1>3, <1>4, <1>5, <1>6 DEF LogInv

-----------------------------------------------------------------------------
(***************************************************************************)
(* The three parts together.                                               *)
(***************************************************************************)
LEMMA AdminInit == Init => AdminInv
<1> SUFFICES ASSUME Init PROVE AdminInv
  OBVIOUS
<1>1. CallsOK
  BY DEF Init, CallsOK
<1> QED BY <1>1, RulesInit, AppsInit, LogInit DEF AdminInv

LEMMA AdminRuleStep ==
  ASSUME AdminInv, CallsOK', RulesInv', \A op : op # "rule" => Calls(op)' = Calls(op),
         UNCHANGED <<clock, appVars, logVars, history>>
  PROVE  AdminInv'
<1>1. torn' = torn /\ crossed' = crossed /\ UNCHANGED appVars /\ UNCHANGED <<clock, logVars>>
  BY DEF history
<1>2. torn' \subseteq App \cup Open
  BY <1>1 DEF AdminInv, AppsInv, AppTypes
<1>3. Calls("app")' = Calls("app") /\ Calls("gc")' = Calls("gc")
  OBVIOUS
<1>4. AppsInv'
  BY <1>1, <1>2, <1>3, AppsUnchanged DEF AdminInv
<1>5. LogInv'
  BY <1>1, <1>3, LogUnchanged DEF AdminInv
<1> QED BY <1>4, <1>5 DEF AdminInv

LEMMA AdminAppStep ==
  ASSUME AdminInv, CallsOK', AppsInv', \A op : op # "app" => Calls(op)' = Calls(op),
         UNCHANGED <<clock, ruleVars, logVars>>, torn \subseteq torn'
  PROVE  AdminInv'
<1>1. Calls("rule")' = Calls("rule") /\ Calls("gc")' = Calls("gc")
  OBVIOUS
<1>2. RulesInv'
  BY <1>1, RulesUnchanged DEF AdminInv
<1>3. LogInv'
  BY <1>1, LogUnchanged DEF AdminInv
<1> QED BY <1>2, <1>3 DEF AdminInv

LEMMA AdminLogStep ==
  ASSUME AdminInv, CallsOK', LogInv', \A op : op # "gc" => Calls(op)' = Calls(op),
         UNCHANGED <<ruleVars, appVars, crossed>>, torn \subseteq torn',
         torn' \subseteq torn \cup Open
  PROVE  AdminInv'
<1>1. Calls("rule")' = Calls("rule") /\ Calls("app")' = Calls("app")
  OBVIOUS
<1>2. RulesInv'
  BY <1>1, RulesUnchanged DEF AdminInv
<1>3. torn' \subseteq App \cup Open
  BY DEF AdminInv, AppsInv, AppTypes
<1>4. AppsInv'
  BY <1>1, <1>3, AppsUnchanged DEF AdminInv
<1> QED BY <1>2, <1>4 DEF AdminInv

LEMMA AdminCrash == ASSUME AdminInv, Crash PROVE AdminInv'
<1>1. CallsOK' /\ RulesInv' /\ \A op : Calls(op)' = {}
  BY RulesCrash DEF AdminInv
<1>2. LogInv' /\ torn' \subseteq torn \cup App \cup Open
  BY <1>1, LogCrash DEF AdminInv
<1>3. torn' \subseteq App \cup Open
  BY <1>2 DEF AdminInv, AppsInv, AppTypes
<1>4. AppsInv'
  BY <1>1, <1>3, AppsCrash DEF AdminInv
<1> QED BY <1>1, <1>2, <1>4 DEF AdminInv

LEMMA AdminStutter == ASSUME AdminInv, UNCHANGED vars PROVE AdminInv'
<1>1. /\ UNCHANGED ruleVars /\ UNCHANGED <<clock, appVars, logVars, history>>
      /\ calls' = calls /\ started' = started
  BY DEF vars, ruleVars, appVars, logVars, history
<1>2. CallsOK' /\ \A op : Calls(op)' = Calls(op)
  BY <1>1, NoCallMoves DEF AdminInv
<1>3. RulesInv'
  BY <1>1, <1>2, RulesUnchanged DEF AdminInv
<1> QED BY <1>1, <1>2, <1>3, AdminRuleStep

LEMMA AdminNext == ASSUME AdminInv, [Next]_vars PROVE AdminInv'
<1> USE DEF AdminInv
<1>1. CASE Tick
  <2>1. CallsOK' /\ LogInv' /\ \A op : Calls(op)' = Calls(op)
    BY <1>1, LogTick
  <2>2. UNCHANGED <<ruleVars, appVars, crossed>> /\ torn' = torn
    BY <1>1 DEF Tick, history
  <2> QED BY <2>1, <2>2, AdminLogStep
<1>2. CASE Crash
  BY <1>2, AdminCrash
<1>3. CASE RestartLogService
  <2>1. CallsOK' /\ RulesInv' /\ \A op : op # "rule" => Calls(op)' = Calls(op)
    BY <1>3, RulesRestart
  <2>2. UNCHANGED <<clock, appVars, logVars, history>>
    BY <1>3 DEF RestartLogService
  <2> QED BY <2>1, <2>2, AdminRuleStep
<1>4. CASE Gc
  <2>1. CallsOK' /\ LogInv' /\ \A op : op # "gc" => Calls(op)' = Calls(op)
    BY <1>4, LogGc
  <2>2. UNCHANGED <<ruleVars, appVars, crossed>> /\ torn' = torn
    BY <1>4 DEF Gc, history
  <2> QED BY <2>1, <2>2, AdminLogStep
<1>5. ASSUME NEW r \in Rule, NEW how \in Change, WriteRule(r, how) PROVE AdminInv'
  <2>1. CallsOK' /\ RulesInv' /\ \A op : op # "rule" => Calls(op)' = Calls(op)
    BY <1>5, RulesWriteRule
  <2>2. UNCHANGED <<clock, appVars, logVars, history>>
    BY <1>5 DEF WriteRule
  <2> QED BY <2>1, <2>2, AdminRuleStep
<1>6. ASSUME NEW a \in App, NEW p \in Project, MoveApp(a, p) PROVE AdminInv'
  <2>1. CallsOK' /\ AppsInv' /\ \A op : op # "app" => Calls(op)' = Calls(op)
    BY <1>6, AppsMove
  <2>2. UNCHANGED <<clock, ruleVars, logVars>> /\ torn' = torn
    BY <1>6 DEF MoveApp
  <2> QED BY <2>1, <2>2, AdminAppStep
<1>7. ASSUME NEW a \in App, NEW p \in Project, NEW n \in Name, CreateApp(a, n, p) PROVE AdminInv'
  <2>1. CallsOK' /\ AppsInv' /\ \A op : op # "app" => Calls(op)' = Calls(op)
    BY <1>7, AppsCreate
  <2>2. UNCHANGED <<clock, ruleVars, logVars>> /\ torn' = torn
    BY <1>7 DEF CreateApp, BeginApp
  <2> QED BY <2>1, <2>2, AdminAppStep
<1>8. ASSUME NEW a \in App, DeleteApp(a) PROVE AdminInv'
  <2>1. CallsOK' /\ AppsInv' /\ \A op : op # "app" => Calls(op)' = Calls(op)
    BY <1>8, AppsDelete
  <2>2. UNCHANGED <<clock, ruleVars, logVars>> /\ torn' = torn
    BY <1>8 DEF DeleteApp, BeginApp
  <2> QED BY <2>1, <2>2, AdminAppStep
<1>9. ASSUME NEW a \in App, NEW n \in Name, RenameApp(a, n) PROVE AdminInv'
  <2>1. CallsOK' /\ AppsInv' /\ \A op : op # "app" => Calls(op)' = Calls(op)
    BY <1>9, AppsRename
  <2>2. UNCHANGED <<clock, ruleVars, logVars>> /\ torn' = torn
    BY <1>9 DEF RenameApp, BeginApp
  <2> QED BY <2>1, <2>2, AdminAppStep
<1>10. ASSUME NEW o \in Open, WriteOpen(o) PROVE AdminInv'
  <2>1. CallsOK' /\ LogInv' /\ \A op : Calls(op)' = Calls(op)
    BY <1>10, LogWriteOpen
  <2>2. UNCHANGED <<ruleVars, appVars, crossed>> /\ torn' = torn
    BY <1>10 DEF WriteOpen, history
  <2> QED BY <2>1, <2>2, AdminLogStep
<1>11. ASSUME NEW o \in Open, UpdateDevice(o) PROVE AdminInv'
  <2>1. CallsOK' /\ LogInv' /\ \A op : Calls(op)' = Calls(op)
    BY <1>11, LogUpdate
  <2>2. UNCHANGED <<ruleVars, appVars, crossed>> /\ torn' = torn
    BY <1>11 DEF UpdateDevice, history
  <2> QED BY <2>1, <2>2, AdminLogStep
<1>12. ASSUME NEW c \in calls, ReadRules(c) PROVE AdminInv'
  <2>1. CallsOK' /\ RulesInv' /\ \A op : op # "rule" => Calls(op)' = Calls(op)
    BY <1>12, RulesRead
  <2>2. UNCHANGED <<clock, appVars, logVars, history>>
    BY <1>12 DEF ReadRules
  <2> QED BY <2>1, <2>2, AdminRuleStep
<1>13. ASSUME NEW c \in calls, InsertRules(c) PROVE AdminInv'
  <2>1. CallsOK' /\ RulesInv' /\ \A op : op # "rule" => Calls(op)' = Calls(op)
    BY <1>13, RulesInsert
  <2>2. UNCHANGED <<clock, appVars, logVars, history>>
    BY <1>13 DEF InsertRules
  <2> QED BY <2>1, <2>2, AdminRuleStep
<1>14. ASSUME NEW c \in calls, SyncFails(c) PROVE AdminInv'
  <2>1. CallsOK' /\ RulesInv' /\ \A op : op # "rule" => Calls(op)' = Calls(op)
    BY <1>14, RulesSyncFails
  <2>2. UNCHANGED <<clock, appVars, logVars, history>>
    BY <1>14 DEF SyncFails
  <2> QED BY <2>1, <2>2, AdminRuleStep
<1>15. ASSUME NEW c \in calls, Aggregate(c) PROVE AdminInv'
  <2>1. CallsOK' /\ LogInv' /\ \A op : op # "gc" => Calls(op)' = Calls(op)
    BY <1>15, LogAggregate
  <2>2. UNCHANGED <<ruleVars, appVars, crossed>> /\ torn' = torn
    BY <1>15 DEF Aggregate, history
  <2> QED BY <2>1, <2>2, AdminLogStep
<1>16. ASSUME NEW c \in calls, ClearInfo(c) PROVE AdminInv'
  <2>1. /\ CallsOK' /\ LogInv' /\ \A op : op # "gc" => Calls(op)' = Calls(op)
        /\ torn \subseteq torn' /\ torn' \subseteq torn \cup Open
    BY <1>16, LogClearInfo
  <2>2. UNCHANGED <<ruleVars, appVars, crossed>>
    BY <1>16 DEF ClearInfo
  <2> QED BY <2>1, <2>2, AdminLogStep
<1>17. ASSUME NEW c \in calls, ClearLog(c) PROVE AdminInv'
  <2>1. /\ CallsOK' /\ LogInv' /\ \A op : op # "gc" => Calls(op)' = Calls(op)
        /\ torn \subseteq torn' /\ torn' \subseteq torn \cup Open
    BY <1>17, LogClearLog
  <2>2. UNCHANGED <<ruleVars, appVars, crossed>>
    BY <1>17 DEF ClearLog
  <2> QED BY <2>1, <2>2, AdminLogStep
<1>18. ASSUME NEW c \in calls, GcFails(c) PROVE AdminInv'
  <2>1. /\ CallsOK' /\ LogInv' /\ \A op : op # "gc" => Calls(op)' = Calls(op)
        /\ torn \subseteq torn' /\ torn' \subseteq torn \cup Open
    BY <1>18, LogGcFails
  <2>2. UNCHANGED <<ruleVars, appVars, crossed>>
    BY <1>18 DEF GcFails
  <2> QED BY <2>1, <2>2, AdminLogStep
<1>19. ASSUME NEW c \in calls, NEW step, AppStep(c, step) PROVE AdminInv'
  <2>1. CallsOK' /\ AppsInv' /\ \A op : op # "app" => Calls(op)' = Calls(op)
    BY <1>19, AppsStep
  <2>2. UNCHANGED <<clock, ruleVars, logVars>> /\ torn' = torn
    BY <1>19 DEF AppStep, history
  <2> QED BY <2>1, <2>2, AdminAppStep
<1>20. ASSUME NEW c \in calls, NEW step, AppStepFails(c, step) PROVE AdminInv'
  <2>1. CallsOK' /\ AppsInv' /\ \A op : op # "app" => Calls(op)' = Calls(op)
    BY <1>20, AppsStepFails
  <2>2. UNCHANGED <<clock, ruleVars, logVars>> /\ torn \subseteq torn'
    BY <1>20 DEF AppStepFails
  <2> QED BY <2>1, <2>2, AdminAppStep
<1>21. CASE UNCHANGED vars
  BY <1>21, AdminStutter
<1> HIDE DEF AdminInv
<1> QED BY <1>1, <1>2, <1>3, <1>4, <1>5, <1>6, <1>7, <1>8, <1>9, <1>10, <1>11, <1>12, <1>13, <1>14,
           <1>15, <1>16, <1>17, <1>18, <1>19, <1>20, <1>21 DEF Next

LEMMA AdminHolds == Spec => []AdminInv
<1>1. AdminInv /\ [Next]_vars => AdminInv'
  BY AdminNext
<1> QED BY AdminInit, <1>1, PTL DEF Spec

LEMMA AdminTypes == AdminInv => TypeOK
<1> SUFFICES ASSUME AdminInv PROVE TypeOK
  OBVIOUS
<1>1. \A k \in Kind : ruleMap[k].rule \in Rule \cup {0} /\ ruleMap[k].on \in BOOLEAN
  <2> SUFFICES ASSUME NEW k \in Kind
               PROVE  ruleMap[k].rule \in Rule \cup {0} /\ ruleMap[k].on \in BOOLEAN
    OBVIOUS
  <2>1. ruleMap[k] \in [rule : Rule \cup {0}, on : BOOLEAN]
    BY DEF AdminInv, RulesInv, RuleTypes, Copy
  <2>2. ruleMap[k].rule \in Rule \cup {0}
    BY <2>1
  <2>3. ruleMap[k].on \in BOOLEAN
    BY <2>1
  <2> QED BY <2>2, <2>3
<1>2. rules \in [Rule -> {"none", "on", "off", "gone"}]
  BY DEF AdminInv, RulesInv, RuleTypes
<1>3. /\ apps \in [App -> [state : {"none", "live", "deleted"}, name : Name]]
      /\ entries \subseteq [project : Project, app : App, name : Name,
                            kind : {"id", "document", "null"}]
      /\ torn \subseteq App \cup Open /\ crossed \subseteq App
  BY DEF AdminInv, AppsInv, AppTypes
<1>4. /\ clock \in 0 .. MaxClock
      /\ DOMAIN log \subseteq opened /\ opened \subseteq Open
      /\ counted \in [Open -> Nat] /\ unsent \subseteq Open
  BY DEF AdminInv, LogInv, LogTypes
<1> QED BY <1>1, <1>2, <1>3, <1>4 DEF TypeOK

(***************************************************************************)
(* The types hold; and when no call is under way and none has failed or    *)
(* been overtaken, the log service's copy hits what the rules say          *)
(* (services/task.rs:131-140, apis/alert.ts:33-38).                        *)
(***************************************************************************)
THEOREM RulesStayFresh == Spec => []RulesAreFresh
<1>1. AdminInv => RulesAreFresh
  <2> SUFFICES ASSUME AdminInv PROVE RulesAreFresh
    OBVIOUS
  <2>1. CallsOK /\ RulesInv
    BY DEF AdminInv
  <2> QED BY <2>1, AdminTypes, RulesHold DEF RulesAreFresh
<1> QED BY <1>1, AdminHolds, PTL

(***************************************************************************)
(* For any number of apps, projects and calls, an app that is live is      *)
(* listed once nothing is under way for it, and an app whose calls did not *)
(* overlap is listed exactly while it is live, once and under its name     *)
(* (apis/app.ts).                                                          *)
(***************************************************************************)
THEOREM CatalogStays == Spec => []CatalogIsKept
<1>1. ASSUME AdminInv, NEW a \in App, ~Busy(a), a \notin torn
      PROVE  /\ apps[a].state = "live" => Own(a) # {}
             /\ a \notin crossed =>
                  Own(a) = {e \in Own(a) : apps[a].state = "live" /\ e.name = apps[a].name}
             /\ a \notin crossed => Cardinality(Own(a)) <= 1
  <2>1. CallsOf(a) = {} /\ Listed(a) /\ (a \notin crossed => InOrder(a))
    BY <1>1, BusyIs DEF AdminInv, AppsInv
  <2>2. apps[a].state = "live" => Own(a) # {}
    BY <2>1 DEF Listed
  <2>3. a \notin crossed =>
          Own(a) = {e \in Own(a) : apps[a].state = "live" /\ e.name = apps[a].name}
    BY <2>1 DEF InOrder
  <2>4. ASSUME a \notin crossed PROVE Cardinality(Own(a)) <= 1
    <3>1. CASE Own(a) = {}
      BY <3>1, FS_EmptySet
    <3>2. CASE Own(a) # {}
      <4>1. PICK e : Own(a) = {e}
        BY <2>1, <2>4, <3>2 DEF InOrder
      <4> QED BY <4>1, FS_Singleton
    <3> QED BY <3>1, <3>2
  <2> QED BY <2>2, <2>3, <2>4
<1>2. AdminInv => CatalogIsKept
  BY <1>1 DEF CatalogIsKept, Own
<1> QED BY <1>2, AdminHolds, PTL

(***************************************************************************)
(* For any number of openings and of nights: each goes into total_open at  *)
(* most once, and before its record leaves the log, unless a fault hits    *)
(* the clean-up or the record ages in it (main.ts:152-163,                 *)
(* model/device.ts:19-69).                                                 *)
(***************************************************************************)
THEOREM OpensAreCounted == Spec => []OpensCountedOnce
<1>1. AdminInv => OpensCountedOnce
  BY DEF AdminInv, LogInv, OpenOK, OpensCountedOnce
<1> QED BY <1>1, AdminHolds, PTL

-----------------------------------------------------------------------------
(***************************************************************************)
(* McpServer.  What the deploy tool is about to act on is the one task it   *)
(* found under the name.                                                    *)
(***************************************************************************)
PlanEntry ==
  [words : SUBSET Words, state : {"none", "pending", "ended", "aborted"}, by : SUBSET Plan]

PlanInv ==
  /\ plan \in [Plan -> PlanEntry]
  /\ tool.phase = "act" => tool.task \in Plan /\ tool.found = {tool.task}
  /\ OnlyTheNamedTask

LEMMA PlanStart == McpInit => PlanInv
BY DEF McpInit, PlanInv, PlanEntry, OnlyTheNamedTask, NoTool

LEMMA EndsKeeps ==
  ASSUME NEW told, Ends(told), plan' \in [Plan -> PlanEntry], OnlyTheNamedTask'
  PROVE  PlanInv'
BY DEF Ends, PlanInv, NoTool

LEMMA PlanStep == PlanInv /\ [McpNext]_mcpVars => PlanInv'
<1> SUFFICES ASSUME PlanInv, [McpNext]_mcpVars PROVE PlanInv'
  OBVIOUS
<1>1. ASSUME UNCHANGED plan PROVE plan' \in [Plan -> PlanEntry] /\ OnlyTheNamedTask'
  BY <1>1 DEF PlanInv, OnlyTheNamedTask
<1>2. ASSUME UNCHANGED plan, UNCHANGED tool \/ tool'.phase # "act" PROVE PlanInv'
  BY <1>2 DEF PlanInv, OnlyTheNamedTask
<1>3. CASE Initialize \/ Shutdown \/ (\E s \in transports : OnClose(s)) \/ ClearErrors
           \/ UNCHANGED mcpVars
  BY <1>2, <1>3 DEF Initialize, Shutdown, OnClose, ClearErrors, mcpVars, NoTool
<1>4. ASSUME NEW s \in transports, NEW action, NEW word, CallDeploy(s, action, word) PROVE PlanInv'
  BY <1>2, <1>4 DEF CallDeploy, McpPostHandler
<1>5. ASSUME NEW s \in transports, NEW fp, CallFingerprint(s, fp) PROVE PlanInv'
  BY <1>2, <1>5 DEF CallFingerprint, McpPostHandler
<1>6. CASE ListTasks
  <2> DEFINE found == TasksNamed(tool.word)
  <2>1. found \subseteq Plan
    BY DEF TasksNamed
  <2>2. UNCHANGED plan /\ tool.phase = "list"
    BY <1>6 DEF ListTasks
  <2>3. CASE \E told : Ends(told)
    BY <1>1, <2>2, <2>3, EndsKeeps
  <2>4. CASE /\ Sole(found)
             /\ Moves([phase |-> "act", session |-> tool.session, action |-> tool.action,
                       found |-> found, task |-> CHOOSE t \in found : TRUE])
    <3>1. PICK x : found = {x}
      <4>1. IsFiniteSet(found)
        BY <2>1, McpAssumption, FS_Subset DEF McpAssumption
      <4>2. Cardinality(found) = 1
        BY <2>4 DEF Sole
      <4> HIDE DEF found
      <4> QED BY <4>1, <4>2, FS_Singleton
    <3>2. (CHOOSE t \in found : TRUE) = x
      BY <3>1
    <3> HIDE DEF found
    <3>3. tool'.task = x /\ tool'.found = {x} /\ x \in Plan
      BY <2>1, <2>4, <3>1, <3>2 DEF Moves
    <3> QED BY <1>1, <2>2, <3>3 DEF PlanInv
  <2> HIDE DEF found
  <2> QED BY <1>6, <2>3, <2>4 DEF ListTasks, found
<1>7. CASE ActOnTask
  <2> DEFINE t == tool.task
             Acted(state) == [plan EXCEPT ![t].state = state, ![t].by = tool.found]
  <2>1. t \in Plan /\ tool.found = {t} /\ plan \in [Plan -> PlanEntry]
    BY <1>7 DEF ActOnTask, PlanInv
  <2>2. UNCHANGED plan \/ \E state \in {"pending", "ended", "aborted"} : plan' = Acted(state)
    BY <1>7 DEF ActOnTask, ByAgent
  <2>3. PICK told : Ends(told)
    BY <1>7 DEF ActOnTask
  <2>4. ASSUME NEW state \in {"pending", "ended", "aborted"}, plan' = Acted(state)
        PROVE  plan' \in [Plan -> PlanEntry] /\ OnlyTheNamedTask'
    <3>1. /\ plan' \in [Plan -> PlanEntry]
          /\ plan'[t].by = {t}
          /\ \A u \in Plan : u # t => plan'[u] = plan[u]
      BY <2>1, <2>4 DEF PlanEntry
    <3> HIDE DEF t
    <3> QED BY <3>1 DEF PlanInv, OnlyTheNamedTask
  <2> QED BY <1>1, <2>2, <2>3, <2>4, EndsKeeps
<1>8. CASE QueryError
  <2>1. UNCHANGED plan
    BY <1>8 DEF QueryError
  <2>2. CASE \E told : Ends(told)
    BY <1>1, <2>1, <2>2, EndsKeeps
  <2>3. CASE \E e : Moves([phase |-> "networks", session |-> tool.session, fp |-> tool.fp, error |-> e])
    BY <1>2, <2>1, <2>3 DEF Moves
  <2> QED BY <1>8, <2>2, <2>3 DEF QueryError
<1>9. CASE QueryNetworks \/ Throws
  <2>1. UNCHANGED plan /\ \E told : Ends(told)
    BY <1>9 DEF QueryNetworks, Throws
  <2> QED BY <1>1, <2>1, EndsKeeps
<1>10. ASSUME NEW t \in Plan, NEW words \in SUBSET Words, NEW state \in {"none", "pending", "ended"},
              Plans(t, words, state)
       PROVE  PlanInv'
  <2>1. plan \in [Plan -> PlanEntry] /\ UNCHANGED tool
        /\ plan' = [plan EXCEPT ![t] = [words |-> words, state |-> state, by |-> {}]]
    BY <1>10 DEF Plans, PlanInv
  <2>2. plan' \in [Plan -> PlanEntry]
    BY <2>1 DEF PlanEntry
  <2>3. plan'[t].by = {} /\ \A u \in Plan : u # t => plan'[u] = plan[u]
    BY <2>1
  <2> QED BY <2>1, <2>2, <2>3 DEF PlanInv, OnlyTheNamedTask
<1>11. ASSUME NEW fp, NEW uuid, NEW stamp, Reports(fp, uuid, stamp) PROVE PlanInv'
  BY <1>2, <1>11 DEF Reports
<1> QED BY <1>3, <1>4, <1>5, <1>6, <1>7, <1>8, <1>9, <1>10, <1>11 DEF McpNext

(***************************************************************************)
(* For any plan and any names: a task that an agent's tool changed was the *)
(* only one of the name it gave when it was looked up, whatever the other  *)
(* users and the tasks themselves do meanwhile (mcp-server/src/main.ts).   *)
(***************************************************************************)
THEOREM OnlyTheNamedTaskIsDeployed == McpInit /\ [][McpNext]_mcpVars => []OnlyTheNamedTask
<1>1. PlanInv /\ [McpNext]_mcpVars => PlanInv'
  BY PlanStep
<1>2. PlanInv => OnlyTheNamedTask
  BY DEF PlanInv
<1> QED BY PlanStart, <1>1, <1>2, PTL
=============================================================================
