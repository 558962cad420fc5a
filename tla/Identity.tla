------------------------------ MODULE Identity ------------------------------
(***************************************************************************)
(* Under which device and which session the records are filed              *)
(* (core/src/utils.ts getUuid, getSessionId, resetSessionId,               *)
(* storageReport).  The device is in the local storage, which the tabs of  *)
(* a browser share and which tabs in different processes read and write at *)
(* the same time; the session is in the storage of the tab, which a tab    *)
(* that is opened by another one copies.  A mini-program keeps both in its *)
(* one storage and starts a session itself when the collect plugin starts. *)
(* The storage may stop working, and work again, at any time.              *)
(***************************************************************************)
EXTENDS Integers, Sequences, FiniteSets, SequencesExt

CONSTANTS
  Tab,         \* of a browser; a mini-program has one
  FirstTab,    \* that one
  MaxLoads,    \* bound on the loads, over all tabs
  MaxRecords   \* bound on the records

VARIABLES
  platform,    \* "web" or "mp"
  collect,     \* the option: whether the collect plugin runs
  works,       \* whether the storages answer
  broken,      \* history: whether they ever did not
  uuidKey,     \* the device in the local storage, 0 if there is none
  sessionKey,  \* per tab, the session in its storage
  tab,         \* per tab: its load and what that load has cached
  minted,      \* the number of identifiers made so far
  makers,      \* history: the loads that made a device
  filed,       \* history: every record, with its load
  loads        \* history: what was stored when each load began

identityVars ==
  <<platform, collect, works, broken, uuidKey, sessionKey, tab, minted, makers,
    filed, loads>>

NoId == 0
NeverLoaded == [load |-> 0, cachedUuid |-> NoId, cachedSessionId |-> NoId,
                fresh |-> NoId, busy |-> FALSE]

IdentityInit ==
  /\ platform \in {"web", "mp"} /\ collect \in BOOLEAN
  /\ works = TRUE /\ broken = FALSE
  /\ uuidKey = NoId /\ sessionKey = [t \in Tab |-> NoId]
  /\ tab = [t \in Tab |-> NeverLoaded]
  /\ minted = 0 /\ makers = {}
  /\ filed = <<>> /\ loads = <<>>

GetLocalStorage(value) == IF works THEN value ELSE NoId
SetLocalStorage(old, new) == IF works THEN new ELSE old

(* A load begins with empty caches.  The collect plugin of a mini-program   *)
(* removes the session of the last launch before anything is reported.      *)
ResetSessionId(old) ==
  IF platform = "mp" /\ collect THEN SetLocalStorage(old, NoId) ELSE old

Load(t, inherited, kind) ==
  /\ Len(loads) < MaxLoads
  /\ sessionKey' = [sessionKey EXCEPT ![t] = ResetSessionId(inherited)]
  /\ tab' = [tab EXCEPT ![t] = [NeverLoaded EXCEPT !.load = Len(loads) + 1]]
  /\ loads' = Append(loads,
       [tab |-> t, kind |-> kind, uuid |-> uuidKey, session |-> inherited])
  /\ UNCHANGED <<platform, collect, works, broken, uuidKey, minted, makers, filed>>

OpenTab(t) ==
  /\ tab[t].load = 0 /\ (platform = "mp" => t = FirstTab)
  /\ Load(t, NoId, "opened")

OpenedBy(t, opener) ==
  /\ platform = "web" /\ tab[t].load = 0 /\ tab[opener].load # 0
  /\ Load(t, sessionKey[opener], "copied")

Reload(t) == tab[t].load # 0 /\ ~tab[t].busy /\ Load(t, sessionKey[t], "again")

(* A tab reports: it looks for the device first.  Another tab may run       *)
(* between the look and what is written.                                    *)
GetUuid(t) ==
  /\ tab[t].load # 0 /\ ~tab[t].busy /\ Len(filed) < MaxRecords
  /\ LET known == IF tab[t].cachedUuid # NoId THEN tab[t].cachedUuid
                  ELSE GetLocalStorage(uuidKey)
     IN  IF known # NoId
         THEN /\ tab' = [tab EXCEPT ![t].cachedUuid = known, ![t].busy = TRUE]
              /\ UNCHANGED <<minted, makers>>
         ELSE /\ minted' = minted + 1 /\ makers' = makers \cup {tab[t].load}
              /\ tab' = [tab EXCEPT ![t].fresh = minted + 1, ![t].busy = TRUE]
  /\ UNCHANGED <<platform, collect, works, broken, uuidKey, sessionKey, filed, loads>>

WriteUuid(t) ==
  /\ tab[t].busy /\ tab[t].fresh # NoId
  /\ uuidKey' = SetLocalStorage(uuidKey, tab[t].fresh)
  /\ tab' = [tab EXCEPT ![t].cachedUuid = tab[t].fresh, ![t].fresh = NoId]
  /\ UNCHANGED <<platform, collect, works, broken, sessionKey, minted, makers, filed, loads>>

(* The session: cached, kept, or made and kept if that is possible.         *)
SessionOf(t) ==
  IF tab[t].cachedSessionId # NoId THEN tab[t].cachedSessionId
  ELSE IF GetLocalStorage(sessionKey[t]) # NoId THEN sessionKey[t] ELSE minted + 1

RememberNothing(t, session) == [tab EXCEPT ![t].busy = FALSE]
Remember(t, session) ==
  [tab EXCEPT ![t].cachedSessionId = session, ![t].busy = FALSE]

StorageReport(t) ==
  /\ tab[t].busy /\ tab[t].fresh = NoId
  /\ LET session == SessionOf(t) IN
     /\ tab' = Remember(t, session)
     /\ minted' = IF session = minted + 1 THEN session ELSE minted
     /\ sessionKey' = IF session = minted + 1
                      THEN [sessionKey EXCEPT ![t] = SetLocalStorage(@, session)]
                      ELSE sessionKey
     /\ filed' = Append(filed, [load |-> tab[t].load, uuid |-> tab[t].cachedUuid,
                                session |-> session])
  /\ UNCHANGED <<platform, collect, works, broken, uuidKey, makers, loads>>

(* The storage fails once, at any time, and perhaps works again.            *)
Break ==
  /\ works => ~broken
  /\ works' = ~works /\ broken' = TRUE
  /\ UNCHANGED <<platform, collect, uuidKey, sessionKey, tab, minted, makers, filed, loads>>

IdentityNext ==
  \/ \E t \in Tab :
       \/ OpenTab(t) \/ Reload(t) \/ GetUuid(t) \/ WriteUuid(t) \/ StorageReport(t)
       \/ \E opener \in Tab : OpenedBy(t, opener)
  \/ Break

-----------------------------------------------------------------------------
(* Whatever the storage and the other tabs do, the records of one load are  *)
(* filed under one device and one session (utils.ts:115 and 143).           *)
OneIdentityPerLoad ==
  \A r, q \in ToSet(filed) : r.load = q.load => r.uuid = q.uuid /\ r.session = q.session

(* With a storage that works, a second device is made only by a load that   *)
(* began before the first was stored: two tabs that are the first of a      *)
(* browser may each make one.                                               *)
DevicesAreShared ==
  ~broken => /\ \A m \in makers : loads[m].uuid = NoId
             /\ Cardinality({r.uuid : r \in ToSet(filed)}) <= Cardinality(makers)

(* With a storage that works, a session lasts as long as the tab, also over *)
(* reloads, and is shared only with a tab it opened; in a mini-program it   *)
(* lasts as long as the launch, unless the collect plugin is off.           *)
SessionsAreOfTheirTab ==
  ~broken => \A r, q \in ToSet(filed) :
    IF platform = "mp" THEN (r.session = q.session) = (~collect \/ r.load = q.load)
    ELSE /\ loads[r.load].tab = loads[q.load].tab => r.session = q.session
         /\ (r.session = q.session /\ loads[r.load].tab # loads[q.load].tab)
              => \E l \in DOMAIN loads : loads[l].kind = "copied"

RecordsAreFiled == OneIdentityPerLoad /\ DevicesAreShared /\ SessionsAreOfTheirTab
=============================================================================
