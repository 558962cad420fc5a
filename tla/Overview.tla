------------------------------ MODULE Overview ------------------------------
(***************************************************************************)
(* What the overview of an application counts: its opens and its devices   *)
(* (server/src/apis/app.ts, GET statistics and GET chart) and the pie of a *)
(* chart (server/src/apis/statistics.ts), while devices report.  The       *)
(* statistics are four queries one after another, each chart is one.       *)
(* The day that counts as yesterday is written in the code.                *)
(***************************************************************************)
EXTENDS Integers, Sequences, FiniteSets, SequencesExt, Functions

CONSTANTS
  Visitors,    \* devices
  Profiles,    \* what a device says of itself: its system [on] and brand [db]
  Hours,       \* when an open may happen, in hours of UTC
  FixedDay,    \* the hours of the day that counts as yesterday
  MaxOpens     \* bound on the opens

VARIABLES
  opens,       \* the COLLECT_INFO records, oldest first
  statistics   \* GET statistics: what it has counted and when it began

overviewVars == <<opens, statistics>>

NotAsked == [phase |-> "idle", began |-> 0, ended |-> 0, totalOpen |-> 0,
             yesterdayTotalOpen |-> 0, total |-> 0, yesterdayTotal |-> 0]

OverviewInit == opens = <<>> /\ statistics = NotAsked

Sum(f) == FoldFunction(LAMBDA a, b : a + b, 0, f)

-----------------------------------------------------------------------------
(* A device opens the application; it may have changed since the last time. *)
OpenedWith(uuid, on, db, hour) ==
  /\ Len(opens) < MaxOpens
  /\ opens' = Append(opens, [uuid |-> uuid, on |-> on, db |-> db, hour |-> hour])
  /\ UNCHANGED statistics

(* The first record of each device, in the order they are read.             *)
UnionList(list) ==
  FoldLeft(LAMBDA kept, r : IF \E k \in ToSet(kept) : k.uuid = r.uuid THEN kept
                            ELSE Append(kept, r), <<>>, list)

Yesterday == SelectSeq(opens, LAMBDA r : r.hour \in FixedDay)
CountOf(list, Test(_)) == Len(SelectSeq(list, Test))

Tells(phase, numbers) == statistics' = [numbers EXCEPT !.phase = phase] /\ UNCHANGED opens

GetStatistics ==
  CASE statistics.phase = "idle" ->
         Tells("yesterday", [NotAsked EXCEPT !.began = Len(opens), !.totalOpen = Len(opens)])
    [] statistics.phase = "yesterday" ->
         Tells("devices", [statistics EXCEPT !.yesterdayTotalOpen = Len(Yesterday)])
    [] statistics.phase = "devices" ->
         Tells("last", [statistics EXCEPT !.total = Len(UnionList(opens))])
    [] statistics.phase = "last" ->
         Tells("told", [statistics EXCEPT !.yesterdayTotal = Len(UnionList(Yesterday)),
                                            !.ended = Len(opens)])
    [] OTHER -> Tells("idle", NotAsked)

OverviewNext ==
  \/ \E uuid \in Visitors, is \in Profiles, hour \in Hours :
       OpenedWith(uuid, is.on, is.db, hour)
  \/ GetStatistics

-----------------------------------------------------------------------------
(* GET chart: opens per day and per hour of the day, in the time of UTC+8.  *)
DayOf(r)  == (r.hour + 8) \div 24
HourOf(r) == (r.hour + 8) % 24
GroupBy(keys) == [k \in ToSet(keys) |-> CountOf(keys, LAMBDA key : key = k)]
TotalOpenTrend     == GroupBy([i \in DOMAIN opens |-> DayOf(opens[i])])
YesterdayOpenTrend == GroupBy([i \in DOMAIN Yesterday |-> HourOf(Yesterday[i])])

DeviceType ==
  [on \in {"android", "ios"} |-> CountOf(UnionList(opens), LAMBDA r : r.on = on)]
DeviceBrand ==
  LET union == UnionList(opens) IN GroupBy([i \in DOMAIN union |-> union[i].db])

(* The pie of a chart: a device counts once for each value it ever gave.    *)
QueryPie(dimension) ==
  LET distinct == {<<r.uuid, r[dimension]>> : r \in ToSet(opens)}
  IN  [name \in {d[2] : d \in distinct} |-> Cardinality({d \in distinct : d[2] = name})]

-----------------------------------------------------------------------------
DevicesOf(records) == Cardinality({r.uuid : r \in records})

(* The charts say the same of the same records: the days of the trend add   *)
(* up to the opens, the brands to the devices, and the systems to no more   *)
(* than those; a device that never changed is once in the pie, and none is  *)
(* missing from it.                                                         *)
ChartsAgree ==
  LET devices == DevicesOf(ToSet(opens)) IN
  /\ Sum(TotalOpenTrend) = Len(opens)
  /\ Sum(YesterdayOpenTrend) = Len(Yesterday)
  /\ Sum(DeviceBrand) = devices
  /\ Sum(DeviceType) <= devices
  /\ Sum(QueryPie("db")) >= devices
  /\ (Sum(QueryPie("db")) = devices
       <=> \A r, q \in ToSet(opens) : r.uuid = q.uuid => r.db = q.db)

(* The statistics are counted while devices report: each number is one the  *)
(* records had at some time between the first query and the last.  So those *)
(* of yesterday may be above those of all days, by what came in between.    *)
StatisticsAreOfTheTime ==
  statistics.phase = "told" =>
    LET s == statistics
        first == SubSeq(opens, 1, s.began)
        all   == SubSeq(opens, 1, s.ended)
        Past(list) == SelectSeq(list, LAMBDA r : r.hour \in FixedDay)
        NumberOf(list) == DevicesOf(ToSet(list))
    IN  /\ s.totalOpen = s.began
        /\ s.total \in NumberOf(first) .. NumberOf(all)
        /\ s.yesterdayTotalOpen \in Len(Past(first)) .. Len(Past(all))
        /\ s.yesterdayTotal \in NumberOf(Past(first)) .. NumberOf(Past(all))

OverviewAddsUp == ChartsAgree /\ StatisticsAreOfTheTime
=============================================================================
