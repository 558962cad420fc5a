---------------------------- MODULE FcpAnalysis ----------------------------
(***************************************************************************)
(* First-paint reports, from the browser to the console: the requests that *)
(* PerfPlugin attaches to a report (perf.ts), what the server makes of     *)
(* reports of every SDK version (record.ts), and the timeline that draws   *)
(* one of them (FcpTimeline.vue).                                          *)
(*                                                                         *)
(* Times are tenths of a millisecond; what the browser rounds to a         *)
(* millisecond is a multiple of ten.  Percentages are tenths of a percent. *)
(* Absent is a number that is missing or no number.                        *)
(***************************************************************************)
EXTENDS Integers, Sequences, FiniteSets, SequencesExt, FiniteSetsExt

CONSTANTS
  FcpThreshold,      \* fcpThreshold: loads that paint later name their requests
  MaxPerfResources,  \* MAX_PERF_RESOURCES, two phases of half as many
  MaxAnalysed,       \* MAX_FCP_ANALYSIS_RECORDS
  MaxListed,         \* the requests the analysis lists, 30
  Loads,             \* the page loads that are analysed: when the first and
                     \* the largest paint came, and the browser's entries
  MaxFcpReports      \* bound on the reports

ASSUME FcpAssumption ==
  /\ FcpThreshold \in Nat /\ MaxListed \in Nat
  /\ MaxPerfResources \in {2 * n : n \in 1 .. 100}

VARIABLES
  fcpReports,  \* the stored reports
  lastLoad     \* history: the load behind the last one, of this version

fcpVars == <<fcpReports, lastLoad>>

Absent == -1
Before == "before-fcp"
After  == "after-fcp"

Rounded(t) == ((t + 5) \div 10) * 10
Larger(a, b)  == IF a > b THEN a ELSE b
Smaller(a, b) == IF a < b THEN a ELSE b
Valid(value, fallback) == IF value >= 0 THEN value ELSE fallback

-----------------------------------------------------------------------------
(***************************************************************************)
(* perf.ts.  A resource entry has no end when the browser withholds it;    *)
(* requestStart is zero for another origin.  The browser gives an entry    *)
(* more than once: to the observer and when it is asked.                   *)
(***************************************************************************)
ResourceEntryKey(entry) == <<entry.url, entry.start, Valid(entry.end, 0)>>

RememberResourceEntries(entries) ==
  FoldLeft(LAMBDA kept, e :
             IF \A k \in DOMAIN kept : ResourceEntryKey(kept[k]) # ResourceEntryKey(e)
             THEN Append(kept, e)
             ELSE [k \in DOMAIN kept |->
                     IF ResourceEntryKey(kept[k]) = ResourceEntryKey(e) THEN e ELSE kept[k]],
           <<>>, entries)

ToResourceTiming(entry, fcp) ==
  LET duration == Valid(entry.duration, 0)
      end      == IF Valid(entry.end, 0) > 0 THEN entry.end
                  ELSE entry.start + duration
      PhaseAt(t) == IF fcp = Absent THEN "unknown"
                    ELSE IF t <= fcp THEN Before ELSE After
  IN  [url |-> entry.url, type |-> entry.type,
       phase |-> PhaseAt(entry.start), responsePhase |-> PhaseAt(end),
       startTime |-> Rounded(entry.start), responseEnd |-> Rounded(end),
       responseTime |-> IF entry.request > 0
                        THEN Larger(0, Rounded(end - entry.request)) ELSE Absent,
       duration |-> Larger(0, Rounded(IF duration > 0 THEN duration
                                      ELSE end - entry.start))]

InPhase(resources, phase) == SelectSeq(resources, LAMBDA r : r.phase = phase)
ByStart(resources) == SortSeq(resources, LAMBDA a, b : a.startTime < b.startTime)

\* The last to start before the paint, and the first after it; the first of
\* all when nothing was painted.
LimitResources(resources) ==
  LET half   == MaxPerfResources \div 2
      before == InPhase(resources, Before)
      after  == InPhase(resources, After)
  IN  IF Len(resources) <= MaxPerfResources THEN resources
      ELSE IF before \o after = <<>> THEN SubSeq(resources, 1, MaxPerfResources)
      ELSE SubSeq(before, Larger(1, Len(before) - half + 1), Len(before))
           \o SubSeq(after, 1, Smaller(half, Len(after)))

\* What starts after the largest paint is left out.
CollectResourceTimings(entries, fcp, lcp) ==
  LET seen == SelectSeq(RememberResourceEntries(entries), LAMBDA e : e.start <= lcp)
      all  == ByStart([i \in DOMAIN seen |-> ToResourceTiming(seen[i], fcp)])
  IN  [count |-> Len(all), resources |-> LimitResources(all)]

-----------------------------------------------------------------------------
(***************************************************************************)
(* record.ts.  Version 2 reports fcp; before it fcpMs, or a value that was *)
(* multiplied by a thousand.                                               *)
(***************************************************************************)
FirstPaint(data) ==
  IF data.perfVersion >= 2 /\ data.fcp >= 0 THEN data.fcp
  ELSE IF data.fcpMs > 0 THEN data.fcpMs
  ELSE IF data.fcp > 0 THEN data.fcp \div 1000
  ELSE 0

\* An older report has no phase.
Phase(resource, fcp) ==
  IF resource.phase \in {Before, After} THEN resource.phase
  ELSE IF resource.startTime > 0
  THEN (IF resource.startTime <= fcp THEN Before ELSE After)
  ELSE "unknown"

ToFcpSample(doc) ==
  LET fcp == FirstPaint(doc.data)
  IN  [day |-> doc.day, fcp |-> fcp,
       resources |-> [i \in DOMAIN doc.data.resources |->
         [doc.data.resources[i] EXCEPT !.phase = Phase(doc.data.resources[i], fcp)]],
       resourceCount |-> Valid(doc.data.count, Len(doc.data.resources))]

\* GET /record/fcp-analysis: the newest documents of the window, which a
\* report of a later day need not be stored after one of an earlier day.
Analysed(docs, from, to) ==
  LET found  == SelectSeq(docs, LAMBDA d : d.day \in from .. to)
      newest == SortSeq(found, LAMBDA a, b : a.day > b.day)
  IN  [docs |-> SubSeq(newest, 1, Smaller(MaxAnalysed, Len(newest))),
       sampled |-> Len(found) > MaxAnalysed, totalInWindow |-> Len(found)]

\* (value / total) of scale, rounded to the nearest whole.
Ratio(value, total, scale) ==
  IF total = 0 THEN 0 ELSE (2 * value * scale + total) \div (2 * total)

Percent(value, total) == Ratio(value, total, 1000)
Average(values) == Ratio(FoldSeq(+, 0, values), Len(values), 1)

\* Mutant: the share is rounded down.
PercentileFloor(values, share) ==
  IF values = <<>> THEN 0
  ELSE SortSeq(values, <)[Larger(1, (Len(values) * share) \div 100)]

Percentile(values, share) ==
  IF values = <<>> THEN 0
  ELSE SortSeq(values, <)[Smaller(Len(values), (Len(values) * share + 99) \div 100)]

Count(values, Test(_)) == Len(SelectSeq(values, Test))
FcpOf(samples) == [i \in DOMAIN samples |-> samples[i].fcp]

Bounds == <<0, 10000, 20000, 30000, 50000>>

Distribution(values) ==
  [b \in DOMAIN Bounds |->
     Count(values, LAMBDA v : /\ v >= Bounds[b]
                              /\ b < Len(Bounds) => v < Bounds[b + 1])]

Trend(samples, slow) ==
  [d \in {samples[i].day : i \in DOMAIN samples} |->
     LET values == FcpOf(SelectSeq(samples, LAMBDA s : s.day = d))
     IN  [count |-> Len(values), average |-> Average(values),
          p75 |-> Percentile(values, 75),
          slowRate |-> Percent(Count(values, LAMBDA v : v > slow), Len(values))]]

\* Every request of every sample, with the paint of its sample.
Requests(samples) ==
  FlattenSeq([i \in DOMAIN samples |->
    [r \in DOMAIN samples[i].resources |->
       [fcp |-> samples[i].fcp, resource |-> samples[i].resources[r]]]])

\* normalizeResourceUrl leaves out what follows the path.
GroupOf(resource) == <<resource.type, resource.url.path>>

OfGroup(samples, group) ==
  SelectSeq(Requests(samples), LAMBDA q : GroupOf(q.resource) = group)

AverageDuration(of) == Average([i \in DOMAIN of |-> of[i].resource.duration])

\* The requests of one type and path together, the slowest first.
Resources(samples, slow) ==
  LET all == Requests(samples)
      Line(group) ==
        LET of    == OfGroup(samples, group)
            timed == SelectSeq(of, LAMBDA q : q.resource.responseTime # Absent)
            late  == Count(of, LAMBDA q : q.fcp > slow)
        IN  [group |-> group, count |-> Len(of), slowCount |-> late,
             slowRate |-> Percent(late, Len(of)),
             averageResponseTime |->
               IF timed = <<>> THEN Absent
               ELSE Average([i \in DOMAIN timed |-> timed[i].resource.responseTime]),
             averageDuration |-> AverageDuration(of),
             averageFcp |-> Average(FcpOf(of))]
      groups == SetToSeq({GroupOf(all[i].resource) : i \in DOMAIN all})
      sorted == SortSeq([i \in DOMAIN groups |-> Line(groups[i])],
                        LAMBDA x, y : \/ x.averageDuration > y.averageDuration
                                      \/ /\ x.averageDuration = y.averageDuration
                                         /\ x.count > y.count)
  IN  SubSeq(sorted, 1, Smaller(MaxListed, Len(sorted)))

BuildFcpAnalysis(docs, slow) ==
  LET samples == SelectSeq([i \in DOMAIN docs |-> ToFcpSample(docs[i])],
                           LAMBDA s : s.fcp # 0)
      values  == FcpOf(samples)
      late    == Count(values, LAMBDA v : v > slow)
      told    == Count(samples, LAMBDA s : s.resources # <<>>)
  IN  [total |-> Len(samples), average |-> Average(values),
       p50 |-> Percentile(values, 50), p75 |-> Percentile(values, 75),
       p90 |-> Percentile(values, 90), p95 |-> Percentile(values, 95),
       max |-> IF values = <<>> THEN 0 ELSE Max(Range(values)),
       slowCount |-> late, slowRate |-> Percent(late, Len(samples)),
       resourceCoverage |-> Percent(told, Len(samples)),
       trend |-> Trend(samples, slow), distribution |-> Distribution(values),
       resources |-> Resources(samples, slow),
       samples |-> SortSeq(samples, LAMBDA a, b : a.fcp > b.fcp)]

\* toTimelineSample, what the console is given of one sample.
ToTimelineSample(sample) ==
  [fcp |-> sample.fcp, requests |-> ByStart(sample.resources),
   resourceCount |-> Larger(sample.resourceCount, Len(sample.resources))]

\* The timeline of one sample: where its bars begin and end, and the line of
\* the paint, in thousandths of its width.
Timeline(sample) ==
  LET requests == ByStart(sample.requests)
      total    == Max({sample.fcp, 10} \cup
                      {requests[i].responseEnd : i \in DOMAIN requests})
      At(t)    == Larger(0, Smaller(1000, (t * 1000) \div total))
  IN  [fcp |-> At(sample.fcp),
       bars |-> [i \in DOMAIN requests |->
         LET left == At(requests[i].startTime)
         IN  [left |-> left, right |-> Larger(left, At(requests[i].responseEnd))]]]

-----------------------------------------------------------------------------
(***************************************************************************)
(* Pages report their loads, by this SDK (version 2) and by older ones,    *)
(* and the console reads the analysis of what there is.                    *)
(***************************************************************************)
Named(load) == load.fcp > FcpThreshold /\ load.lcp # Absent

\* The older ones had no threshold.
Report(load, version, day) ==
  LET all == CollectResourceTimings(load.entries, load.fcp, load.lcp)
      old == [i \in DOMAIN all.resources |-> [all.resources[i] EXCEPT !.phase = ""]]
      Data(perfVersion, fcp, fcpMs, resources, count) ==
        [perfVersion |-> perfVersion, fcp |-> fcp, fcpMs |-> fcpMs,
         resources |-> resources, count |-> IF resources = <<>> THEN Absent ELSE count]
  IN  [day |-> day,
       data |-> CASE version = 2 ->
                       Data(2, load.fcp, Absent,
                            IF Named(load) THEN all.resources ELSE <<>>, all.count)
                  [] version = 1 -> Data(0, Absent, load.fcp, old, Absent)
                  [] version = 0 ->
                       Data(0, IF load.fcp = Absent THEN Absent ELSE load.fcp * 1000,
                            Absent, <<>>, Absent)]

FcpInit == fcpReports = <<>> /\ lastLoad = <<>>

LoadPage(load, version, day) ==
  /\ Len(fcpReports) < MaxFcpReports
  /\ fcpReports' = Append(fcpReports, Report(load, version, day))
  /\ lastLoad' = IF version = 2 THEN <<load>> ELSE <<>>

FcpNext ==
  \E load \in Loads, version \in 0 .. 2, day \in 1 .. 2 : LoadPage(load, version, day)

-----------------------------------------------------------------------------
\* perf.ts, record.ts: of a load that painted late, a request is said to come
\* before the paint exactly when it did, however the rounded times compare;
\* each is counted once, and of too many those that are kept are the nearest to
\* the paint; the timeline keeps its bars inside.
PhasesAreTrue ==
  lastLoad # <<>> /\ Named(lastLoad[1]) =>
    LET load   == lastLoad[1]
        sample == ToFcpSample(fcpReports[Len(fcpReports)])
        kept   == sample.resources
        shown  == ToTimelineSample(sample)
        line   == Timeline(shown)
        seen   == {e \in Range(load.entries) : e.start <= load.lcp}
        Early(e)     == e.start <= load.fcp
        Shows(r, e)  == r.url = e.url /\ r.startTime = Rounded(e.start)
    IN  /\ \A e \in seen, i \in DOMAIN kept :
             Shows(kept[i], e) => (kept[i].phase = Before <=> Early(e))
        /\ Len(kept) <= MaxPerfResources /\ shown.resourceCount = Cardinality(seen)
        /\ \A e \in seen :
             \/ \E i \in DOMAIN kept : Shows(kept[i], e)
             \/ Cardinality({x \in seen : Early(x) = Early(e)}) > MaxPerfResources \div 2
        /\ line.fcp <= 1000
        /\ \A i \in DOMAIN line.bars :
             /\ 0 <= line.bars[i].left /\ line.bars[i].left <= line.bars[i].right
             /\ line.bars[i].right <= 1000

SlowFcp == 25000

\* record.ts: the analysis adds up.  Of the newest loads of the days asked for
\* each that painted is in one bucket, in one day and in the total, whichever
\* SDK reported it; at least the share of a percentile is at or below it, and
\* less than that below any smaller sample; a request is counted once per
\* occurrence, slow ones among them, and none that is not listed was slower;
\* the loads that were left out are older, and owned to.
AnalysisAddsUp ==
  \A from, to \in 1 .. 2 :
    LET read    == Analysed(fcpReports, from, to)
        A       == BuildFcpAnalysis(read.docs, SlowFcp)
        values  == FcpOf(A.samples)
        Painted(d)  == d.data.fcp > 0 \/ d.data.fcpMs > 0
        Share(p, q) == /\ 100 * Count(values, LAMBDA v : v <= p) >= q * Len(values)
                       /\ 100 * Count(values, LAMBDA v : v < p) < q * Len(values)
    IN  /\ A.total = Count(read.docs, Painted)
        /\ \A i \in DOMAIN fcpReports : fcpReports[i].day \in from .. to =>
             \/ fcpReports[i] \in Range(read.docs)
             \/ /\ read.sampled
                /\ \A j \in DOMAIN read.docs : read.docs[j].day >= fcpReports[i].day
        /\ FoldSeq(+, 0, A.distribution) = A.total
        /\ MapThenSumSet(LAMBDA d : A.trend[d].count, DOMAIN A.trend) = A.total
        /\ values # <<>> => /\ Share(A.p50, 50) /\ Share(A.p75, 75)
                            /\ Share(A.p90, 90) /\ Share(A.p95, 95)
        /\ \A i \in DOMAIN A.resources :
             /\ A.resources[i].slowCount <= A.resources[i].count
             /\ A.resources[i].slowRate \in 0 .. 1000
             /\ \A j \in DOMAIN A.resources :
                  A.resources[i].group = A.resources[j].group => i = j
        /\ LET all == Requests(A.samples)
               Lists(i) == \E j \in DOMAIN A.resources :
                              A.resources[j].group = GroupOf(all[i].resource)
               listed == Cardinality({i \in DOMAIN all : Lists(i)})
           IN  /\ FoldSeq(LAMBDA r, n : n + r.count, 0, A.resources) = listed
               /\ \A i \in DOMAIN all : ~Lists(i) =>
                    /\ Len(A.resources) = MaxListed
                    /\ \A j \in DOMAIN A.resources :
                         A.resources[j].averageDuration
                           >= AverageDuration(OfGroup(A.samples, GroupOf(all[i].resource)))
=============================================================================
