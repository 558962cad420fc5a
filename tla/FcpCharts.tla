------------------------------ MODULE FcpCharts ------------------------------
(***************************************************************************)
(* The charts of the page on the first paints                              *)
(* (web/src/views/app/components/FcpOverview.vue): an analysis is asked    *)
(* for, and when it comes the charts are made on the elements the page     *)
(* shows for it.  An element that leaves the page takes nothing with it:   *)
(* a chart that is not disposed of draws on, where nobody sees it.         *)
(***************************************************************************)
EXTENDS Integers, Sequences, FiniteSets, SequencesExt

CONSTANTS
  Urls,        \* the requests an analysis may rank, slowest first
  TopBars,     \* how many of them are drawn
  MaxQueries   \* bound on the analyses that are asked for

ASSUME ChartsAssumption == TopBars \in Nat \ {0} /\ Urls \in Seq(ToSet(Urls))

VARIABLES
  panel,       \* the page, shown once: its queries, and the elements it was given
  loading, filters, queried, \* the query: the button, its fields, what was asked
  analysis,    \* what is shown
  charts       \* per chart, the element it is on and what it draws

chartVars == <<panel, loading, filters, queried, analysis, charts>>

Charts == {"trend", "distribution", "resource"}
NoChart    == [on |-> 0]
NoAnalysis == [total |-> 0, resources |-> <<>>, threshold |-> 0, resourceCoverage |-> 0]
Empty(a)   == a.total = 0

ChartsInit ==
  /\ panel = [mounted |-> FALSE, queries |-> 0, made |-> 0]
  /\ loading = FALSE /\ filters = 1 /\ queried = 0
  /\ analysis = NoAnalysis
  /\ charts = [c \in Charts |-> NoChart]

-----------------------------------------------------------------------------
(* The elements of the charts are there while an analysis with samples is   *)
(* shown; they are made anew each time one follows nothing.                 *)
Elements(v, a) == IF v.mounted /\ ~Empty(a) THEN {v.made} ELSE {}
Display(a) ==
  /\ analysis' = a
  /\ panel' = IF Empty(analysis) /\ ~Empty(a) /\ panel.mounted
             THEN [panel EXCEPT !.made = panel.made + 1] ELSE panel

(* What is said of it: the slowest request, if there is one.                *)
Insight ==
  IF Empty(analysis) THEN <<>>
  ELSE IF analysis.resources = <<>> THEN <<"coverage", analysis.resourceCoverage>>
  ELSE <<"slowest", analysis.resources[1]>>

(* The table of the requests, and what each chart draws: the bars are       *)
(* listed from below.                                                       *)
Rows(a) == SubSeq(a.resources, 1, Min({TopBars, Len(a.resources)}))
RenderCharts(c, a) == [of |-> a, bars |-> IF c = "resource" THEN Reverse(Rows(a)) ELSE <<>>]

(* initCharts makes those that are missing; nothing is ranked, nothing is   *)
(* made for it.                                                             *)
InitCharts(v, a, old) ==
  [c \in Charts |->
     IF old[c] # NoChart THEN [old[c] EXCEPT !.draws = RenderCharts(c, a)]
     ELSE IF Elements(v, a) # {} /\ (c = "resource" => a.resources # <<>>)
     THEN [on |-> v.made, draws |-> RenderCharts(c, a)] ELSE NoChart]

DisposeCharts == charts' = [c \in Charts |-> NoChart]

-----------------------------------------------------------------------------
(* loadAnalysis up to its request.                                          *)
LoadAnalysis ==
  /\ loading' = TRUE /\ queried' = filters
  /\ DisposeCharts

OnMounted ==
  /\ panel.queries = 0
  /\ panel' = [panel EXCEPT !.mounted = TRUE, !.queries = 1]
  /\ LoadAnalysis /\ UNCHANGED <<filters, analysis>>

Query ==
  /\ panel.mounted /\ ~loading /\ panel.queries < MaxQueries
  /\ panel' = [panel EXCEPT !.queries = @ + 1]
  /\ LoadAnalysis /\ UNCHANGED <<filters, analysis>>

Filter(threshold) ==
  filters' = threshold /\ UNCHANGED <<panel, loading, queried, analysis, charts>>

(* ... and from its answer, which may find the page left.                   *)
AnalysisComes(total, resources) ==
  /\ loading /\ (total = 0 => resources = <<>>)
  /\ LET a == [total |-> total, resources |-> resources, threshold |-> queried,
               resourceCoverage |-> Len(resources)] IN
     /\ Display(a)
     /\ charts' = InitCharts(panel', a, charts)
  /\ loading' = FALSE /\ UNCHANGED <<filters, queried>>

Refused ==
  /\ loading
  /\ Display(NoAnalysis) /\ loading' = FALSE /\ UNCHANGED <<filters, queried, charts>>

OnBeforeUnmount ==
  /\ panel.mounted /\ panel' = [panel EXCEPT !.mounted = FALSE]
  /\ DisposeCharts /\ UNCHANGED <<loading, filters, queried, analysis>>

ChartsNext ==
  \/ OnMounted \/ Query \/ Refused \/ OnBeforeUnmount
  \/ \E threshold \in {1, 2} : Filter(threshold)
  \/ \E total \in {0, 1}, n \in 0..Len(Urls) : AnalysisComes(total, SubSeq(Urls, 1, n))

-----------------------------------------------------------------------------
(* A chart is on an element the page shows, and no chart outlives the page  *)
(* or the analysis, also when the answer finds the page left.               *)
NoChartIsLost ==
  \A c \in Charts : charts[c] # NoChart => charts[c].on \in Elements(panel, analysis)

(* Between two queries the charts draw the analysis that is shown, all of   *)
(* them, and the bars are the rows of the table; the slow ones are those of *)
(* the threshold that was asked for, whatever the field says by now.        *)
ChartsAreOfTheAnalysis ==
  panel.mounted /\ ~loading /\ ~Empty(analysis) =>
    /\ analysis.threshold = queried
    /\ \A c \in Charts \ {"resource"} : charts[c] # NoChart
    /\ charts["resource"] = NoChart <=> Insight[1] = "coverage"
    /\ \A c \in Charts : charts[c] # NoChart => charts[c].draws.of = analysis
    /\ charts["resource"] # NoChart => Last(charts["resource"].draws.bars) = Insight[2]

ChartsAreShown == NoChartIsLost /\ ChartsAreOfTheAnalysis
=============================================================================
