---------------------------- MODULE UsageReports ----------------------------
(***************************************************************************)
(* The three readers of the request ledger, as functions of the rows they  *)
(* are given: the hourly rollup of the worker                              *)
(* (store/postgres/worker.go), the portal's usage view (portal/site.go)    *)
(* and the control API with its client dashboard (control/control.go,      *)
(* control/client_dashboard.go).                                           *)
(*                                                                         *)
(* `rows` maps the id of a logical request to its row.  Time is counted in *)
(* ticks, HourLen of them to the hour.  A row knows its input tokens when  *)
(* its usage is partial or final and its output tokens when it is final;   *)
(* cached and reasoning tokens are treated as input tokens are.            *)
(***************************************************************************)
EXTENDS Integers, Sequences, FiniteSets, FiniteSetsExt, Functions

CONSTANTS HourLen,     \* ticks of an hour
          Open,        \* completed_at of a request in progress
          Unknown,     \* a NULL number
          Person,      \* the actor of a request made with a human token
          Unavailable  \* the answer of a reader that cannot read its rows

ASSUME HourLenAssumption == HourLen \in Nat \ {0}

Statuses == {"in_progress", "succeeded", "failed", "blocked", "cancelled"}
Outcomes == Statuses \ {"in_progress"}

Hour(t)  == t \div HourLen
OverAt(h) == (h + 1) * HourLen      \* the tick at which hour h is over

OfHour(rows, h) == [r \in {q \in DOMAIN rows : Hour(rows[q].started) = h} |-> rows[r]]

\* The rows that the portal, the control API and the client dashboard are given
\* of a period: scanRequest has no place for the NULLs in the row of a person's
\* request, so that one such row fails the whole read, and each of them answers
\* usage_unavailable.
ListInferenceRequests(rows, from, to) ==
    LET page == {r \in DOMAIN rows : from <= rows[r].started /\ rows[r].started < to}
    IN  IF \E r \in page : rows[r].actor = Person THEN Unavailable
        ELSE [r \in page |-> rows[r]]

----------------------------------------------------------------------------
(* What every reader counts.                                               *)

With(rows, status) == {r \in DOMAIN rows : rows[r].status = status}

InputTokens(row)  == IF row.usage = "unknown" THEN Unknown ELSE row.amount
OutputTokens(row) == IF row.usage = "final" THEN row.amount ELSE Unknown
requestTokenTotal(row) ==
    IF Unknown \in {InputTokens(row), OutputTokens(row)} THEN Unknown
    ELSE InputTokens(row) + OutputTokens(row)

Tokens(row, dimension) ==
    CASE dimension = "input"  -> InputTokens(row)
      [] dimension = "output" -> OutputTokens(row)
      [] dimension = "total"  -> requestTokenTotal(row)

\* The sum of what the succeeded rows know, and how many know it.
Known(rows, dimension) == {r \in With(rows, "succeeded") : Tokens(rows[r], dimension) # Unknown}
Total(rows, dimension) ==
    SumFunctionOnSet([r \in DOMAIN rows |-> Tokens(rows[r], dimension)], Known(rows, dimension))

\* A total is shown when every succeeded request knows its part of it.
completeMetric(rows, dimension) ==
    IF Known(rows, dimension) # {} /\ Known(rows, dimension) = With(rows, "succeeded")
    THEN Total(rows, dimension) ELSE Unknown

\* A row that makes any view of it provisional.
Provisional(row) ==
    \/ row.status = "in_progress"
    \/ row.status = "succeeded" /\ row.usage # "final"

----------------------------------------------------------------------------
(* Latency: a sample of the requests that ended, by its place in a sort.   *)

Latency(row) == row.completed - row.started
Sampled(rows) == {r \in DOMAIN rows : rows[r].completed # Open}

\* The sample at place k.
Sample(rows, k) ==
    CHOOSE d \in {Latency(rows[r]) : r \in Sampled(rows)} :
        /\ Cardinality({r \in Sampled(rows) : Latency(rows[r]) < d}) < k
        /\ k <= Cardinality({r \in Sampled(rows) : Latency(rows[r]) <= d})

\* percentile of the rollup and durationPercentile of the portal.
PercentileRank(n, pct) ==
    LET index == ((n - 1) * pct) \div 100
    IN  IF pct >= 95 /\ index < n - 1 THEN index + 2 ELSE index + 1

\* percentile of the control API.
ControlRank(n, pct) == Max({1, (n * pct + 99) \div 100})

Percentile(rows, pct, reader) ==
    LET n == Cardinality(Sampled(rows))
    IN  IF n = 0 THEN Unknown
        ELSE Sample(rows, IF reader = "control" THEN ControlRank(n, pct)
                          ELSE PercentileRank(n, pct))

----------------------------------------------------------------------------
(* Peak concurrency: a sweep over the starts and ends of the intervals.    *)

\* `intervals` maps an id to <<start, end>>; an event is an id with the change it makes.
Events(intervals) == (DOMAIN intervals) \X {1, -1}
Instant(intervals, e) == intervals[e[1]][IF e[2] = 1 THEN 1 ELSE 2]

\* Ends come before starts at the same instant.
Before(intervals, a, b) ==
    \/ Instant(intervals, a) < Instant(intervals, b)
    \/ Instant(intervals, a) = Instant(intervals, b) /\ a[2] < b[2]

\* The events up to a place of the sorted sequence, whatever the order of equal ones.
Prefixes(intervals) ==
    {P \in SUBSET Events(intervals) :
        \A a \in P, b \in Events(intervals) \ P : ~ Before(intervals, b, a)}

Current(P) == Cardinality({e \in P : e[2] = 1}) - Cardinality({e \in P : e[2] = -1})
Sweep(intervals) == Max({Current(P) : P \in Prefixes(intervals)})

Positive(intervals) ==
    [r \in {q \in DOMAIN intervals : intervals[q][2] > intervals[q][1]} |-> intervals[r]]

\* The rollup cuts an interval at the moment of the run and at its hour.
RollupIntervals(rows, h, asOf) ==
    Positive([r \in DOMAIN rows |->
                 <<rows[r].started,
                   Min({asOf, OverAt(h)} \cup ({rows[r].completed} \ {Open}))>>])

\* The portal lets an open request last until now.
PortalIntervals(rows, now) ==
    Positive([r \in DOMAIN rows |->
                 <<rows[r].started,
                   IF rows[r].completed = Open THEN now ELSE rows[r].completed>>])

peakConcurrency(rows, h, asOf) ==
    LET intervals == RollupIntervals(rows, h, asOf)
    IN  IF DOMAIN intervals = {} THEN Unknown ELSE Sweep(intervals)
peakRequests(rows, now) == Sweep(PortalIntervals(rows, now))

----------------------------------------------------------------------------
(* The three reports.                                                      *)

Counts(rows) == [status \in Statuses |-> Cardinality(With(rows, status))]

RollupFinality(rows, h, asOf) ==
    IF (\E r \in DOMAIN rows : Provisional(rows[r])) \/ OverAt(h) > asOf
    THEN "partial" ELSE "final"

\* One row of usage_rollups_hourly_v2 (the other parts of its key only split
\* the rows further), with its tokens as ListPortalRollups shows them.
Rollup(rows, h, asOf) ==
    [counts   |-> Counts(rows),
     input    |-> completeMetric(rows, "input"),
     p50      |-> Percentile(rows, 50, "rollup"),
     p95      |-> Percentile(rows, 95, "rollup"),
     peak     |-> peakConcurrency(rows, h, asOf),
     finality |-> RollupFinality(rows, h, asOf),
     asOf     |-> asOf]

\* tokenMetric of the portal.
tokenMetric(rows, dimension, forcedPartial) ==
    [value    |-> completeMetric(rows, dimension),
     finality |-> IF With(rows, "succeeded") = {} THEN "unknown"
                  ELSE IF forcedPartial \/ completeMetric(rows, dimension) = Unknown THEN "partial"
                  ELSE "final"]
emptyTokenMetric == [value |-> 0, finality |-> "not_applicable"]

SomeProvisional(rows) == \E r \in DOMAIN rows : Provisional(rows[r])
UsageNotFinal(rows)   == \E r \in With(rows, "succeeded") : rows[r].usage # "final"

\* A point of the portal's trend.
buildDirectTrend(rows) ==
    [counts   |-> Counts(rows),
     tokens   |-> tokenMetric(rows, "total", SomeProvisional(rows)),
     p95      |-> Percentile(rows, 95, "portal"),
     finality |-> IF SomeProvisional(rows) THEN "partial" ELSE "final"]

\* The entries of a breakdown: the rows apart by the actor that sent them, or
\* by model (alias and executed model together).
Breakdown(rows, column) ==
    [k \in {rows[r][column] : r \in DOMAIN rows} |->
        LET group == [r \in {q \in DOMAIN rows : rows[q][column] = k} |-> rows[r]]
        IN  [requests |-> Cardinality(DOMAIN group),
             tokens   |-> tokenMetric(group, "total", UsageNotFinal(group))]]
makeBreakdowns(rows)      == Breakdown(rows, "actor")
makeModelBreakdowns(rows) == Breakdown(rows, "model")

\* The portal's totals over a period that is queried at `now`.
buildPortalUsage(rows, now) ==
    [counts  |-> Counts(rows),
     tokens  |-> IF rows = <<>> THEN emptyTokenMetric
                 ELSE tokenMetric(rows, "total", UsageNotFinal(rows)),
     p50     |-> Percentile(rows, 50, "portal"),
     p95     |-> Percentile(rows, 95, "portal"),
     peak    |-> peakRequests(rows, now),
     partial |-> SomeProvisional(rows)]

\* The finality that the dashboard states for a period that ends at `to`.
dashboardFinality(rows, to, now) ==
    IF ~(rows = <<>> /\ to <= now) /\ (buildPortalUsage(rows, now).partial \/ to > now)
    THEN "partial" ELSE "final"

\* TokenMetric of the control API, and what clientUsage keeps of it.
metricResult(rows, dimension) ==
    [value    |-> IF Known(rows, dimension) = {} THEN Unknown ELSE Total(rows, dimension),
     finality |-> IF Known(rows, dimension) = {} THEN "unknown"
                  ELSE IF Known(rows, dimension) = With(rows, "succeeded") THEN "final"
                  ELSE "partial"]
completeTokenMetric(metric) == IF metric.finality = "final" THEN metric.value ELSE Unknown

\* Mutant: one side that is unknown is left out of the sum.
addKnownAny(a, b) == IF a = Unknown THEN b ELSE IF b = Unknown THEN a ELSE a + b

addKnown(a, b) == IF Unknown \in {a, b} THEN Unknown ELSE a + b

summarise(rows) ==
    [counts |-> Counts(rows),
     input  |-> metricResult(rows, "input"),
     output |-> metricResult(rows, "output"),
     p50    |-> Percentile(rows, 50, "control"),
     p95    |-> Percentile(rows, 95, "control")]

clientUsageTokens(rows) ==
    addKnown(completeTokenMetric(summarise(rows).input),
             completeTokenMetric(summarise(rows).output))

\* The points of the client dashboard's trend and the entries of its breakdown.
clientTrend(rows) ==
    [h \in {Hour(rows[r].started) : r \in DOMAIN rows} |-> clientUsageTokens(OfHour(rows, h))]
clientModelBreakdown(rows) ==
    [m \in {rows[r].model : r \in DOMAIN rows} |->
        LET group == [r \in {q \in DOMAIN rows : rows[q].model = m} |-> rows[r]]
        IN  [requests |-> Cardinality(DOMAIN group), tokens |-> clientUsageTokens(group)]]

\* ledger_finality of the control API's usage answer.
LedgerFinality(rows) == IF With(rows, "in_progress") # {} THEN "partial" ELSE "final"

\* Why the client dashboard calls a page that is not truncated partial.
clientPartialReasons(rows, to, asOf) ==
    (IF to > asOf THEN {"future"} ELSE {})
    \cup (IF With(rows, "in_progress") # {} THEN {"in_progress"} ELSE {})
    \cup (IF UsageNotFinal(rows) THEN {"usage"} ELSE {})
=============================================================================
