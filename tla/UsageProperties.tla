--------------------------- MODULE UsageProperties ---------------------------
(* What the rollups and the reports promise of the request ledger.         *)
EXTENDS UsageWorker

CONSTANT MaxSamples   \* bound: the sample counts at which the ranks are compared

ServiceRows == [r \in {q \in DOMAIN ledger : ledger[q].actor # Person} |-> ledger[r]]
Included(h) == DOMAIN buckets[h].rows
Counted(h)  == [r \in Included(h) |-> ledger[r]]

\* A bucket that is marked final stands: aggregating the requests it counted
\* again, from the ledger as it is by now, gives the same bucket.  A bucket
\* that a later event has made wrong, say one that left the lookback with a
\* request in progress, is still marked partial (RefreshUsageRollups).
FinalBucketStands ==
    \A h \in Hours : buckets[h] # Absent =>
        (Columns(h).finality = "final" => Columns(h) = Rollup(Counted(h), h, buckets[h].asOf))

\* What the checkpoint of a completed run says it read is what the buckets of
\* its range hold, whatever the gateway commits while the run is under way,
\* and whatever other process tries to run, fails or dies (the REPEATABLE READ
\* transaction of RefreshUsageRollups and its advisory lock).
CheckpointReconciles ==
    checkpoint.status = "succeeded" =>
        /\ checkpoint.sourceRows =
             Cardinality(UNION {Included(h) : h \in Rewritten(checkpoint.started)})
        /\ \A h \in Rewritten(checkpoint.started) :
             buckets[h] # Absent => buckets[h].asOf = checkpoint.completed

\* When the dashboard says that the rollups represent a period fully, they
\* count every request of a service account of that period that the last
\* completed run could see, and no other, whichever processes ran, were outrun
\* or died since (rangeFullyRepresented in loadDashboardWithOptions).
RepresentedIsComplete ==
    \A h1 \in Hours : \A h2 \in h1 .. Hour(MaxNow) :
        RangeFullyRepresented(h1, h2) =>
            \A h \in h1 .. h2 :
                Included(h) = {r \in lastRead : ledger[r].actor # Person
                                                /\ Hour(ledger[r].started) = h}

\* Rows as they were read from the table `led` or an earlier version of it: they
\* have kept their actor and their start, and everything else once they were not
\* provisional.
ReadFrom(rows, led) ==
    /\ rows \in [DOMAIN rows -> Rows]
    /\ DOMAIN rows \subseteq DOMAIN led
    /\ \A r \in DOMAIN rows :
           /\ rows[r].started = led[r].started /\ rows[r].actor = led[r].actor
           /\ ~Provisional(rows[r]) => rows[r] = led[r]

\* What the processes hold, what the buckets aggregate and what the last run saw
\* is from the ledger.
RowsKept ==
    /\ \A w \in Workers : ReadFrom(snap[w], ledger)
    /\ \A h \in Hours : ReadFrom(buckets[h].rows, ledger)
    /\ lastRead \subseteq DOMAIN ledger

\* From one completed run to the next every hour of its range, the one under way
\* included, counts what that run could see of it and no other request, whatever
\* later runs begin, fail or die (RefreshUsageRollups).
HoursComplete ==
    /\ checkpoint.status = "succeeded" =>
         checkpoint.completed \in Ticks /\ checkpoint.started = checkpoint.completed
    /\ checkpoint.completed # Unknown =>
         \A h \in Rewritten(checkpoint.completed) :
             Included(h) = {r \in lastRead : /\ ledger[r].actor # Person
                                             /\ Hour(ledger[r].started) = h
                                             /\ ledger[r].started < checkpoint.completed}

\* A run whose clock a later run has outrun changes nothing: no bucket is younger
\* than the last completion, and the process that holds the lock is not behind it
\* (the CHECK of worker_checkpoints, which markRollupStarted meets).
RunsGoForward ==
    /\ \A h \in Hours : buckets[h] # Absent =>
         checkpoint.completed # Unknown /\ buckets[h].asOf <= checkpoint.completed
    /\ \A w \in Workers :
         lock = w /\ checkpoint.completed # Unknown => checkpoint.completed <= run[w]

\* The rollups at every moment, whatever run is under way: what is final stands,
\* and what the checkpoint and the dashboard claim of them is so
\* (RefreshUsageRollups, loadDashboardWithOptions).
RollupInv ==
    /\ TypeOK /\ RowsKept /\ FinalBucketStands
    /\ CheckpointReconciles /\ HoursComplete /\ RunsGoForward /\ RepresentedIsComplete

\* The p95 of the rollup and of the portal reads one sample further than that of the
\* control API.
OneFurther(n) == n >= 20 /\ n % 20 \in {0, 1}

\* The portal's totals of a page and the control API's are the same, and the shares of
\* a breakdown add up to them (buildPortalUsage, summarise, clientUsage, makeBreakdowns,
\* clientModelBreakdown, clientTrend).
TotalsAgree(page) ==
    LET direct  == buildPortalUsage(page, now)
        summary == summarise(page)
        parts   == {makeBreakdowns(page), makeModelBreakdowns(page)}
        ours    == makeModelBreakdowns(page)
    IN  /\ summary.counts = direct.counts
        /\ summary.p50 = direct.p50
        /\ ~ OneFurther(Cardinality(Sampled(page))) => summary.p95 = direct.p95
        /\ page # <<>> => clientUsageTokens(page) = direct.tokens.value
        /\ \A b \in parts :
             /\ SumFunction([k \in DOMAIN b |-> b[k].requests]) = Cardinality(DOMAIN page)
             /\ direct.tokens.value # Unknown =>
                  direct.tokens.value =
                      SumFunction([k \in DOMAIN b |-> IF b[k].tokens.value = Unknown THEN 0
                                                      ELSE b[k].tokens.value])
        /\ clientModelBreakdown(page) =
               [m \in DOMAIN ours |-> [requests |-> ours[m].requests,
                                       tokens |-> ours[m].tokens.value]]
        /\ \A h \in DOMAIN clientTrend(page) :
             clientTrend(page)[h] = buildDirectTrend(OfHour(page, h)).tokens.value

\* Of a period that ends at `to`, what one of the readers calls final none of the others
\* calls provisional (loadDashboardWithOptions, clientPartialReasons, buildUsage).
FinalitiesAgree(page, to) ==
    /\ (dashboardFinality(page, to, now) = "final")
           <=> (clientPartialReasons(page, to, now) = {})
    /\ dashboardFinality(page, to, now) = "final" => LedgerFinality(page) = "final"

\* How many of the intervals a tick is in.
Overlap(intervals, t) ==
    Cardinality({r \in DOMAIN intervals : intervals[r][1] <= t /\ t < intervals[r][2]})
LargestOverlap(intervals) == Max({0} \cup {Overlap(intervals, t) : t \in Ticks})

\* The peak of a sweep is the largest number of requests open at one instant,
\* a request that ends as another starts not overlapping it (peakRequests).
PeakAgrees(page) ==
    peakRequests(page, now) = LargestOverlap(PortalIntervals(page, now))

\* So it is in the rollup (peakConcurrency).
PeakIsLargestOverlap ==
    \A h \in Hours : buckets[h] # Absent =>
        LET intervals == RollupIntervals(buckets[h].rows, h, buckets[h].asOf)
        IN  Columns(h).peak = IF DOMAIN intervals = {} THEN Unknown
                              ELSE LargestOverlap(intervals)

PeriodBounds == 0 .. MaxNow + 1

\* The pages that the readers are given, of any period.
Pages == {ListInferenceRequests(ledger, from, to) : from \in PeriodBounds, to \in PeriodBounds}
             \ {Unavailable}

\* The readers that are given the rows of a period tell the same story of them.  Of a
\* period with a request of a person they tell none: each of them answers that usage is
\* unavailable (ListInferenceRequests).
PagesAgree ==
    \A page \in Pages :
        /\ TotalsAgree(page) /\ PeakAgrees(page)
        /\ \A to \in PeriodBounds : FinalitiesAgree(page, to)

\* An hour of the rollup, which counts service accounts only, shows what the portal's
\* trend and the control API show of the hour, when they show anything
\* (RefreshUsageRollups, buildDirectTrend, summarise).
RollupAgrees ==
    \A h \in Hours :
        LET page  == ListInferenceRequests(ledger, h * HourLen, OverAt(h))
            hour  == Rollup(OfHour(ServiceRows, h), h, now)
            point == buildDirectTrend(page)
        IN  page \notin {<<>>, Unavailable} =>
              /\ hour.counts = point.counts /\ hour.p95 = point.p95
              /\ hour.input = completeTokenMetric(summarise(page).input)
              /\ hour.finality = "final" =>
                   point.finality = "final" /\ point.tokens.finality # "partial"

\* The three readers of the ledger agree.  They read the ledger and the clock alone, and
\* every ledger occurs with every clock before the first run of a worker, so that it is
\* enough to compare them there.
ReportsAgree ==
    checkpoint.status = "unavailable" => PagesAgree /\ RollupAgrees

\* The rank of the nearest-rank percentile: the first sample that is not
\* exceeded by more than the rest.
NearestRank(n, pct) == CHOOSE k \in 1 .. n : 100 * k >= pct * n /\ 100 * (k - 1) < pct * n

\* The latencies shown are nearest-rank percentiles, with one exception: the
\* p95 of the rollup and of the portal reads one sample further when there
\* are 20 m or 20 m + 1 of them, and only then differs from the p95 of the
\* control API (percentile, durationPercentile).
LatencyRanks ==
    now = 0 =>
        \A n \in 1 .. MaxSamples :
            /\ \A pct \in {50, 95} : ControlRank(n, pct) = NearestRank(n, pct)
            /\ PercentileRank(n, 50) = NearestRank(n, 50)
            /\ PercentileRank(n, 95) = NearestRank(n, 95) + (IF OneFurther(n) THEN 1 ELSE 0)

\* The figures that are shown are those of the ledger's rows: the readers agree,
\* and peaks and latencies are what their names say (RefreshUsageRollups,
\* buildPortalUsage, summarise, clientUsage).
FiguresAgree == ReportsAgree /\ PeakIsLargestOverlap /\ LatencyRanks

\* A route that the portal shows as operational is one the gateway routes to,
\* unless probes of two processes were recorded out of the order in which
\* their runs began: then the older answer stays in the registry
\* (RecordProbeObservation, ListPortalObservations, ResolveRoute).
OperationalIsCallable ==
    (\A i, j \in DOMAIN observations : i < j => observations[i].at < observations[j].at)
        => ("operational" \in ShownStates => health # "unavailable")

\* Whatever processes fail or die in between, the hours of the lookback agree
\* with the ledger in the end: a later run rewrites them (Run, RunOnce).
EventuallyReconciled ==
    <>[](LET end == deployment.until
         IN  /\ checkpoint.completed = end
             /\ \A h \in Rewritten(end) :
                  buckets[h] = Bucket(OfHour(InRange(ledger, end), h), end))
=============================================================================
