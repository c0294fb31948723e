----------------------------- MODULE UsageProofs -----------------------------
(***************************************************************************)
(* Machine-checked proofs about the rollups, the probes and the reports,   *)
(* for any number of worker processes, requests, ticks and failures.       *)
(***************************************************************************)
EXTENDS UsageProperties, TLAPS, FiniteSetTheorems, WellFoundedInduction

----------------------------------------------------------------------------
(* Arithmetic: ticks and hours.                                            *)

\* The larger of two numbers.
LEMMA MaxOfTwo ==
    ASSUME NEW a \in Int, NEW b \in Int
    PROVE  Max({a, b}) \in {a, b} /\ Max({a, b}) >= a /\ Max({a, b}) >= b
  <1>1. \E x \in {a, b} : \A y \in {a, b} : x >= y
    <2>1. CASE a >= b
      BY <2>1
    <2>2. CASE b > a
      BY <2>2
    <2> QED BY <2>1, <2>2
  <1> QED BY <1>1 DEF Max

\* What an hour is: the tick lies between its first tick and its end.
LEMMA HourBounds ==
    ASSUME NEW t \in Nat
    PROVE  /\ Hour(t) \in Nat
           /\ Hour(t) * HourLen <= t /\ t < OverAt(Hour(t))
  <1>1. HourLen \in Nat /\ HourLen > 0
    BY HourLenAssumption
  <1>2. t = HourLen * (t \div HourLen) + (t % HourLen) /\ t % HourLen \in 0 .. HourLen - 1
    BY <1>1
  <1>3. t \div HourLen \in Nat
    BY <1>1
  <1> QED BY <1>1, <1>2, <1>3 DEF Hour, OverAt

LEMMA Product ==
    ASSUME NEW a \in Int, NEW b \in Int
    PROVE  /\ a * HourLen < b * HourLen => a < b
           /\ a <= b => a * HourLen <= b * HourLen
           /\ (a + 1) * HourLen = a * HourLen + HourLen
           /\ a * HourLen \in Int
  <1>1. HourLen \in Nat /\ HourLen > 0
    BY HourLenAssumption
  <1>2. a <= b => a * HourLen <= b * HourLen
    BY <1>1
  <1>3. b <= a => b * HourLen <= a * HourLen
    BY <1>1
  <1>4. a * HourLen \in Int /\ b * HourLen \in Int
    BY <1>1
  <1>5. (a + 1) * HourLen = a * HourLen + HourLen
    BY <1>1
  <1> QED BY <1>2, <1>3, <1>4, <1>5

\* A tick is of one hour only.
LEMMA HourUnique ==
    ASSUME NEW t \in Nat, NEW h \in Int, h * HourLen <= t, t < OverAt(h)
    PROVE  Hour(t) = h
  <1>1. Hour(t) \in Nat /\ Hour(t) * HourLen <= t /\ t < (Hour(t) + 1) * HourLen
    BY HourBounds DEF OverAt
  <1>2. t < (h + 1) * HourLen
    BY DEF OverAt
  <1>3. /\ h * HourLen \in Int /\ (h + 1) * HourLen \in Int
        /\ Hour(t) * HourLen \in Int /\ (Hour(t) + 1) * HourLen \in Int
    BY <1>1, Product
  <1>4. Hour(t) * HourLen < (h + 1) * HourLen /\ h * HourLen < (Hour(t) + 1) * HourLen
    BY <1>1, <1>2, <1>3
  <1>5. Hour(t) < h + 1
    BY <1>1, <1>4, Product
  <1>6. h < Hour(t) + 1
    BY <1>1, <1>4, Product
  <1> QED BY <1>1, <1>5, <1>6

\* The range of a run begins with an hour, and not after the run.
LEMMA FromHour ==
    ASSUME NEW t \in Nat
    PROVE  \E h \in Nat : From(t) = h * HourLen /\ Hour(From(t)) = h /\ From(t) \in Nat
  <1> DEFINE x == Max({0, t - Lookback})
             h == Hour(x)
  <1>0. HourLen \in Nat /\ HourLen > 0 /\ Lookback \in Nat
    BY HourLenAssumption, WorkerAssumption
  <1>1. x \in Nat
    <2>1. 0 \in Int /\ t - Lookback \in Int
      BY <1>0
    <2>2. x \in {0, t - Lookback} /\ x >= 0
      BY <2>1, MaxOfTwo, Zenon
    <2> HIDE DEF x
    <2> QED BY <2>1, <2>2
  <1>2. From(t) = h * HourLen
    BY DEF From
  <1> HIDE DEF x
  <1>3. h \in Nat
    BY <1>1, HourBounds
  <1> HIDE DEF h
  <1>4. h * HourLen \in Nat
    BY <1>0, <1>3
  <1>5. h * HourLen < OverAt(h)
    BY <1>0, <1>3, <1>4, Product DEF OverAt
  <1>6. Hour(h * HourLen) = h
    BY <1>3, <1>4, <1>5, HourUnique
  <1> QED BY <1>2, <1>3, <1>4, <1>6

\* The last of the hours that a run rewrites.
LEMMA LastRewritten ==
    ASSUME NEW t \in Nat
    PROVE  /\ Hour(t + HourLen - 1) \in Nat
           /\ t <= Hour(t + HourLen - 1) * HourLen
           /\ (Hour(t + HourLen - 1) - 1) * HourLen < t
  <1> DEFINE x == t + HourLen - 1
             p == Hour(x)
  <1>0. HourLen \in Nat /\ HourLen > 0
    BY HourLenAssumption
  <1>1. x \in Nat /\ x = t + HourLen - 1
    BY <1>0
  <1> HIDE DEF x
  <1>2. p \in Nat /\ p * HourLen <= x /\ x < (p + 1) * HourLen
    BY <1>1, HourBounds DEF OverAt
  <1> HIDE DEF p
  <1>3. /\ (p + 1) * HourLen = p * HourLen + HourLen /\ p * HourLen \in Int
        /\ p * HourLen = (p - 1) * HourLen + HourLen /\ (p - 1) * HourLen \in Int
    <2>1. p - 1 \in Int /\ (p - 1) + 1 = p
      BY <1>2
    <2>2. (p - 1 + 1) * HourLen = (p - 1) * HourLen + HourLen /\ (p - 1) * HourLen \in Int
      BY <2>1, Product
    <2> QED BY <1>2, <2>1, <2>2, Product
  <1>4. t <= p * HourLen /\ (p - 1) * HourLen < t
    BY <1>0, <1>1, <1>2, <1>3
  <1> QED BY <1>2, <1>4 DEF p, x

\* The hour of every tick that a run reads is one it rewrites.
LEMMA ReadIsRewritten ==
    ASSUME NEW t \in Nat, NEW s \in Nat, From(t) <= s, s < t
    PROVE  Hour(s) \in Rewritten(t)
  <1> DEFINE p == Hour(t + HourLen - 1)
  <1>1. PICK f \in Nat : From(t) = f * HourLen /\ Hour(From(t)) = f /\ From(t) \in Nat
    BY FromHour
  <1>2. p \in Nat /\ t <= p * HourLen
    BY LastRewritten
  <1>3. Hour(s) \in Nat /\ Hour(s) * HourLen <= s /\ s < (Hour(s) + 1) * HourLen
    BY HourBounds DEF OverAt
  <1> HIDE DEF p
  <1>4. /\ Hour(s) * HourLen \in Int /\ (Hour(s) + 1) * HourLen \in Int
        /\ p * HourLen \in Int /\ f * HourLen \in Int
    BY <1>2, <1>3, Product
  <1>5. f * HourLen < (Hour(s) + 1) * HourLen /\ Hour(s) * HourLen < p * HourLen
    BY <1>1, <1>2, <1>3, <1>4
  <1>6. f < Hour(s) + 1
    BY <1>3, <1>5, Product
  <1>7. Hour(s) < p
    BY <1>2, <1>3, <1>5, Product
  <1> QED BY <1>1, <1>2, <1>3, <1>6, <1>7 DEF Rewritten, p

\* So is every hour of the range that was over when the run began.
LEMMA OverIsRewritten ==
    ASSUME NEW t \in Nat, NEW h \in Nat, From(t) <= h * HourLen, OverAt(h) <= t
    PROVE  h \in Rewritten(t)
  <1>0. HourLen \in Nat /\ HourLen > 0
    BY HourLenAssumption
  <1>1. h * HourLen \in Nat
    BY <1>0
  <1>2. h * HourLen < OverAt(h)
    BY <1>0, <1>1, Product DEF OverAt
  <1>3. h * HourLen < t
    BY <1>1, <1>2, <1>0 DEF OverAt
  <1>4. Hour(h * HourLen) = h
    BY <1>1, <1>2, HourUnique
  <1> QED BY <1>1, <1>3, <1>4, ReadIsRewritten

\* An hour that a run rewrites begins in its range.
LEMMA RewrittenFrom ==
    ASSUME NEW t \in Nat, NEW h \in Rewritten(t)
    PROVE  From(t) <= h * HourLen /\ From(t) \in Int /\ h * HourLen \in Int
  <1>1. PICK f \in Nat : From(t) = f * HourLen /\ Hour(From(t)) = f
    BY FromHour
  <1>2. Hour(t + HourLen - 1) \in Nat
    BY LastRewritten
  <1>3. h \in Int /\ f <= h
    BY <1>1, <1>2 DEF Rewritten
  <1> QED BY <1>1, <1>3, Product

\* A run rewrites hours that there are.
LEMMA RewrittenAreHours ==
    ASSUME NEW t \in Ticks
    PROVE  Rewritten(t) \subseteq Hours
  <1> DEFINE p == Hour(t + HourLen - 1)
             m == Hour(MaxNow)
  <1>0. t \in Nat /\ MaxNow \in Nat /\ t <= MaxNow
    BY WorkerAssumption DEF Ticks
  <1>1. p \in Nat /\ (p - 1) * HourLen < t
    BY <1>0, LastRewritten
  <1>2. m \in Nat /\ MaxNow < (m + 1) * HourLen
    BY <1>0, HourBounds DEF OverAt
  <1>3. PICK f \in Nat : Hour(From(t)) = f
    BY <1>0, FromHour
  <1> HIDE DEF p, m
  <1>4. (p - 1) * HourLen \in Int /\ (m + 1) * HourLen \in Int
    BY <1>1, <1>2, Product
  <1>5. (p - 1) * HourLen < (m + 1) * HourLen
    BY <1>0, <1>1, <1>2, <1>4
  <1>6. p - 1 < m + 1
    BY <1>1, <1>2, <1>5, Product
  <1>7. Rewritten(t) = f .. p - 1 /\ Hours = 0 .. m
    BY <1>3 DEF Rewritten, Hours, p, m
  <1> QED BY <1>1, <1>2, <1>3, <1>6, <1>7

----------------------------------------------------------------------------
(* Rows that were read.                                                    *)

LEMMA ReadSelf ==
    ASSUME NEW a, a \in [DOMAIN a -> Rows]
    PROVE  ReadFrom(a, a)
  BY DEF ReadFrom

LEMMA ReadTransitive ==
    ASSUME NEW a, NEW b, NEW c, ReadFrom(a, b), ReadFrom(b, c)
    PROVE  ReadFrom(a, c)
  BY DEF ReadFrom

LEMMA ReadPart ==
    ASSUME NEW a, NEW b, NEW D \in SUBSET DOMAIN a, ReadFrom(a, b)
    PROVE  ReadFrom([r \in D |-> a[r]], b)
  <1> DEFINE p == [r \in D |-> a[r]]
  <1>1. DOMAIN p = D /\ \A r \in D : p[r] = a[r]
    OBVIOUS
  <1>2. p \in [D -> Rows]
    BY DEF ReadFrom
  <1> HIDE DEF p
  <1>3. ReadFrom(p, b)
    BY <1>1, <1>2 DEF ReadFrom
  <1> QED BY <1>3 DEF p

LEMMA ReadNothing ==
    ASSUME NEW b
    PROVE  ReadFrom(<<>>, b) /\ DOMAIN <<>> = {} /\ <<>> \in [DOMAIN <<>> -> Rows]
  <1>1. DOMAIN <<>> = {} /\ <<>> \in [DOMAIN <<>> -> Rows]
    OBVIOUS
  <1> QED BY <1>1 DEF ReadFrom

\* A bucket that a run writes has the rows that it read of the hour.
LEMMA BucketRows ==
    ASSUME NEW rows, NEW t \in Ticks
    PROVE  /\ DOMAIN Bucket(rows, t).rows = DOMAIN rows
           /\ Bucket(rows, t).rows \in {rows, <<>>}
           /\ Bucket(rows, t) # Absent => /\ DOMAIN rows # {} /\ Bucket(rows, t).rows = rows
                                          /\ Bucket(rows, t).asOf = t
  <1>1. CASE DOMAIN rows = {}
    BY <1>1, ReadNothing DEF Bucket, Absent
  <1>2. CASE DOMAIN rows # {}
    BY <1>2 DEF Bucket
  <1> QED BY <1>1, <1>2

----------------------------------------------------------------------------
(* What a step does to the rollups.                                        *)

\* The ledger grows, and nothing else that matters here.
Traffic ==
    /\ ReadFrom(ledger, ledger')
    /\ UNCHANGED <<snap, buckets, lastRead, checkpoint>>

\* A process begins or gives up.
Tried ==
    /\ UNCHANGED <<ledger, buckets, lastRead>>
    /\ \A w \in Workers : snap'[w] \in {snap[w], ledger, <<>>}
    /\ checkpoint' = checkpoint \/ checkpoint'.status # "succeeded"
    /\ checkpoint'.completed = checkpoint.completed

\* A process commits its run.
Committed(w) ==
    /\ ledger' = ledger
    /\ Rewrite(w)
    /\ checkpoint' = [status |-> "succeeded", started |-> run[w], completed |-> run[w],
                      sourceRows |-> SourceRows(w)]
    /\ lastRead' = DOMAIN snap[w]
    /\ snap' = [snap EXCEPT ![w] = <<>>]

LEMMA RollupSteps ==
    ASSUME TypeOK, [Next]_vars
    PROVE  Traffic \/ Tried \/ \E w \in Workers : Committed(w)
  <1> DEFINE Goal == Traffic \/ Tried \/ \E w \in Workers : Committed(w)
  <1>0. /\ ledger \in [DOMAIN ledger -> Rows] /\ DOMAIN snap = Workers
        /\ checkpoint \in [status : CheckpointStates, started : Ticks \cup {Unknown},
                           completed : Ticks \cup {Unknown}, sourceRows : Nat \cup {Unknown}]
        /\ now \in Ticks
    BY DEF TypeOK
  <1>1. UNCHANGED <<ledger, buckets, lastRead, snap, checkpoint>> => Goal
    BY DEF Tried
  <1>2. ASSUME NEW r \in Requests, CreateInferenceRequest(r)
        PROVE  Goal
    <2>1. PICK row : ledger' = [q \in DOMAIN ledger \cup {r} |-> IF q = r THEN row ELSE ledger[q]]
      BY <1>2 DEF CreateInferenceRequest
    <2>2. r \notin DOMAIN ledger /\ UNCHANGED <<snap, buckets, lastRead, checkpoint>>
      BY <1>2 DEF CreateInferenceRequest, rollupVars
    <2>3. ReadFrom(ledger, ledger')
      BY <1>0, <2>1, <2>2 DEF ReadFrom
    <2> QED BY <2>2, <2>3 DEF Traffic
  <1>3. ASSUME NEW r \in Requests, CompleteInferenceRequest(r)
        PROVE  Goal
    <2>1. PICK e \in Endings :
             ledger' = [ledger EXCEPT ![r].status = e[1], ![r].completed = now, ![r].usage = e[2]]
      BY <1>3 DEF CompleteInferenceRequest
    <2>2. /\ r \in DOMAIN ledger /\ ledger[r].status = "in_progress"
          /\ UNCHANGED <<snap, buckets, lastRead, checkpoint>>
      BY <1>3 DEF CompleteInferenceRequest, rollupVars
    <2>3. DOMAIN ledger' = DOMAIN ledger /\ \A q \in DOMAIN ledger \ {r} : ledger'[q] = ledger[q]
      BY <1>0, <2>1
    <2>4. ledger'[r].started = ledger[r].started /\ ledger'[r].actor = ledger[r].actor
      <3>1. ledger'[r] = [ledger[r] EXCEPT !.status = e[1], !.completed = now, !.usage = e[2]]
        BY <1>0, <2>1, <2>2
      <3>2. ledger[r] \in Rows
        BY <1>0, <2>2
      <3> QED BY <3>1, <3>2 DEF Rows
    <2>5. Provisional(ledger[r])
      BY <2>2 DEF Provisional
    <2>6. ReadFrom(ledger, ledger')
      BY <1>0, <2>2, <2>3, <2>4, <2>5 DEF ReadFrom
    <2> QED BY <2>2, <2>6 DEF Traffic
  <1>4. ASSUME NEW w \in Workers, BeginRefresh(w)
        PROVE  Goal
    <2>1. checkpoint'.status = "running" /\ checkpoint'.completed = checkpoint.completed
      BY <1>0, <1>4 DEF BeginRefresh
    <2> QED BY <1>0, <1>4, <2>1 DEF BeginRefresh, ledgerVars, Tried
  <1>5. ASSUME NEW w \in Workers, Commit(w)
        PROVE  Goal
    BY <1>5 DEF Commit, ledgerVars, Committed
  <1>6. ASSUME NEW w \in Workers, Fail(w)
        PROVE  Goal
    <2>1. /\ checkpoint' = checkpoint \/ checkpoint'.status = "failed"
          /\ checkpoint'.completed = checkpoint.completed
      BY <1>0, <1>6 DEF Fail, FailedCheckpoint
    <2> QED BY <1>0, <1>6, <2>1 DEF Fail, ledgerVars, Tried
  <1>7. ASSUME NEW w \in Workers, Crash(w)
        PROVE  Goal
    BY <1>0, <1>7 DEF Crash, ledgerVars, Tried
  <1>8. ASSUME NEW w \in Workers,
               Wake(w) \/ Refused(w) \/ Conflict(w) \/ ListProbeTargets(w) \/ Probe(w)
        PROVE  Goal
    BY <1>1, <1>8 DEF Wake, Refused, Conflict, ListProbeTargets, Probe, ledgerVars, rollupVars
  <1>9. Tick \/ UpdateTargetHealth \/ UNCHANGED vars => Goal
    BY <1>1 DEF Tick, UpdateTargetHealth, vars, ledgerVars, rollupVars
  <1> HIDE DEF Goal
  <1>10. Goal
    BY <1>2, <1>3, <1>4, <1>5, <1>6, <1>7, <1>8, <1>9 DEF Next
  <1> QED BY <1>10 DEF Goal

\* What a commit leaves in the buckets: the hours of its range hold what it read of
\* them, the others what they held.
LEMMA CommittedBuckets ==
    ASSUME TypeOK, RowsKept, NEW w \in Workers, Committed(w)
    PROVE  /\ run[w] \in Ticks
           /\ \A h \in Hours : \/ buckets'[h] = buckets[h] /\ h \notin Rewritten(run[w])
                               \/ /\ h \in Rewritten(run[w])
                                  /\ buckets'[h] =
                                       Bucket(OfHour(InRange(snap[w], run[w]), h), run[w])
           /\ \A h \in Hours : ReadFrom(OfHour(InRange(snap[w], run[w]), h), ledger)
           /\ \A h \in Rewritten(run[w]) :
                 Included(h)' = {r \in DOMAIN snap[w] :
                                    /\ From(run[w]) <= snap[w][r].started
                                    /\ snap[w][r].started < run[w]
                                    /\ snap[w][r].actor # Person
                                    /\ Hour(snap[w][r].started) = h}
  <1> DEFINE t == run[w]
             S == snap[w]
             R == InRange(S, t)
             D == {q \in DOMAIN S : /\ From(t) <= S[q].started /\ S[q].started < t
                                    /\ S[q].actor # Person}
             E(h) == {q \in DOMAIN R : Hour(R[q].started) = h}
  <1>1. t \in Ticks
    BY DEF TypeOK
  <1>2. buckets' = [h \in Hours |-> IF h \notin Rewritten(t) THEN buckets[h]
                                    ELSE Bucket(OfHour(R, h), t)]
    BY DEF Committed, Rewrite
  <1>3. R = [r \in D |-> S[r]]
    BY DEF InRange
  <1>4. DOMAIN R = D /\ \A r \in D : R[r] = S[r]
    BY <1>3
  <1>5. \A h : OfHour(R, h) = [r \in E(h) |-> R[r]]
    BY DEF OfHour
  <1>6. ReadFrom(R, ledger)
    <2>1. D \in SUBSET DOMAIN S /\ ReadFrom(S, ledger)
      BY DEF RowsKept
    <2> HIDE DEF D, S
    <2> QED BY <1>3, <2>1, ReadPart
  <1> HIDE DEF R
  <1>7. \A h : ReadFrom(OfHour(R, h), ledger) /\ DOMAIN OfHour(R, h) = E(h)
    <2> TAKE h
    <2>1. E(h) \in SUBSET DOMAIN R
      OBVIOUS
    <2>2. OfHour(R, h) = [r \in E(h) |-> R[r]]
      BY <1>5
    <2> HIDE DEF E
    <2> QED BY <1>6, <2>1, <2>2, ReadPart
  <1>8. ASSUME NEW h \in Rewritten(t)
        PROVE  Included(h)' = {r \in D : Hour(S[r].started) = h}
    <2>1. h \in Hours
      BY <1>1, RewrittenAreHours
    <2>2. buckets'[h] = Bucket(OfHour(R, h), t)
      BY <1>2, <2>1
    <2>3. DOMAIN buckets'[h].rows = E(h)
      <3>1. DOMAIN OfHour(R, h) = E(h)
        BY <1>7
      <3> HIDE DEF t, E
      <3>2. DOMAIN Bucket(OfHour(R, h), t).rows = DOMAIN OfHour(R, h)
        BY <1>1, BucketRows
      <3> QED BY <2>2, <3>1, <3>2
    <2>4. E(h) = {r \in D : Hour(S[r].started) = h}
      BY <1>4
    <2> QED BY <2>3, <2>4 DEF Included
  <1>9. \A h \in Hours : \/ buckets'[h] = buckets[h] /\ h \notin Rewritten(t)
                         \/ /\ h \in Rewritten(t)
                            /\ buckets'[h] = Bucket(OfHour(R, h), t)
    BY <1>2
  <1>10. ASSUME NEW h \in Rewritten(t)
         PROVE  Included(h)' = {r \in DOMAIN S : /\ From(t) <= S[r].started
                                                 /\ S[r].started < t /\ S[r].actor # Person
                                                 /\ Hour(S[r].started) = h}
    BY <1>8
  <1> QED BY <1>1, <1>7, <1>9, <1>10 DEF R

LEMMA RowsKeptStep ==
    ASSUME TypeOK, RowsKept, [Next]_vars
    PROVE  RowsKept'
  <1>0. /\ ReadFrom(ledger, ledger) /\ ReadFrom(<<>>, ledger)
        /\ DOMAIN snap = Workers
    BY ReadSelf, ReadNothing DEF TypeOK
  <1>1. ASSUME Traffic
        PROVE  RowsKept'
    <2>1. UNCHANGED <<snap, buckets, lastRead>> /\ ReadFrom(ledger, ledger')
      BY <1>1 DEF Traffic
    <2>2. ASSUME NEW rows, ReadFrom(rows, ledger)
          PROVE  ReadFrom(rows, ledger')
      BY <2>1, <2>2, ReadTransitive
    <2>3. lastRead \subseteq DOMAIN ledger'
      BY <2>1 DEF RowsKept, ReadFrom
    <2>4. \A w \in Workers : ReadFrom(snap[w], ledger')
      BY <2>2 DEF RowsKept
    <2>5. \A h \in Hours : ReadFrom(buckets[h].rows, ledger')
      BY <2>2 DEF RowsKept
    <2> QED BY <2>1, <2>3, <2>4, <2>5 DEF RowsKept
  <1>2. ASSUME Tried
        PROVE  RowsKept'
    BY <1>0, <1>2 DEF Tried, RowsKept
  <1>3. ASSUME NEW w \in Workers, Committed(w)
        PROVE  RowsKept'
    <2>1. ledger' = ledger /\ lastRead' = DOMAIN snap[w] /\ snap' = [snap EXCEPT ![w] = <<>>]
      BY <1>3 DEF Committed
    <2>2. lastRead' \subseteq DOMAIN ledger
      BY <2>1 DEF RowsKept, ReadFrom
    <2>3. \A v \in Workers : ReadFrom(snap'[v], ledger)
      BY <1>0, <2>1 DEF RowsKept
    <2>4. ASSUME NEW h \in Hours
          PROVE  ReadFrom(buckets'[h].rows, ledger)
      <3>1. CASE buckets'[h] = buckets[h]
        BY <3>1 DEF RowsKept
      <3>2. CASE buckets'[h] = Bucket(OfHour(InRange(snap[w], run[w]), h), run[w])
        <4>1. ReadFrom(OfHour(InRange(snap[w], run[w]), h), ledger) /\ run[w] \in Ticks
          BY <1>3, CommittedBuckets
        <4>2. buckets'[h].rows \in {OfHour(InRange(snap[w], run[w]), h), <<>>}
          BY <3>2, <4>1, BucketRows
        <4> QED BY <1>0, <4>1, <4>2
      <3> QED BY <1>3, <3>1, <3>2, CommittedBuckets
    <2> QED BY <2>1, <2>2, <2>3, <2>4 DEF RowsKept
  <1> QED BY <1>1, <1>2, <1>3, RollupSteps

LEMMA ReconcilesStep ==
    ASSUME TypeOK, RowsKept, CheckpointReconciles, [Next]_vars
    PROVE  CheckpointReconciles'
  <1>1. UNCHANGED <<buckets, checkpoint>> \/ (buckets' = buckets /\ checkpoint'.status # "succeeded")
            => CheckpointReconciles'
    BY DEF CheckpointReconciles, Included
  <1>2. ASSUME NEW w \in Workers, Committed(w)
        PROVE  CheckpointReconciles'
    <2> DEFINE t == run[w]
               S == snap[w]
               D == {q \in DOMAIN S : /\ From(t) <= S[q].started /\ S[q].started < t
                                      /\ S[q].actor # Person}
    <2>1. checkpoint'.started = t /\ checkpoint'.completed = t
          /\ checkpoint'.sourceRows = SourceRows(w)
      BY <1>2 DEF Committed
    <2>2. t \in Ticks /\ t \in Nat
      BY <1>2, CommittedBuckets, WorkerAssumption DEF Ticks
    <2>3. \A h \in Rewritten(t) : Included(h)' = {r \in D : Hour(S[r].started) = h}
      <3>1. ASSUME NEW h \in Rewritten(t)
            PROVE  Included(h)' = {r \in DOMAIN S : /\ From(t) <= S[r].started
                                                    /\ S[r].started < t /\ S[r].actor # Person
                                                    /\ Hour(S[r].started) = h}
        BY <1>2, <3>1, CommittedBuckets
      <3> QED BY <3>1
    <2>4. \A r \in D : Hour(S[r].started) \in Rewritten(t)
      <3>1. SUFFICES ASSUME NEW r \in D
                     PROVE  Hour(S[r].started) \in Rewritten(t)
        OBVIOUS
      <3>2. S[r] \in Rows
        BY DEF RowsKept, ReadFrom
      <3>3. S[r].started \in Nat
        BY <3>2, WorkerAssumption DEF Rows, Ticks
      <3> QED BY <2>2, <3>1, <3>3, ReadIsRewritten
    <2>5. SourceRows(w) = Cardinality(D)
      BY DEF SourceRows, InRange
    <2> HIDE DEF t, S, D
    <2>6. UNION {Included(h)' : h \in Rewritten(t)} = D
      BY <2>3, <2>4
    <2>7. ASSUME NEW h \in Rewritten(t), buckets'[h] # Absent
          PROVE  buckets'[h].asOf = t
      <3>1. h \in Hours
        BY <2>2, RewrittenAreHours
      <3>2. buckets'[h] = Bucket(OfHour(InRange(snap[w], t), h), t)
        BY <1>2, <2>7, <3>1, CommittedBuckets DEF t
      <3> QED BY <2>2, <2>7, <3>2, BucketRows
    <2>8. /\ checkpoint'.sourceRows =
                Cardinality(UNION {Included(h)' : h \in Rewritten(checkpoint'.started)})
          /\ \A h \in Rewritten(checkpoint'.started) :
                buckets'[h] # Absent => buckets'[h].asOf = checkpoint'.completed
      BY <2>1, <2>5, <2>6, <2>7
    <2> QED BY <2>8 DEF CheckpointReconciles, Rewritten, From, Hour
  <1> QED BY <1>1, <1>2, RollupSteps DEF Traffic, Tried

LEMMA HoursCompleteStep ==
    ASSUME TypeOK, RowsKept, HoursComplete, [Next]_vars
    PROVE  HoursComplete'
  <1>1. ASSUME Traffic
        PROVE  HoursComplete'
    <2>1. UNCHANGED <<buckets, lastRead, checkpoint>>
      BY <1>1 DEF Traffic
    <2>2. \A r \in lastRead : ledger'[r].started = ledger[r].started
                              /\ ledger'[r].actor = ledger[r].actor
      BY <1>1 DEF Traffic, ReadFrom, RowsKept
    <2>3. \A h, t : {r \in lastRead : /\ ledger'[r].actor # Person
                                      /\ Hour(ledger'[r].started) = h
                                      /\ ledger'[r].started < t}
                    = {r \in lastRead : /\ ledger[r].actor # Person
                                        /\ Hour(ledger[r].started) = h
                                        /\ ledger[r].started < t}
      BY <2>2
    <2>4. ASSUME checkpoint.completed # Unknown, NEW h \in Rewritten(checkpoint.completed)
          PROVE  Included(h) = {r \in lastRead : /\ ledger'[r].actor # Person
                                                 /\ Hour(ledger'[r].started) = h
                                                 /\ ledger'[r].started < checkpoint.completed}
      BY <2>3, <2>4 DEF HoursComplete
    <2>5. checkpoint.status = "succeeded" =>
              checkpoint.completed \in Ticks /\ checkpoint.started = checkpoint.completed
      BY DEF HoursComplete
    <2>6. \A h : Included(h)' = Included(h)
      BY <2>1 DEF Included
    <2> QED BY <2>1, <2>4, <2>5, <2>6 DEF HoursComplete
  <1>2. ASSUME Tried
        PROVE  HoursComplete'
    BY <1>2 DEF Tried, HoursComplete, Included
  <1>3. ASSUME NEW w \in Workers, Committed(w)
        PROVE  HoursComplete'
    <2> DEFINE t == run[w]
               S == snap[w]
    <2>1. /\ checkpoint'.started = t /\ checkpoint'.completed = t
          /\ lastRead' = DOMAIN S /\ ledger' = ledger
      BY <1>3 DEF Committed
    <2>2. t \in Ticks /\ t \in Nat
      BY <1>3, CommittedBuckets, WorkerAssumption DEF Ticks
    <2>3. ASSUME NEW h \in Rewritten(t)
          PROVE  Included(h)' = {r \in DOMAIN S : /\ ledger[r].actor # Person
                                                  /\ Hour(ledger[r].started) = h
                                                  /\ ledger[r].started < t}
      <3>1. Included(h)' = {r \in DOMAIN S : /\ From(t) <= S[r].started
                                             /\ S[r].started < t /\ S[r].actor # Person
                                             /\ Hour(S[r].started) = h}
        BY <1>3, <2>3, CommittedBuckets
      <3>2. ASSUME NEW r \in DOMAIN S, Hour(S[r].started) = h
            PROVE  From(t) <= S[r].started
        <4>1. S[r] \in Rows
          BY DEF RowsKept, ReadFrom
        <4>2. S[r].started \in Nat
          BY <4>1, WorkerAssumption DEF Rows, Ticks
        <4>3. h \in Nat /\ h * HourLen <= S[r].started
          BY <3>2, <4>2, HourBounds
        <4>4. From(t) <= h * HourLen /\ From(t) \in Int /\ h * HourLen \in Int
          BY <2>2, <2>3, <4>3, RewrittenFrom
        <4> QED BY <4>2, <4>3, <4>4
      <3>3. \A r \in DOMAIN S : S[r].actor = ledger[r].actor /\ S[r].started = ledger[r].started
        BY DEF RowsKept, ReadFrom
      <3> QED BY <3>1, <3>2, <3>3
    <2> HIDE DEF t, S
    <2>4. \A h \in Rewritten(checkpoint'.completed) :
             Included(h)' = {r \in lastRead' : /\ ledger'[r].actor # Person
                                               /\ Hour(ledger'[r].started) = h
                                               /\ ledger'[r].started < checkpoint'.completed}
      BY <2>1, <2>3
    <2> QED BY <2>1, <2>2, <2>4 DEF HoursComplete, Rewritten, From, Hour
  <1> QED BY <1>1, <1>2, <1>3, RollupSteps

\* A run completes at or after the last completion, since it holds the lock from a start
\* that the checkpoint has admitted.
LEMMA RunsGoForwardStep ==
    ASSUME TypeOK, RowsKept, RunsGoForward, [Next]_vars
    PROVE  RunsGoForward'
  <1> DEFINE Completed == checkpoint.completed
  <1>0. /\ \A w \in Workers : wpc[w] = "rolling" <=> lock = w
        /\ NoWorker \notin Workers /\ run \in [Workers -> Ticks] /\ Ticks \subseteq Int
        /\ checkpoint \in [status : CheckpointStates, started : Ticks \cup {Unknown},
                           completed : Ticks \cup {Unknown}, sourceRows : Nat \cup {Unknown}]
        /\ Completed \in Ticks \cup {Unknown} /\ Unknown \notin Int
        /\ \A h \in Hours : buckets[h] # Absent => buckets[h].asOf \in Ticks
    BY WorkerAssumption DEF TypeOK, Ticks
  <1>1. UNCHANGED <<buckets, lock, run, Completed>> => RunsGoForward'
    BY DEF RunsGoForward
  \* A process leaves the lock to others, or frees it.
  <1>2. ASSUME NEW w \in Workers, UNCHANGED <<buckets, Completed>>,
               lock' # w, lock' \in {lock, NoWorker}, \A v \in Workers \ {w} : run'[v] = run[v]
        PROVE  RunsGoForward'
    BY <1>0, <1>2 DEF RunsGoForward
  <1>3. ASSUME NEW w \in Workers, NEW to, Return(w, to)
        PROVE  \A v \in Workers \ {w} : run'[v] = run[v]
    BY <1>0, <1>3 DEF Return
  <1>4. ASSUME NEW w \in Workers,
               Wake(w) \/ Refused(w) \/ Conflict(w) \/ ListProbeTargets(w) \/ Probe(w)
        PROVE  RunsGoForward'
    <2>1. UNCHANGED <<buckets, checkpoint, lock>> /\ wpc[w] # "rolling"
      BY <1>4 DEF Wake, Refused, Conflict, ListProbeTargets, Probe, rollupVars
    <2>2. \A v \in Workers \ {w} : run'[v] = run[v]
      BY <1>0, <1>3, <1>4 DEF Wake, Refused, Conflict, ListProbeTargets, Probe
    <2> QED BY <1>0, <1>2, <2>1, <2>2
  <1>5. ASSUME NEW w \in Workers, Fail(w) \/ Crash(w)
        PROVE  RunsGoForward'
    <2>1. /\ Return(w, "down") /\ buckets' = buckets
          /\ lock' = IF lock = w THEN NoWorker ELSE lock
      BY <1>5 DEF Fail, Crash
    <2>2. Completed' = Completed
      BY <1>0, <1>5 DEF Fail, Crash, FailedCheckpoint
    <2>3. lock' # w /\ lock' \in {lock, NoWorker}
      BY <1>0, <2>1
    <2> HIDE DEF Completed
    <2> QED BY <1>2, <1>3, <2>1, <2>2, <2>3
  <1>6. ASSUME NEW w \in Workers, BeginRefresh(w)
        PROVE  RunsGoForward'
    <2>1. Completed' = Completed
      BY <1>0, <1>6 DEF BeginRefresh
    <2>2. lock' = w /\ UNCHANGED <<buckets, run>> /\ (Completed # Unknown => Completed <= run[w])
      BY <1>6 DEF BeginRefresh, NotOutrun
    <2> QED BY <2>1, <2>2 DEF RunsGoForward
  <1>7. ASSUME NEW w \in Workers, Commit(w)
        PROVE  RunsGoForward'
    <2>1. Committed(w) /\ lock = w /\ lock' = NoWorker
      BY <1>0, <1>7 DEF Commit, Committed, ledgerVars
    <2>2. Completed' = run[w] /\ run[w] \in Ticks /\ run[w] \in Int
      BY <1>0, <2>1, WorkerAssumption DEF Committed, Ticks
    <2>3. ASSUME NEW h \in Hours, buckets'[h] # Absent
          PROVE  buckets'[h].asOf <= run[w]
      <3>1. CASE buckets'[h] = buckets[h]
        <4>1. Completed # Unknown /\ buckets[h].asOf <= Completed
          BY <2>3, <3>1 DEF RunsGoForward
        <4>2. Completed <= run[w]
          BY <2>1, <4>1 DEF RunsGoForward
        <4>3. buckets[h].asOf \in Int /\ Completed \in Int
          BY <1>0, <2>3, <3>1, <4>1, WorkerAssumption DEF Ticks
        <4> HIDE DEF Completed
        <4> QED BY <2>2, <3>1, <4>1, <4>2, <4>3
      <3>2. CASE buckets'[h] = Bucket(OfHour(InRange(snap[w], run[w]), h), run[w])
        <4>1. buckets'[h].asOf = run[w]
          BY <2>2, <2>3, <3>2, BucketRows
        <4> QED BY <2>2, <4>1
      <3> QED BY <2>1, <3>1, <3>2, CommittedBuckets
    <2>4. run[w] # Unknown
      BY <1>0, <2>2
    <2> QED BY <1>0, <2>1, <2>2, <2>3, <2>4 DEF RunsGoForward
  <1>8. ASSUME \/ Tick \/ UpdateTargetHealth \/ UNCHANGED vars
               \/ \E r \in Requests : CreateInferenceRequest(r) \/ CompleteInferenceRequest(r)
        PROVE  RunsGoForward'
    <2>1. UNCHANGED <<buckets, lock, run, checkpoint>>
      BY <1>8 DEF Tick, UpdateTargetHealth, vars, CreateInferenceRequest,
                  CompleteInferenceRequest, rollupVars
    <2> QED BY <1>1, <2>1
  <1> HIDE DEF Completed
  <1> QED BY <1>4, <1>5, <1>6, <1>7, <1>8 DEF Next

----------------------------------------------------------------------------
(* Types.                                                                  *)

\* The steps a process may be at.
Places == {"down", "idle", "due", "due_first", "rolling", "listing", "probing"}

\* A process that is not in the lock's section moves on without the lock.
LEMMA LockKept ==
    ASSUME TypeOK, NEW w \in Workers, NEW to \in Places \ {"rolling"},
           wpc' = [wpc EXCEPT ![w] = to],
           \/ lock' = lock /\ wpc[w] # "rolling"
           \/ lock' = IF lock = w THEN NoWorker ELSE lock
    PROVE  /\ wpc' \in [Workers -> Places]
           /\ lock' \in Workers \cup {NoWorker}
           /\ \A v \in Workers : wpc'[v] = "rolling" <=> lock' = v
  <1>0. /\ wpc \in [Workers -> Places] /\ lock \in Workers \cup {NoWorker}
        /\ \A v \in Workers : wpc[v] = "rolling" <=> lock = v
        /\ NoWorker \notin Workers
    BY WorkerAssumption DEF TypeOK, Places
  <1> QED BY <1>0

LEMMA UsageTypeStep ==
    ASSUME TypeOK, RowsKept, [Next]_vars
    PROVE  TypeOK'
  <1> DEFINE CheckpointRow == [status : CheckpointStates, started : Ticks \cup {Unknown},
                               completed : Ticks \cup {Unknown}, sourceRows : Nat \cup {Unknown}]
             BucketsOK == \A h \in Hours : buckets[h] # Absent =>
                 buckets[h].asOf \in Ticks /\ DOMAIN buckets[h].rows \in (SUBSET Requests) \ {{}}
  <1>0. /\ now \in Ticks /\ deployment \in Deployments
        /\ DOMAIN ledger \subseteq deployment.traffic /\ ledger \in [DOMAIN ledger -> Rows]
        /\ wpc \in [Workers -> Places] /\ run \in [Workers -> Ticks]
        /\ lock \in Workers \cup {NoWorker}
        /\ \A w \in Workers : wpc[w] = "rolling" <=> lock = w
        /\ checkpoint \in CheckpointRow /\ BucketsOK /\ DOMAIN snap = Workers
        /\ health \in HealthStatuses
        /\ observations \in Seq([at : Ticks, status : HealthStatuses])
        /\ faults \in 0 .. deployment.faults
    BY DEF TypeOK, Places
  <1>1. ASSUME /\ now' \in Ticks /\ deployment' \in Deployments
               /\ DOMAIN ledger' \subseteq deployment'.traffic /\ ledger' \in [DOMAIN ledger' -> Rows]
               /\ wpc' \in [Workers -> Places] /\ run' \in [Workers -> Ticks]
               /\ lock' \in Workers \cup {NoWorker}
               /\ \A w \in Workers : wpc'[w] = "rolling" <=> lock' = w
               /\ checkpoint' \in CheckpointRow /\ BucketsOK' /\ DOMAIN snap' = Workers
               /\ health' \in HealthStatuses
               /\ observations' \in Seq([at : Ticks, status : HealthStatuses])
               /\ faults' \in 0 .. deployment'.faults
        PROVE  TypeOK'
    BY <1>1 DEF TypeOK, Places
  <1>2. /\ deployment.until \in 0 .. MaxNow /\ deployment.faults \in Nat /\ MaxNow \in Nat
        /\ deployment.traffic \subseteq Requests /\ MaxDelay \in Nat
    BY <1>0, WorkerAssumption DEF DeploymentType
  <1>3. buckets' = buckets => BucketsOK'
    BY <1>0
  <1>4. ASSUME NEW w \in Workers, NEW to \in Places, Return(w, to)
        PROVE  wpc' = [wpc EXCEPT ![w] = to] /\ run' \in [Workers -> Ticks]
    BY <1>0, <1>2, <1>4 DEF Return, Ticks
  <1> HIDE DEF CheckpointRow, BucketsOK
  <1>5. CASE Tick
    <2>1. now' \in Ticks
      BY <1>0, <1>2, <1>5 DEF Tick, Ticks
    <2> QED BY <1>0, <1>1, <1>3, <1>5, <2>1 DEF Tick, rollupVars, probeVars
  <1>6. ASSUME NEW r \in Requests, CreateInferenceRequest(r)
        PROVE  TypeOK'
    <2> DEFINE Row(s) == [started |-> s, completed |-> Open, status |-> "in_progress",
                          usage |-> "unknown", actor |-> ActorOf[r], model |-> ModelOf[r],
                          amount |-> AmountOf[r]]
    <2>1. PICK s \in Max({0, now - MaxDelay}) .. now :
             ledger' = [q \in DOMAIN ledger \cup {r} |-> IF q = r THEN Row(s) ELSE ledger[q]]
      BY <1>6 DEF CreateInferenceRequest
    <2>2. s \in Ticks
      <3>1. now \in Int /\ 0 \in Int /\ now - MaxDelay \in Int
        BY <1>0, <1>2 DEF Ticks
      <3>2. Max({0, now - MaxDelay}) \in {0, now - MaxDelay} /\ Max({0, now - MaxDelay}) >= 0
        BY <3>1, MaxOfTwo, Zenon
      <3>3. Max({0, now - MaxDelay}) \in Int
        BY <3>1, <3>2
      <3> QED BY <1>0, <1>2, <3>2, <3>3 DEF Ticks
    <2>3. Row(s) \in Rows
      BY <2>2 DEF Rows, Statuses, UsageStates
    <2> HIDE DEF Row
    <2>4. /\ DOMAIN ledger' \subseteq deployment.traffic
          /\ ledger' \in [DOMAIN ledger' -> Rows]
      BY <1>0, <1>6, <2>1, <2>3 DEF CreateInferenceRequest
    <2> QED BY <1>0, <1>1, <1>3, <1>6, <2>4 DEF CreateInferenceRequest, rollupVars, probeVars
  <1>7. ASSUME NEW r \in Requests, CompleteInferenceRequest(r)
        PROVE  TypeOK'
    <2>1. PICK e \in Endings :
             ledger' = [ledger EXCEPT ![r].status = e[1], ![r].completed = now, ![r].usage = e[2]]
      BY <1>7 DEF CompleteInferenceRequest
    <2>2. r \in DOMAIN ledger
      BY <1>7 DEF CompleteInferenceRequest
    <2>3. ledger' = [ledger EXCEPT ![r] =
                       [ledger[r] EXCEPT !.status = e[1], !.completed = now, !.usage = e[2]]]
      BY <1>0, <2>1, <2>2
    <2>4. ledger[r] \in Rows
      BY <1>0, <2>2
    <2>5. e[1] \in Statuses /\ e[2] \in UsageStates
      BY WorkerAssumption DEF Outcomes
    <2>6. [ledger[r] EXCEPT !.status = e[1], !.completed = now, !.usage = e[2]] \in Rows
      BY <1>0, <2>4, <2>5 DEF Rows
    <2>7. DOMAIN ledger' = DOMAIN ledger /\ ledger' \in [DOMAIN ledger' -> Rows]
      BY <1>0, <2>3, <2>6
    <2> QED BY <1>0, <1>1, <1>3, <1>7, <2>7 DEF CompleteInferenceRequest, rollupVars, probeVars
  <1>8. ASSUME NEW w \in Workers, Wake(w)
        PROVE  TypeOK'
    <2>1. PICK to \in {"due", "due_first"} : wpc' = [wpc EXCEPT ![w] = to]
      BY <1>0, <1>8 DEF Wake
    <2>2. wpc[w] # "rolling" /\ run' \in [Workers -> Ticks] /\ lock' = lock
      BY <1>0, <1>8 DEF Wake, rollupVars
    <2>3. /\ wpc' \in [Workers -> Places]
          /\ \A v \in Workers : wpc'[v] = "rolling" <=> lock' = v
      BY <2>1, <2>2, LockKept DEF Places
    <2> QED BY <1>0, <1>1, <1>3, <1>8, <2>2, <2>3 DEF Wake, ledgerVars, rollupVars, probeVars
  <1>9. ASSUME NEW w \in Workers, BeginRefresh(w)
        PROVE  TypeOK'
    <2>1. /\ wpc' = [wpc EXCEPT ![w] = "rolling"] /\ lock = NoWorker /\ lock' = w
      BY <1>9 DEF BeginRefresh, LockFree
    <2>2. /\ wpc' \in [Workers -> Places]
          /\ \A v \in Workers : wpc'[v] = "rolling" <=> lock' = v
      BY <1>0, <2>1, WorkerAssumption DEF Places
    <2>3. checkpoint' \in CheckpointRow
      BY <1>0, <1>9 DEF BeginRefresh, CheckpointRow, CheckpointStates
    <2>4. DOMAIN snap' = Workers
      BY <1>0, <1>9 DEF BeginRefresh
    <2> QED BY <1>0, <1>1, <1>3, <1>9, <2>1, <2>2, <2>3, <2>4
          DEF BeginRefresh, ledgerVars, probeVars
  <1>10. ASSUME NEW w \in Workers, Conflict(w) \/ Refused(w)
         PROVE  TypeOK'
    <2>1. PICK to \in {"down", "idle"} : Return(w, to)
      BY <1>10 DEF Conflict, Refused
    <2>2. wpc' = [wpc EXCEPT ![w] = to] /\ run' \in [Workers -> Ticks]
      BY <1>4, <2>1 DEF Places
    <2>3. wpc[w] # "rolling" /\ lock' = lock
      BY <1>10 DEF Conflict, Refused, rollupVars
    <2>4. /\ wpc' \in [Workers -> Places]
          /\ \A v \in Workers : wpc'[v] = "rolling" <=> lock' = v
      BY <2>2, <2>3, LockKept DEF Places
    <2> QED BY <1>0, <1>1, <1>3, <1>10, <2>2, <2>4
          DEF Conflict, Refused, ledgerVars, rollupVars, probeVars
  <1>11. ASSUME NEW w \in Workers, Commit(w)
         PROVE  TypeOK'
    <2>1. Committed(w) /\ lock = w /\ lock' = NoWorker
      BY <1>0, <1>11 DEF Commit, Committed, ledgerVars
    <2>2. PICK to \in {"listing", "idle"} :
             wpc' = [wpc EXCEPT ![w] = to] /\ run' \in [Workers -> Ticks]
      BY <1>0, <1>4, <1>11 DEF Commit, Places
    <2>3. /\ wpc' \in [Workers -> Places]
          /\ \A v \in Workers : wpc'[v] = "rolling" <=> lock' = v
      BY <2>1, <2>2, LockKept DEF Places
    <2>4. checkpoint' \in CheckpointRow
      <3>1. SourceRows(w) \in Nat
        <4>1. DOMAIN InRange(snap[w], run[w]) \subseteq Requests
          BY <1>0, <1>2 DEF InRange, RowsKept, ReadFrom
        <4>2. IsFiniteSet(DOMAIN InRange(snap[w], run[w]))
          BY <4>1, WorkerAssumption, FS_Subset
        <4> QED BY <4>2, FS_CardinalityType DEF SourceRows
      <3> QED BY <1>0, <2>1, <3>1 DEF Committed, CheckpointRow, CheckpointStates
    <2>5. BucketsOK'
      <3>1. SUFFICES ASSUME NEW h \in Hours, buckets'[h] # Absent
                     PROVE  /\ buckets'[h].asOf \in Ticks
                            /\ DOMAIN buckets'[h].rows \in (SUBSET Requests) \ {{}}
        BY DEF BucketsOK
      <3>2. CASE buckets'[h] = buckets[h]
        BY <1>0, <3>1, <3>2 DEF BucketsOK
      <3>3. CASE buckets'[h] = Bucket(OfHour(InRange(snap[w], run[w]), h), run[w])
        <4> DEFINE rows == OfHour(InRange(snap[w], run[w]), h)
        <4>1. ReadFrom(rows, ledger) /\ run[w] \in Ticks
          BY <2>1, CommittedBuckets
        <4>2. DOMAIN rows \subseteq Requests
          BY <1>0, <1>2, <4>1 DEF ReadFrom
        <4> HIDE DEF rows
        <4>3. DOMAIN rows # {} /\ buckets'[h].rows = rows /\ buckets'[h].asOf = run[w]
          BY <3>1, <3>3, <4>1, BucketRows DEF rows
        <4> QED BY <4>1, <4>2, <4>3
      <3> QED BY <2>1, <3>2, <3>3, CommittedBuckets
    <2>6. DOMAIN snap' = Workers
      BY <1>0, <2>1 DEF Committed
    <2> QED BY <1>0, <1>1, <1>11, <2>1, <2>2, <2>3, <2>4, <2>5, <2>6 DEF Commit, ledgerVars, probeVars
  <1>12. ASSUME NEW w \in Workers, Fail(w) \/ Crash(w)
         PROVE  TypeOK'
    <2>1. Return(w, "down") /\ lock' = IF lock = w THEN NoWorker ELSE lock
      BY <1>12 DEF Fail, Crash
    <2>2. wpc' = [wpc EXCEPT ![w] = "down"] /\ run' \in [Workers -> Ticks]
      BY <1>4, <2>1 DEF Places
    <2>3. /\ wpc' \in [Workers -> Places] /\ lock' \in Workers \cup {NoWorker}
          /\ \A v \in Workers : wpc'[v] = "rolling" <=> lock' = v
      BY <2>1, <2>2, LockKept DEF Places
    <2>4. faults' \in 0 .. deployment.faults
      BY <1>0, <1>2, <1>12 DEF Fail, Crash
    <2>5. checkpoint' \in CheckpointRow
      BY <1>0, <1>12 DEF Fail, Crash, FailedCheckpoint, CheckpointRow, CheckpointStates
    <2>6. DOMAIN snap' = Workers
      BY <1>0, <1>12 DEF Fail, Crash
    <2> QED BY <1>0, <1>1, <1>3, <1>12, <2>2, <2>3, <2>4, <2>5, <2>6
          DEF Fail, Crash, ledgerVars, probeVars
  <1>13. ASSUME NEW w \in Workers, ListProbeTargets(w)
         PROVE  TypeOK'
    <2>1. PICK to \in {"idle", "probing"} :
             wpc' = [wpc EXCEPT ![w] = to] /\ run' \in [Workers -> Ticks]
      BY <1>0, <1>4, <1>13 DEF ListProbeTargets, Places
    <2>2. wpc[w] # "rolling" /\ lock' = lock
      BY <1>13 DEF ListProbeTargets, rollupVars
    <2>3. /\ wpc' \in [Workers -> Places]
          /\ \A v \in Workers : wpc'[v] = "rolling" <=> lock' = v
      BY <2>1, <2>2, LockKept DEF Places
    <2> QED BY <1>0, <1>1, <1>3, <1>13, <2>1, <2>3
          DEF ListProbeTargets, ledgerVars, rollupVars, probeVars
  <1>14. ASSUME NEW w \in Workers, Probe(w)
         PROVE  TypeOK'
    <2>1. Return(w, "idle") /\ wpc[w] # "rolling" /\ lock' = lock
      BY <1>14 DEF Probe, rollupVars
    <2>2. wpc' = [wpc EXCEPT ![w] = "idle"] /\ run' \in [Workers -> Ticks]
      BY <1>4, <2>1 DEF Places
    <2>3. /\ wpc' \in [Workers -> Places]
          /\ \A v \in Workers : wpc'[v] = "rolling" <=> lock' = v
      BY <2>1, <2>2, LockKept DEF Places
    <2>4. PICK answer \in Answers :
             /\ observations' = Append(observations, [at |-> run[w], status |-> ProbeStatus(answer)])
             /\ health' = ProbeStatus(answer)
      BY <1>14 DEF Probe, HealthAfter
    <2>5. ProbeStatus(answer) \in HealthStatuses
      BY DEF ProbeStatus, HealthStatuses
    <2>6. [at |-> run[w], status |-> ProbeStatus(answer)] \in [at : Ticks, status : HealthStatuses]
      BY <1>0, <2>5
    <2>7. observations' \in Seq([at : Ticks, status : HealthStatuses])
      BY <1>0, <2>4, <2>6
    <2> QED BY <1>0, <1>1, <1>3, <1>14, <2>2, <2>3, <2>4, <2>5, <2>7
          DEF Probe, ledgerVars, rollupVars
  <1>15. CASE UpdateTargetHealth
    BY <1>0, <1>1, <1>3, <1>15 DEF UpdateTargetHealth, HealthStatuses, ledgerVars, rollupVars
  <1>16. CASE UNCHANGED vars
    BY <1>0, <1>1, <1>3, <1>16 DEF vars, ledgerVars, rollupVars, probeVars
  <1> QED BY <1>5, <1>6, <1>7, <1>8, <1>9, <1>10, <1>11, <1>12, <1>13, <1>14, <1>15, <1>16 DEF Next

----------------------------------------------------------------------------
(* The theorems.                                                           *)

\* The part of RollupInv that the steps preserve; the rest follows from it.
CoreInv == TypeOK /\ RowsKept /\ CheckpointReconciles /\ HoursComplete /\ RunsGoForward

LEMMA CoreInit ==
    ASSUME Init
    PROVE  CoreInv
  <1>1. /\ ledger = <<>> /\ lastRead = {} /\ checkpoint.status = "unavailable"
        /\ checkpoint.completed = Unknown
        /\ \A w \in Workers : snap[w] = <<>>
        /\ \A h \in Hours : buckets[h].rows = <<>> /\ buckets[h] = Absent
    BY DEF Init, Absent
  <1>2. RowsKept
    BY <1>1, ReadNothing DEF RowsKept
  <1>3. CheckpointReconciles /\ HoursComplete /\ RunsGoForward
    BY <1>1 DEF CheckpointReconciles, HoursComplete, RunsGoForward
  <1>4. TypeOK
    <2>1. MaxNow \in Nat /\ NoWorker \notin Workers
          /\ deployment \in Deployments /\ deployment.faults \in Nat
      BY WorkerAssumption DEF Init, DeploymentType
    <2>2. now \in Ticks /\ run \in [Workers -> Ticks]
      BY <2>1 DEF Init, Ticks
    <2>3. DOMAIN ledger \subseteq deployment.traffic /\ ledger \in [DOMAIN ledger -> Rows]
      BY <1>1, ReadNothing
    <2>4. /\ wpc \in [Workers -> {"down", "idle", "due", "due_first", "rolling", "listing",
                                  "probing"}]
          /\ lock \in Workers \cup {NoWorker}
          /\ \A w \in Workers : wpc[w] = "rolling" <=> lock = w
      BY <2>1 DEF Init
    <2>5. checkpoint \in [status : CheckpointStates, started : Ticks \cup {Unknown},
                          completed : Ticks \cup {Unknown}, sourceRows : Nat \cup {Unknown}]
      BY DEF Init, CheckpointStates
    <2>6. DOMAIN snap = Workers /\ health \in HealthStatuses
          /\ observations \in Seq([at : Ticks, status : HealthStatuses])
          /\ faults \in 0 .. deployment.faults
      BY <2>1 DEF Init, HealthStatuses
    <2> QED BY <1>1, <2>1, <2>2, <2>3, <2>4, <2>5, <2>6 DEF TypeOK
  <1> QED BY <1>2, <1>3, <1>4 DEF CoreInv

\* A bucket without provisional rows has the rows that the ledger has now.
LEMMA FinalStands ==
    ASSUME CoreInv
    PROVE  FinalBucketStands
  <1> SUFFICES ASSUME NEW h \in Hours, Columns(h).finality = "final"
               PROVE  Columns(h) = Rollup(Counted(h), h, buckets[h].asOf)
    BY DEF FinalBucketStands
  <1> DEFINE rows == buckets[h].rows
  <1>1. ReadFrom(rows, ledger)
    BY DEF CoreInv, RowsKept
  <1>2. ~ \E r \in DOMAIN rows : Provisional(rows[r])
    <2>1. Columns(h).finality = RollupFinality(rows, h, buckets[h].asOf)
      BY DEF Columns, Rollup
    <2> QED BY <2>1 DEF RollupFinality
  <1>3. Counted(h) = [r \in DOMAIN rows |-> ledger[r]]
    BY DEF Counted, Included
  <1> HIDE DEF rows
  <1>4. [r \in DOMAIN rows |-> ledger[r]] = rows
    BY <1>1, <1>2 DEF ReadFrom
  <1> QED BY <1>3, <1>4 DEF Columns, rows

\* What the dashboard calls fully represented is a range of hours that were over.
LEMMA RepresentedComplete ==
    ASSUME CoreInv
    PROVE  RepresentedIsComplete
  <1> SUFFICES ASSUME NEW h1 \in Hours, NEW h2 \in h1 .. Hour(MaxNow),
                      RangeFullyRepresented(h1, h2), NEW h \in h1 .. h2
               PROVE  Included(h) = {r \in lastRead : ledger[r].actor # Person
                                                      /\ Hour(ledger[r].started) = h}
    BY DEF RepresentedIsComplete
  <1> DEFINE t == checkpoint.started
  <1>1. /\ checkpoint.status = "succeeded" /\ From(t) <= h1 * HourLen
        /\ OverAt(h2) <= t
    <2>1. /\ checkpoint.status = "succeeded" /\ From(t) <= h1 * HourLen /\ t >= OverAt(h2)
      BY DEF RangeFullyRepresented
    <2>2. t \in Nat
      BY <2>1, WorkerAssumption DEF CoreInv, HoursComplete, Ticks
    <2>3. OverAt(h2) \in Int
      BY HourBounds, WorkerAssumption, HourLenAssumption DEF OverAt, Hours
    <2> HIDE DEF t
    <2> QED BY <2>1, <2>2, <2>3
  <1>2. t \in Nat /\ From(t) \in Int
    <2>1. t \in Nat
      BY <1>1, WorkerAssumption DEF CoreInv, HoursComplete, Ticks
    <2> QED BY <2>1, FromHour
  <1>3. Hour(MaxNow) \in Nat
    BY WorkerAssumption, HourBounds
  <1>4. h \in Hours /\ h1 \in Int /\ h2 \in Int /\ h \in Int /\ h1 <= h /\ h <= h2
    BY <1>3 DEF Hours
  <1>5. /\ h1 * HourLen <= h * HourLen /\ OverAt(h) <= OverAt(h2)
        /\ h1 * HourLen \in Int /\ h * HourLen \in Int /\ OverAt(h) \in Int /\ OverAt(h2) \in Int
    <2>1. h + 1 \in Int /\ h2 + 1 \in Int /\ h + 1 <= h2 + 1
      BY <1>4
    <2>2. /\ h1 * HourLen <= h * HourLen /\ h1 * HourLen \in Int /\ h * HourLen \in Int
      BY <1>4, Product
    <2>3. (h + 1) * HourLen <= (h2 + 1) * HourLen
      BY <2>1, Product
    <2>4. (h + 1) * HourLen \in Int /\ (h2 + 1) * HourLen \in Int
      BY <2>1, Product
    <2> QED BY <2>2, <2>3, <2>4 DEF OverAt
  <1>6. From(t) <= h * HourLen /\ OverAt(h) <= t
    <2> HIDE DEF t
    <2> QED BY <1>1, <1>2, <1>5
  <1>7. t = checkpoint.completed /\ t # Unknown
    BY <1>1, <1>2, WorkerAssumption DEF CoreInv, HoursComplete
  <1>8. h \in Nat /\ h \in Rewritten(t)
    <2>1. h \in Nat
      BY <1>3, <1>4 DEF Hours
    <2> HIDE DEF t
    <2> QED BY <1>2, <1>6, <2>1, OverIsRewritten
  <1>9. ASSUME NEW r \in lastRead, Hour(ledger[r].started) = h
        PROVE  ledger[r].started < t
    <2>1. ledger[r] \in Rows
      BY DEF CoreInv, TypeOK, RowsKept
    <2>2. ledger[r].started \in Nat
      BY <2>1, WorkerAssumption DEF Rows, Ticks
    <2>3. ledger[r].started < OverAt(h)
      BY <1>9, <2>2, HourBounds
    <2> HIDE DEF t
    <2> QED BY <1>2, <1>5, <1>6, <2>2, <2>3
  <1>10. Included(h) = {r \in lastRead : /\ ledger[r].actor # Person
                                         /\ Hour(ledger[r].started) = h
                                         /\ ledger[r].started < t}
    BY <1>7, <1>8 DEF CoreInv, HoursComplete
  <1> HIDE DEF t
  <1> QED BY <1>9, <1>10

\* The rollups at every moment: what is final stands, the checkpoint counts what the
\* buckets hold, no run goes back behind one that completed, and a period that the
\* dashboard calls fully represented is complete, for any number of processes and
\* failures (RefreshUsageRollups, loadDashboardWithOptions).
THEOREM Rollups == Spec => []RollupInv
  <1>1. Init => CoreInv
    BY CoreInit
  <1>2. CoreInv /\ [Next]_vars => CoreInv'
    BY UsageTypeStep, RowsKeptStep, ReconcilesStep, HoursCompleteStep, RunsGoForwardStep
       DEF CoreInv
  <1>3. CoreInv => RollupInv
    BY FinalStands, RepresentedComplete DEF CoreInv, RollupInv
  <1> QED BY <1>1, <1>2, <1>3, PTL DEF Spec

\* The registry has the status of the last probe, or one that the gateway wrote, which
\* is never "unavailable".
LastProbeStands ==
    observations # <<>> /\ observations[Len(observations)].status = "operational"
        => health # "unavailable"

\* A route that the portal shows as operational is one the gateway routes to, unless
\* probes were recorded out of order (RecordProbeObservation, ListPortalObservations).
THEOREM Callable == Spec => []OperationalIsCallable
  <1>1. Init => LastProbeStands
    BY DEF Init, LastProbeStands
  <1>2. TypeOK /\ LastProbeStands /\ [Next]_vars => LastProbeStands'
    <2> SUFFICES ASSUME TypeOK, LastProbeStands, [Next]_vars
                 PROVE  LastProbeStands'
      OBVIOUS
    <2>1. UNCHANGED <<health, observations>> => LastProbeStands'
      BY DEF LastProbeStands
    <2>2. UpdateTargetHealth => LastProbeStands'
      BY DEF UpdateTargetHealth, LastProbeStands
    <2>3. ASSUME NEW w \in Workers, Probe(w)
          PROVE  LastProbeStands'
      <3>1. PICK answer \in Answers :
               /\ observations' = Append(observations,
                                         [at |-> run[w], status |-> ProbeStatus(answer)])
               /\ health' = ProbeStatus(answer)
        BY <2>3 DEF Probe, HealthAfter
      <3>2. observations \in Seq([at : Ticks, status : HealthStatuses])
        BY DEF TypeOK
      <3>3. [at |-> run[w], status |-> ProbeStatus(answer)] \in [at : Ticks, status : HealthStatuses]
        BY DEF TypeOK, ProbeStatus, HealthStatuses
      <3>4. observations'[Len(observations')] = [at |-> run[w], status |-> ProbeStatus(answer)]
        BY <3>1, <3>2, <3>3
      <3> QED BY <3>1, <3>4 DEF LastProbeStands
    <2>4. ASSUME NEW w \in Workers,
                 \/ Wake(w) \/ BeginRefresh(w) \/ Refused(w) \/ Conflict(w) \/ Commit(w)
                 \/ Fail(w) \/ Crash(w) \/ ListProbeTargets(w)
          PROVE  UNCHANGED <<health, observations>>
      BY <2>4 DEF Wake, BeginRefresh, Refused, Conflict, Commit, Fail, Crash,
                  ListProbeTargets, probeVars
    <2>5. ASSUME NEW r \in Requests, CreateInferenceRequest(r) \/ CompleteInferenceRequest(r)
          PROVE  UNCHANGED <<health, observations>>
      BY <2>5 DEF CreateInferenceRequest, CompleteInferenceRequest, probeVars
    <2>6. Tick \/ UNCHANGED vars => UNCHANGED <<health, observations>>
      BY DEF Tick, vars, probeVars
    <2> QED BY <2>1, <2>2, <2>3, <2>4, <2>5, <2>6 DEF Next
  <1>3. TypeOK /\ LastProbeStands => OperationalIsCallable
    <2> SUFFICES ASSUME TypeOK, LastProbeStands,
                        \A i, j \in DOMAIN observations :
                            i < j => observations[i].at < observations[j].at,
                        "operational" \in ShownStates
                 PROVE  health # "unavailable"
      BY DEF OperationalIsCallable
    <2> DEFINE newest == {i \in DOMAIN observations :
                             \A j \in DOMAIN observations :
                                 observations[j].at <= observations[i].at}
    <2>1. PICK i \in newest : observations[i].status = "operational"
      <3>1. newest = {} => ShownStates = {"unknown"}
        BY DEF ShownStates
      <3>2. newest # {} => ShownStates =
               {IF observations[i].at + ProbeInterval > now THEN observations[i].status
                ELSE "unknown" : i \in newest}
        BY DEF ShownStates
      <3> HIDE DEF newest
      <3> QED BY <3>1, <3>2
    <2>2. /\ observations \in Seq([at : Ticks, status : HealthStatuses])
          /\ MaxNow \in Nat
      BY WorkerAssumption DEF TypeOK
    <2>3. i \in 1 .. Len(observations) /\ Len(observations) \in Nat
      BY <2>1, <2>2
    <2>4. Len(observations) \in DOMAIN observations
      BY <2>2, <2>3
    <2>5. observations[Len(observations)].at <= observations[i].at
      BY <2>1, <2>4
    <2>6. /\ observations[i] \in [at : Ticks, status : HealthStatuses]
          /\ observations[Len(observations)] \in [at : Ticks, status : HealthStatuses]
      <3> DEFINE Observation == [at : Ticks, status : HealthStatuses]
      <3>1. observations \in Seq(Observation)
        BY <2>2
      <3>2. Len(observations) \in 1 .. Len(observations)
        BY <2>3
      <3> HIDE DEF Observation
      <3>3. observations[i] \in Observation /\ observations[Len(observations)] \in Observation
        BY <2>3, <3>1, <3>2
      <3> QED BY <3>3 DEF Observation
    <2>7. /\ observations[Len(observations)].at \in Int /\ observations[i].at \in Int
      BY <2>2, <2>6 DEF Ticks
    <2>8. i = Len(observations)
      <3>1. i < Len(observations) => observations[i].at < observations[Len(observations)].at
        BY <2>1, <2>4
      <3> QED BY <2>3, <2>5, <2>7, <3>1
    <2> QED BY <2>1, <2>3, <2>8 DEF LastProbeStands
  <1>4. RollupInv => TypeOK
    BY DEF RollupInv
  <1> QED BY <1>1, <1>2, <1>3, <1>4, Rollups, PTL DEF Spec

----------------------------------------------------------------------------
(* Induction over numbers and finite sets, with a set in place of a predicate. *)

LEMMA Least ==
    ASSUME NEW T \in SUBSET Nat, T # {}
    PROVE  \E x \in T : \A y \in T : x <= y
  <1>1. \E x \in T : \A y \in T : ~ (<<y, x>> \in OpToRel(<, Nat))
    BY NatLessThanWellFounded, WFMin, Zenon
  <1>2. PICK x \in T : \A y \in T : ~ (<<y, x>> \in OpToRel(<, Nat))
    BY <1>1, Zenon
  <1>3. \A y \in T : ~ (y < x)
    BY <1>2 DEF OpToRel
  <1> QED BY <1>3

LEMMA UpTo ==
    ASSUME NEW n \in Nat, NEW T, 0 \in T, \A i \in Nat : i \in T => i + 1 \in T
    PROVE  n \in T
  <1> DEFINE B == {i \in Nat : i \notin T}
  <1>1. SUFFICES ASSUME B # {} PROVE FALSE
    OBVIOUS
  <1>2. B \in SUBSET Nat
    OBVIOUS
  <1> HIDE DEF B
  <1>3. PICK x \in B : \A y \in B : x <= y
    BY <1>1, <1>2, Least
  <1> USE DEF B
  <1>4. x # 0
    BY <1>3
  <1>5. x - 1 \in Nat /\ x - 1 \notin B
    BY <1>3, <1>4
  <1>6. x - 1 \in T
    BY <1>5
  <1> QED BY <1>3, <1>5, <1>6

\* A set with the empty set and every extension of its elements by an element of S.
LEMMA Subsets ==
    ASSUME NEW S, IsFiniteSet(S), NEW X, {} \in X,
           \A s \in SUBSET S, x \in S : s \in X /\ x \notin s => s \cup {x} \in X
    PROVE  \A s \in SUBSET S : s \in X
  <1> DEFINE T == {n \in Nat : \A s \in SUBSET S : Cardinality(s) = n => s \in X}
  <1>1. \A s \in SUBSET S : IsFiniteSet(s) /\ Cardinality(s) \in Nat
    BY FS_Subset, FS_CardinalityType
  <1>2. 0 \in T
    <2>1. ASSUME NEW s \in SUBSET S, Cardinality(s) = 0 PROVE s = {}
      BY <1>1, <2>1, FS_EmptySet
    <2> QED BY <2>1
  <1>3. ASSUME NEW n \in Nat, n \in T PROVE n + 1 \in T
    <2> SUFFICES ASSUME NEW s \in SUBSET S, Cardinality(s) = n + 1 PROVE s \in X
      OBVIOUS
    <2>1. s # {}
      BY FS_EmptySet
    <2>2. PICK x \in s : TRUE
      BY <2>1
    <2>3. Cardinality(s \ {x}) = n
      <3>1. IsFiniteSet(s) /\ x \in s
        BY <1>1
      <3>2. Cardinality(s \ {x}) = Cardinality(s) - 1
        BY <3>1, FS_RemoveElement
      <3> QED BY <3>2
    <2>4. s \ {x} \in X /\ x \notin s \ {x} /\ s = (s \ {x}) \cup {x}
      BY <1>3, <2>3
    <2> QED BY <2>4
  <1> HIDE DEF T
  <1>4. \A n \in Nat : n \in T
    BY <1>2, <1>3, UpTo
  <1> QED BY <1>1, <1>4 DEF T

----------------------------------------------------------------------------
(* Sums.                                                                   *)

First(s) == CHOOSE x \in s : TRUE

\* The function that a sum over S chooses, by its equation.
Adds(g, f, s) == IF s = {} THEN 0 ELSE f[First(s)] + g[s \ {First(s)}]
Adder(f, S) == CHOOSE g : g = [s \in SUBSET S |-> Adds(g, f, s)]

LEMMA SumIsAdder ==
    ASSUME NEW f, NEW S
    PROVE  SumFunctionOnSet(f, S) = Adder(f, S)[S]
  BY DEF SumFunctionOnSet, FoldFunctionOnSet, MapThenFoldSet, Adder, Adds, First

LEMMA AdderExists ==
    ASSUME NEW f, NEW S, IsFiniteSet(S)
    PROVE  \E g : g = [s \in SUBSET S |-> Adds(g, f, s)]
  <1> DEFINE G(g, n) == /\ g = [s \in SUBSET S |-> g[s]]
                        /\ \A s \in SUBSET S : Cardinality(s) <= n => g[s] = Adds(g, f, s)
             T == {n \in Nat : \E g : G(g, n)}
  <1>1. \A s \in SUBSET S : IsFiniteSet(s) /\ Cardinality(s) \in Nat
    BY FS_Subset, FS_CardinalityType
  <1>2. ASSUME NEW s \in SUBSET S, s # {}
        PROVE  /\ First(s) \in s /\ s \ {First(s)} \in SUBSET S
               /\ Cardinality(s \ {First(s)}) = Cardinality(s) - 1
    <2>1. First(s) \in s
      BY <1>2 DEF First
    <2>2. Cardinality(s \ {First(s)}) = Cardinality(s) - 1
      BY <1>1, <2>1, FS_RemoveElement
    <2> QED BY <2>1, <2>2
  <1>3. 0 \in T
    <2> DEFINE g == [s \in SUBSET S |-> 0]
    <2>1. ASSUME NEW s \in SUBSET S, Cardinality(s) <= 0 PROVE g[s] = Adds(g, f, s)
      <3>1. s = {}
        BY <1>1, <2>1, FS_EmptySet
      <3> QED BY <3>1 DEF Adds
    <2>2. G(g, 0)
      BY <2>1
    <2> QED BY <2>2
  <1>4. ASSUME NEW n \in Nat, n \in T PROVE n + 1 \in T
    <2>1. PICK g : G(g, n)
      BY <1>4
    <2> DEFINE h == [s \in SUBSET S |-> IF Cardinality(s) <= n THEN g[s] ELSE Adds(g, f, s)]
    <2>2. ASSUME NEW s \in SUBSET S, Cardinality(s) <= n + 1 PROVE h[s] = Adds(h, f, s)
      <3>1. h[s] = Adds(g, f, s)
        BY <2>1
      <3>2. CASE s = {}
        BY <3>1, <3>2 DEF Adds
      <3>3. CASE s # {}
        <4>1. /\ s \ {First(s)} \in SUBSET S /\ Cardinality(s \ {First(s)}) <= n
          BY <1>1, <1>2, <2>2, <3>3
        <4>2. h[s \ {First(s)}] = g[s \ {First(s)}]
          BY <4>1
        <4> HIDE DEF h
        <4> QED BY <3>1, <3>3, <4>2 DEF Adds
      <3> QED BY <3>2, <3>3
    <2>3. h = [s \in SUBSET S |-> h[s]]
      OBVIOUS
    <2> HIDE DEF h
    <2>4. G(h, n + 1)
      BY <2>2, <2>3
    <2> HIDE DEF G
    <2> QED BY <2>4
  <1> HIDE DEF T
  <1>5. Cardinality(S) \in T
    BY <1>1, <1>3, <1>4, UpTo
  <1>6. PICK g : G(g, Cardinality(S))
    BY <1>5 DEF T
  <1>7. \A s \in SUBSET S : Cardinality(s) <= Cardinality(S)
    BY FS_Subset
  <1>8. g = [s \in SUBSET S |-> Adds(g, f, s)]
    BY <1>6, <1>7
  <1> QED BY <1>8

LEMMA AdderEquation ==
    ASSUME NEW f, NEW S, IsFiniteSet(S)
    PROVE  \A s \in SUBSET S : Adder(f, S)[s] = Adds(Adder(f, S), f, s)
  <1>0. \E g : g = [s \in SUBSET S |-> Adds(g, f, s)]
    BY AdderExists
  <1>1. Adder(f, S) = [s \in SUBSET S |-> Adds(Adder(f, S), f, s)]
    BY <1>0, Zenon DEF Adder
  <1> DEFINE g == Adder(f, S)
  <1> HIDE DEF g
  <1>2. g = [s \in SUBSET S |-> Adds(g, f, s)]
    BY <1>1 DEF g
  <1>3. \A s \in SUBSET S : g[s] = Adds(g, f, s)
    BY <1>2, Zenon
  <1> QED BY <1>3 DEF g

\* What is taken first from a set.
LEMMA FirstOfSet ==
    ASSUME NEW S, IsFiniteSet(S), NEW s \in SUBSET S, s # {}
    PROVE  /\ First(s) \in s /\ s \ {First(s)} \in SUBSET S
           /\ IsFiniteSet(s) /\ Cardinality(s) \in Nat
           /\ Cardinality(s \ {First(s)}) = Cardinality(s) - 1
  <1>1. IsFiniteSet(s) /\ Cardinality(s) \in Nat
    BY FS_Subset, FS_CardinalityType
  <1>2. First(s) \in s
    BY DEF First
  <1>3. Cardinality(s \ {First(s)}) = Cardinality(s) - 1
    BY <1>1, <1>2, FS_RemoveElement
  <1> QED BY <1>1, <1>2, <1>3

\* The sum over a part of S does not depend on S.
LEMMA SumOfPart ==
    ASSUME NEW f, NEW S, IsFiniteSet(S), NEW P \in SUBSET S
    PROVE  SumFunctionOnSet(f, P) = Adder(f, S)[P]
  <1> DEFINE g == Adder(f, S)
             h == Adder(f, P)
             T == {n \in Nat : \A s \in SUBSET P : Cardinality(s) = n => h[s] = g[s]}
  <1>1. IsFiniteSet(P) /\ Cardinality(P) \in Nat
    BY FS_Subset, FS_CardinalityType
  <1>2. \A s \in SUBSET P : g[s] = Adds(g, f, s)
    BY AdderEquation
  <1>3. \A s \in SUBSET P : h[s] = Adds(h, f, s)
    BY <1>1, AdderEquation
  <1> HIDE DEF g, h
  <1>4. 0 \in T
    <2>1. ASSUME NEW s \in SUBSET P, Cardinality(s) = 0 PROVE h[s] = g[s]
      <3>1. s = {}
        BY <1>1, <2>1, FS_EmptySet, FS_Subset
      <3> QED BY <1>2, <1>3, <3>1 DEF Adds
    <2> QED BY <2>1
  <1>5. ASSUME NEW n \in Nat, n \in T PROVE n + 1 \in T
    <2> SUFFICES ASSUME NEW s \in SUBSET P, Cardinality(s) = n + 1 PROVE h[s] = g[s]
      OBVIOUS
    <2>1. s # {}
      BY FS_EmptySet
    <2>2. s \ {First(s)} \in SUBSET P /\ Cardinality(s \ {First(s)}) = n
      BY <1>1, <2>1, FirstOfSet
    <2>3. h[s \ {First(s)}] = g[s \ {First(s)}]
      BY <1>5, <2>2
    <2> QED BY <1>2, <1>3, <2>1, <2>3 DEF Adds
  <1> HIDE DEF T
  <1>6. Cardinality(P) \in T
    BY <1>1, <1>4, <1>5, UpTo
  <1>7. h[P] = g[P]
    BY <1>6 DEF T
  <1> QED BY <1>7, SumIsAdder DEF g, h

LEMMA SumEquation ==
    ASSUME NEW f, NEW S, IsFiniteSet(S)
    PROVE  /\ SumFunctionOnSet(f, {}) = 0
           /\ S # {} => SumFunctionOnSet(f, S) = f[First(S)] + SumFunctionOnSet(f, S \ {First(S)})
  <1>1. \A P \in SUBSET S : SumFunctionOnSet(f, P) = Adds(Adder(f, S), f, P)
    BY AdderEquation, SumOfPart
  <1>2. SumFunctionOnSet(f, {}) = 0
    BY <1>1 DEF Adds
  <1>3. ASSUME S # {}
        PROVE  SumFunctionOnSet(f, S) = f[First(S)] + SumFunctionOnSet(f, S \ {First(S)})
    BY <1>1, <1>3, SumOfPart DEF Adds
  <1> QED BY <1>2, <1>3

LEMMA SumType ==
    ASSUME NEW S, IsFiniteSet(S), NEW f, \A x \in S : f[x] \in Int
    PROVE  \A s \in SUBSET S : SumFunctionOnSet(f, s) \in Int
  <1> DEFINE T == {n \in Nat : \A s \in SUBSET S :
                                  Cardinality(s) = n => SumFunctionOnSet(f, s) \in Int}
  <1>1. \A s \in SUBSET S : IsFiniteSet(s) /\ Cardinality(s) \in Nat
    BY FS_Subset, FS_CardinalityType
  <1>2. 0 \in T
    <2>1. ASSUME NEW s \in SUBSET S, Cardinality(s) = 0 PROVE s = {}
      BY <1>1, <2>1, FS_EmptySet
    <2>2. SumFunctionOnSet(f, {}) = 0
      BY SumEquation
    <2> QED BY <2>1, <2>2
  <1>3. ASSUME NEW n \in Nat, n \in T PROVE n + 1 \in T
    <2> SUFFICES ASSUME NEW s \in SUBSET S, Cardinality(s) = n + 1
                 PROVE  SumFunctionOnSet(f, s) \in Int
      OBVIOUS
    <2>1. s # {}
      BY FS_EmptySet
    <2>2. First(s) \in s /\ s \ {First(s)} \in SUBSET S /\ Cardinality(s \ {First(s)}) = n
      BY <2>1, FirstOfSet
    <2>3. SumFunctionOnSet(f, s \ {First(s)}) \in Int /\ f[First(s)] \in Int
      BY <1>3, <2>2
    <2>4. SumFunctionOnSet(f, s) = f[First(s)] + SumFunctionOnSet(f, s \ {First(s)})
      BY <1>1, <2>1, SumEquation
    <2> QED BY <2>3, <2>4
  <1> HIDE DEF T
  <1>4. \A n \in Nat : n \in T
    BY <1>2, <1>3, UpTo
  <1> QED BY <1>1, <1>4 DEF T

\* It does not matter which element is taken first.
LEMMA SumAny ==
    ASSUME NEW S, IsFiniteSet(S), NEW f, \A x \in S : f[x] \in Int
    PROVE  \A s \in SUBSET S : \A x \in s :
               SumFunctionOnSet(f, s) = f[x] + SumFunctionOnSet(f, s \ {x})
  <1> DEFINE Q(s) == SumFunctionOnSet(f, s)
             T == {n \in Nat : \A s \in SUBSET S :
                      Cardinality(s) = n => \A x \in s : Q(s) = f[x] + Q(s \ {x})}
  <1>1. \A s \in SUBSET S : IsFiniteSet(s) /\ Cardinality(s) \in Nat
    BY FS_Subset, FS_CardinalityType
  <1>q. /\ \A s \in SUBSET S : Q(s) \in Int
        /\ \A s \in SUBSET S : s # {} => Q(s) = f[First(s)] + Q(s \ {First(s)})
    <2>1. \A s \in SUBSET S : Q(s) \in Int
      BY SumType
    <2>2. \A s \in SUBSET S : s # {} => Q(s) = f[First(s)] + Q(s \ {First(s)})
      BY <1>1, SumEquation
    <2> QED BY <2>1, <2>2
  <1> HIDE DEF Q
  <1>2. 0 \in T
    <2>1. ASSUME NEW s \in SUBSET S, Cardinality(s) = 0 PROVE s = {}
      BY <1>1, <2>1, FS_EmptySet
    <2> QED BY <2>1
  <1>3. ASSUME NEW n \in Nat, n \in T PROVE n + 1 \in T
    <2> SUFFICES ASSUME NEW s \in SUBSET S, Cardinality(s) = n + 1, NEW x \in s
                 PROVE  Q(s) = f[x] + Q(s \ {x})
      OBVIOUS
    <2> DEFINE c == First(s)
               u == s \ {c}
               v == s \ {x}
               w == u \ {x}
    <2>1. c \in s /\ u \in SUBSET S /\ Cardinality(u) = n /\ Q(s) = f[c] + Q(u)
      BY <1>q, FirstOfSet
    <2>2. v \in SUBSET S /\ w \in SUBSET S /\ Cardinality(v) = n
      <3>1. IsFiniteSet(s)
        BY <1>1
      <3>2. Cardinality(v) = Cardinality(s) - 1
        BY <3>1, FS_RemoveElement
      <3> QED BY <3>2
    <2>3. CASE x = c
      BY <2>1, <2>3
    <2>4. CASE x # c
      <3>1. x \in u /\ c \in v /\ v \ {c} = w
        BY <2>1, <2>4
      <3> HIDE DEF u, v, w, c
      <3>2. Q(u) = f[x] + Q(w)
        BY <1>3, <2>1, <3>1 DEF w
      <3>3. Q(v) = f[c] + Q(w)
        BY <1>3, <2>2, <3>1
      <3>4. f[x] \in Int /\ f[c] \in Int /\ Q(w) \in Int
        BY <1>q, <2>1, <2>2
      <3>5. Q(s) = f[x] + Q(v)
        BY <2>1, <3>2, <3>3, <3>4
      <3> QED BY <3>5 DEF v
    <2> QED BY <2>3, <2>4
  <1> HIDE DEF T
  <1>4. \A n \in Nat : n \in T
    BY <1>2, <1>3, UpTo
  <1>5. ASSUME NEW s \in SUBSET S, NEW x \in s PROVE Q(s) = f[x] + Q(s \ {x})
    <2>1. Cardinality(s) \in T
      BY <1>1, <1>4
    <2> QED BY <2>1 DEF T
  <1> USE DEF Q
  <1> QED BY <1>5, Zenon

\* A sum grows by an element.
LEMMA SumAdd ==
    ASSUME NEW S, IsFiniteSet(S), NEW f, \A x \in S : f[x] \in Int,
           NEW s \in SUBSET S, NEW x \in S, x \notin s
    PROVE  SumFunctionOnSet(f, s \cup {x}) = f[x] + SumFunctionOnSet(f, s)
  <1>1. s \cup {x} \in SUBSET S /\ x \in s \cup {x} /\ (s \cup {x}) \ {x} = s
    OBVIOUS
  <1>2. SumFunctionOnSet(f, s \cup {x}) = f[x] + SumFunctionOnSet(f, (s \cup {x}) \ {x})
    BY <1>1, SumAny
  <1> QED BY <1>1, <1>2

\* A sum of sums, and sums of ones and of equal numbers.
LEMMA SumPlus ==
    ASSUME NEW S, IsFiniteSet(S), NEW f, \A x \in S : f[x] \in Int,
           NEW g, \A x \in S : g[x] \in Int, NEW h, \A x \in S : h[x] = f[x] + g[x]
    PROVE  SumFunctionOnSet(h, S) = SumFunctionOnSet(f, S) + SumFunctionOnSet(g, S)
  <1> DEFINE F(s) == SumFunctionOnSet(f, s)
             G(s) == SumFunctionOnSet(g, s)
             H(s) == SumFunctionOnSet(h, s)
             X == {s \in SUBSET S : H(s) = F(s) + G(s)}
  <1>1. /\ F({}) = 0 /\ G({}) = 0 /\ H({}) = 0
    BY SumEquation
  <1>2. \A x \in S : h[x] \in Int
    OBVIOUS
  <1>3. ASSUME NEW s \in SUBSET S, NEW x \in S, x \notin s
        PROVE  /\ F(s \cup {x}) = f[x] + F(s) /\ F(s) \in Int
               /\ G(s \cup {x}) = g[x] + G(s) /\ G(s) \in Int
               /\ H(s \cup {x}) = h[x] + H(s) /\ H(s) \in Int
    <2>1. F(s \cup {x}) = f[x] + F(s)
      BY <1>3, SumAdd
    <2>2. G(s \cup {x}) = g[x] + G(s)
      BY <1>3, SumAdd
    <2>3. H(s \cup {x}) = h[x] + H(s)
      BY <1>2, <1>3, SumAdd
    <2>4. F(s) \in Int
      BY SumType
    <2>5. G(s) \in Int
      BY SumType
    <2>6. H(s) \in Int
      BY <1>2, SumType
    <2> QED BY <2>1, <2>2, <2>3, <2>4, <2>5, <2>6
  <1> HIDE DEF F, G, H
  <1>4. {} \in X
    BY <1>1
  <1>5. ASSUME NEW s \in SUBSET S, NEW x \in S, s \in X, x \notin s PROVE s \cup {x} \in X
    <2>1. H(s) = F(s) + G(s) /\ s \cup {x} \in SUBSET S
      BY <1>5
    <2>2. H(s \cup {x}) = F(s \cup {x}) + G(s \cup {x})
      BY <1>3, <1>5, <2>1
    <2> QED BY <2>1, <2>2
  <1> HIDE DEF X
  <1>6. S \in X
    BY <1>4, <1>5, Subsets
  <1>7. H(S) = F(S) + G(S)
    BY <1>6 DEF X
  <1> USE DEF F, G, H
  <1> QED BY <1>7, Zenon

LEMMA SumSame ==
    ASSUME NEW S, IsFiniteSet(S), NEW f, \A x \in S : f[x] \in Int, NEW g, \A x \in S : g[x] = f[x]
    PROVE  SumFunctionOnSet(g, S) = SumFunctionOnSet(f, S)
  <1> DEFINE z == [x \in S |-> 0]
             X == {s \in SUBSET S : SumFunctionOnSet(g, s) = SumFunctionOnSet(f, s)}
  <1>1. {} \in X
    BY SumEquation
  <1>2. ASSUME NEW s \in SUBSET S, NEW x \in S, s \in X, x \notin s PROVE s \cup {x} \in X
    <2>1. \A y \in S : g[y] \in Int
      OBVIOUS
    <2>2. SumFunctionOnSet(g, s \cup {x}) = g[x] + SumFunctionOnSet(g, s)
      BY <1>2, <2>1, SumAdd
    <2>3. SumFunctionOnSet(f, s \cup {x}) = f[x] + SumFunctionOnSet(f, s)
      BY <1>2, SumAdd
    <2> QED BY <1>2, <2>2, <2>3
  <1> HIDE DEF X
  <1>3. S \in X
    BY <1>1, <1>2, Subsets
  <1> QED BY <1>3 DEF X

LEMMA SumCount ==
    ASSUME NEW S, IsFiniteSet(S), NEW f, \A x \in S : f[x] = 1
    PROVE  SumFunctionOnSet(f, S) = Cardinality(S)
  <1> DEFINE X == {s \in SUBSET S : SumFunctionOnSet(f, s) = Cardinality(s)}
  <1>1. {} \in X
    BY SumEquation, FS_EmptySet
  <1>2. ASSUME NEW s \in SUBSET S, NEW x \in S, s \in X, x \notin s PROVE s \cup {x} \in X
    <2>1. SumFunctionOnSet(f, s \cup {x}) = f[x] + SumFunctionOnSet(f, s)
      <3>1. \A y \in S : f[y] \in Int
        OBVIOUS
      <3> QED BY <1>2, <3>1, SumAdd
    <2>2. IsFiniteSet(s) /\ Cardinality(s) \in Nat
      BY FS_Subset, FS_CardinalityType
    <2>3. Cardinality(s \cup {x}) = Cardinality(s) + 1
      BY <1>2, <2>2, FS_AddElement
    <2> QED BY <1>2, <2>1, <2>2, <2>3
  <1> HIDE DEF X
  <1>3. S \in X
    BY <1>1, <1>2, Subsets
  <1> QED BY <1>3 DEF X

\* The sum over two disjoint sets.
LEMMA SumUnion ==
    ASSUME NEW S, IsFiniteSet(S), NEW f, \A x \in S : f[x] \in Int,
           NEW A \in SUBSET S, NEW B \in SUBSET S, A \cap B = {}
    PROVE  SumFunctionOnSet(f, A \cup B) = SumFunctionOnSet(f, A) + SumFunctionOnSet(f, B)
  <1> DEFINE F(s) == SumFunctionOnSet(f, s)
             X == {s \in SUBSET B : F(A \cup s) = F(A) + F(s)}
  <1>1. F({}) = 0 /\ F(A) \in Int
    BY SumEquation, SumType
  <1>2. {} \in X
    <2>1. A \cup {} = A
      OBVIOUS
    <2> HIDE DEF F
    <2> QED BY <1>1, <2>1
  <1>3. ASSUME NEW s \in SUBSET B, NEW x \in B, s \in X, x \notin s PROVE s \cup {x} \in X
    <2>1. F(s \cup {x}) = f[x] + F(s)
      BY <1>3, SumAdd
    <2>2. F((A \cup s) \cup {x}) = f[x] + F(A \cup s)
      <3>1. A \cup s \in SUBSET S /\ x \in S /\ x \notin A \cup s
        BY <1>3
      <3> QED BY <3>1, SumAdd
    <2>3. F(s) \in Int /\ f[x] \in Int
      BY SumType
    <2>4. A \cup (s \cup {x}) = (A \cup s) \cup {x} /\ s \cup {x} \in SUBSET B
      OBVIOUS
    <2>5. F(A \cup s) = F(A) + F(s)
      BY <1>3
    <2>6. F(A \cup (s \cup {x})) = F((A \cup s) \cup {x})
      BY <2>4, Zenon
    <2> HIDE DEF F
    <2>7. F(A \cup (s \cup {x})) = F(A) + F(s \cup {x})
      BY <1>1, <2>1, <2>2, <2>3, <2>5, <2>6
    <2> QED BY <2>4, <2>7
  <1>4. IsFiniteSet(B)
    BY FS_Subset
  <1> HIDE DEF X
  <1>5. B \in X
    <2>1. \A s \in SUBSET B, x \in B : s \in X /\ x \notin s => s \cup {x} \in X
      BY <1>3
    <2>2. \A s \in SUBSET B : s \in X
      BY <1>2, <1>4, <2>1, Subsets, Zenon
    <2> QED BY <2>2
  <1>6. F(A \cup B) = F(A) + F(B)
    BY <1>5 DEF X
  <1> QED BY <1>6, Zenon

\* The elements of a set with a key.
Part(S, key, k) == {x \in S : key[x] = k}

\* The sum over the parts into which a key divides a set.
Parted(S, f, K, key, g) ==
    /\ IsFiniteSet(S) /\ \A x \in S : f[x] \in Int /\ key[x] \in K
    /\ IsFiniteSet(K) /\ \A k \in K : g[k] = SumFunctionOnSet(f, Part(S, key, k))

LEMMA SumOfParts ==
    ASSUME NEW S, NEW f, NEW K, NEW key, NEW g, Parted(S, f, K, key, g)
    PROVE  SumFunctionOnSet(g, K) = SumFunctionOnSet(f, S)
  <1>p. /\ IsFiniteSet(S) /\ \A x \in S : f[x] \in Int /\ key[x] \in K
        /\ IsFiniteSet(K) /\ \A k \in K : g[k] = SumFunctionOnSet(f, Part(S, key, k))
    BY DEF Parted
  <1> DEFINE F(s) == SumFunctionOnSet(f, s)
             P(J) == {x \in S : key[x] \in J}
             X == {J \in SUBSET K : SumFunctionOnSet(g, J) = F(P(J))}
  <1>1. \A k \in K : g[k] \in Int
    <2> TAKE k \in K
    <2> DEFINE B == Part(S, key, k)
    <2>1. B \in SUBSET S /\ g[k] = SumFunctionOnSet(f, B)
      BY <1>p DEF Part
    <2> HIDE DEF B
    <2> QED BY <1>p, <2>1, SumType
  <1>2. {} \in X
    <2>1. P({}) = {}
      OBVIOUS
    <2>2. SumFunctionOnSet(g, {}) = 0 /\ F({}) = 0
      BY <1>p, SumEquation
    <2> HIDE DEF F
    <2> QED BY <2>1, <2>2
  <1>3. ASSUME NEW J \in SUBSET K, NEW k \in K, J \in X, k \notin J PROVE J \cup {k} \in X
    <2> DEFINE A == P(J)
               B == Part(S, key, k)
    <2>1. A \in SUBSET S /\ B \in SUBSET S /\ A \cap B = {} /\ P(J \cup {k}) = A \cup B
      BY <1>3, <1>p DEF Part
    <2>2. F(A \cup B) = F(A) + F(B)
      BY <1>p, <2>1, SumUnion
    <2>3. SumFunctionOnSet(g, J \cup {k}) = g[k] + SumFunctionOnSet(g, J)
      BY <1>p, <1>1, <1>3, SumAdd
    <2>4. F(A) \in Int /\ F(B) \in Int
      BY <1>p, <2>1, SumType
    <2>5. g[k] = F(B) /\ SumFunctionOnSet(g, J) = F(A)
      BY <1>p, <1>3
    <2>6. F(P(J \cup {k})) = F(A \cup B)
      BY <2>1, Zenon
    <2> HIDE DEF A, B, P, F
    <2>7. SumFunctionOnSet(g, J \cup {k}) = F(P(J \cup {k}))
      BY <2>2, <2>3, <2>4, <2>5, <2>6
    <2> QED BY <2>7
  <1> HIDE DEF X
  <1>4. K \in X
    BY <1>p, <1>2, <1>3, Subsets
  <1>5. SumFunctionOnSet(g, K) = F(P(K)) /\ P(K) = S
    BY <1>p, <1>4 DEF X
  <1> QED BY <1>5

----------------------------------------------------------------------------
(* The reports: percentiles.                                               *)

LEMMA NearestIs ==
    ASSUME NEW n \in Nat, NEW pct \in Nat, NEW k \in 1 .. n,
           100 * k >= pct * n, 100 * (k - 1) < pct * n
    PROVE  NearestRank(n, pct) = k
  <1> DEFINE m == pct * n
             N(i) == 100 * i >= m /\ 100 * (i - 1) < m
  <1>1. m \in Nat /\ N(k)
    OBVIOUS
  <1> HIDE DEF m
  <1>2. \A i \in 1 .. n : N(i) => i = k
    BY <1>1
  <1>3. NearestRank(n, pct) = CHOOSE i \in 1 .. n : N(i)
    BY Zenon DEF NearestRank, m
  <1> QED BY <1>1, <1>2, <1>3

\* For every number of samples: the control API and the p50 of the others take the
\* nearest rank, and their p95 reads one sample further exactly when there are 20 m or
\* 20 m + 1 of them (percentile, durationPercentile).
THEOREM Ranks ==
    ASSUME NEW n \in Nat, n > 0
    PROVE  /\ \A pct \in {50, 95} : ControlRank(n, pct) = NearestRank(n, pct)
           /\ PercentileRank(n, 50) = NearestRank(n, 50)
           /\ PercentileRank(n, 95) = NearestRank(n, 95) + (IF OneFurther(n) THEN 1 ELSE 0)
  <1>1. ASSUME NEW pct \in {50, 95} PROVE ControlRank(n, pct) = NearestRank(n, pct)
    <2> DEFINE k == (n * pct + 99) \div 100
    <2>1. k \in 1 .. n /\ 100 * k >= pct * n /\ 100 * (k - 1) < pct * n
      <3>1. CASE pct = 50
        BY <3>1
      <3>2. CASE pct = 95
        BY <3>2
      <3> QED BY <3>1, <3>2
    <2>2. ControlRank(n, pct) = Max({1, k})
      BY DEF ControlRank
    <2> HIDE DEF k
    <2>3. Max({1, k}) = k
      <3>1. k \in Int /\ k >= 1
        BY <2>1
      <3>2. Max({1, k}) \in {1, k} /\ Max({1, k}) >= 1 /\ Max({1, k}) >= k
        BY <3>1, MaxOfTwo
      <3> QED BY <3>1, <3>2
    <2>4. NearestRank(n, pct) = k
      BY <2>1, NearestIs
    <2> QED BY <2>2, <2>3, <2>4
  <1>2. PercentileRank(n, 50) = NearestRank(n, 50)
    <2> DEFINE k == ((n - 1) * 50) \div 100 + 1
    <2>1. k \in 1 .. n /\ 100 * k >= 50 * n /\ 100 * (k - 1) < 50 * n
      OBVIOUS
    <2>2. PercentileRank(n, 50) = k
      BY DEF PercentileRank
    <2> HIDE DEF k
    <2> QED BY <2>1, <2>2, NearestIs
  <1>3. PercentileRank(n, 95) = NearestRank(n, 95) + (IF OneFurther(n) THEN 1 ELSE 0)
    <2> DEFINE i == ((n - 1) * 95) \div 100
               k == IF OneFurther(n) THEN i + 1 ELSE IF i < n - 1 THEN i + 2 ELSE i + 1
    <2>1. PercentileRank(n, 95) = IF i < n - 1 THEN i + 2 ELSE i + 1
      BY DEF PercentileRank
    <2>2. k \in 1 .. n /\ 100 * k >= 95 * n /\ 100 * (k - 1) < 95 * n
      BY DEF OneFurther
    <2>3. OneFurther(n) => i < n - 1
      BY DEF OneFurther
    <2>4. i \in Nat
      OBVIOUS
    <2>5. NearestRank(n, 95) = k
      <3> HIDE DEF k
      <3> QED BY <2>2, NearestIs
    <2> HIDE DEF i
    <2> QED BY <2>1, <2>3, <2>4, <2>5
  <1> QED BY <1>1, <1>2, <1>3

\* A percentile that two readers take at the same rank is the same.
LEMMA PercentilesAgree ==
    ASSUME NEW rows, IsFiniteSet(DOMAIN rows)
    PROVE  /\ Percentile(rows, 50, "control") = Percentile(rows, 50, "portal")
           /\ ~ OneFurther(Cardinality(Sampled(rows))) =>
                 Percentile(rows, 95, "control") = Percentile(rows, 95, "portal")
           /\ \A pct : Percentile(rows, pct, "rollup") = Percentile(rows, pct, "portal")
  <1> DEFINE n == Cardinality(Sampled(rows))
  <1>1. n \in Nat
    <2>1. IsFiniteSet(Sampled(rows))
      BY FS_Subset DEF Sampled
    <2> QED BY <2>1, FS_CardinalityType
  <1>2. CASE n = 0
    BY <1>2 DEF Percentile
  <1>3. CASE n # 0
    <2>1. n > 0
      BY <1>1, <1>3
    <2>2. ControlRank(n, 50) = PercentileRank(n, 50)
      BY <1>1, <2>1, Ranks
    <2>3. ~ OneFurther(n) => ControlRank(n, 95) = PercentileRank(n, 95)
      <3> HIDE DEF n
      <3> SUFFICES ASSUME ~ OneFurther(n) PROVE ControlRank(n, 95) = PercentileRank(n, 95)
        OBVIOUS
      <3>1. ControlRank(n, 95) = NearestRank(n, 95)
        BY <1>1, <2>1, Ranks
      <3>2. PercentileRank(n, 95) = NearestRank(n, 95) + 0
        BY <1>1, <2>1, Ranks
      <3>3. ControlRank(n, 95) \in Int
        <4> DEFINE k == (n * 95 + 99) \div 100
        <4>1. k \in Int /\ ControlRank(n, 95) = Max({1, k})
          BY <1>1 DEF ControlRank
        <4> HIDE DEF k
        <4>2. Max({1, k}) \in {1, k} /\ Max({1, k}) >= 1 /\ Max({1, k}) >= k
          BY <4>1, MaxOfTwo
        <4> QED BY <4>1, <4>2
      <3> QED BY <3>1, <3>2, <3>3
    <2> QED BY <2>2, <2>3 DEF Percentile
  <1> QED BY <1>2, <1>3

----------------------------------------------------------------------------
(* The reports: totals.                                                    *)

\* Rows of the ledger, or some of them.
Sane(rows) == rows \in [DOMAIN rows -> Rows] /\ IsFiniteSet(DOMAIN rows)

LEMMA SanePart ==
    ASSUME NEW rows, Sane(rows), NEW D \in SUBSET DOMAIN rows
    PROVE  Sane([r \in D |-> rows[r]])
  <1> DEFINE p == [r \in D |-> rows[r]]
  <1>1. IsFiniteSet(D)
    BY FS_Subset DEF Sane
  <1>2. p \in [D -> Rows] /\ DOMAIN p = D
    BY DEF Sane
  <1> HIDE DEF p
  <1>3. Sane(p)
    BY <1>1, <1>2 DEF Sane
  <1> QED BY <1>3 DEF p

\* What is known of a row's tokens.
LEMMA TokensOf ==
    ASSUME NEW rows, Sane(rows), NEW r \in DOMAIN rows
    PROVE  /\ \A d \in {"input", "output", "total"} : Tokens(rows[r], d) \in Nat \cup {Unknown}
           /\ Tokens(rows[r], "total") # Unknown <=> rows[r].usage = "final"
           /\ Tokens(rows[r], "output") # Unknown <=> rows[r].usage = "final"
           /\ rows[r].usage = "final" =>
                /\ Tokens(rows[r], "input") # Unknown
                /\ Tokens(rows[r], "total") =
                      Tokens(rows[r], "input") + Tokens(rows[r], "output")
  <1>1. rows[r].amount \in Nat /\ rows[r].usage \in UsageStates
    BY WorkerAssumption DEF Sane, Rows
  <1>2. Unknown \notin Int
    BY WorkerAssumption
  <1>3. /\ Tokens(rows[r], "input") = InputTokens(rows[r])
        /\ Tokens(rows[r], "output") = OutputTokens(rows[r])
        /\ Tokens(rows[r], "total") = requestTokenTotal(rows[r])
    BY DEF Tokens
  <1>4. CASE rows[r].usage = "final"
    BY <1>1, <1>2, <1>3, <1>4 DEF InputTokens, OutputTokens, requestTokenTotal
  <1>5. CASE rows[r].usage # "final"
    BY <1>1, <1>2, <1>3, <1>5 DEF InputTokens, OutputTokens, requestTokenTotal
  <1> QED BY <1>4, <1>5

LEMMA TotalType ==
    ASSUME NEW rows, Sane(rows), NEW d \in {"input", "output", "total"}
    PROVE  /\ Total(rows, d) \in Int /\ IsFiniteSet(Known(rows, d))
           /\ \A s \in SUBSET Known(rows, d) :
                 SumFunctionOnSet([r \in DOMAIN rows |-> Tokens(rows[r], d)], s) \in Int
  <1> DEFINE f == [r \in DOMAIN rows |-> Tokens(rows[r], d)]
             K == Known(rows, d)
  <1>1. IsFiniteSet(K)
    BY FS_Subset DEF Known, With, Sane
  <1>2. \A r \in K : f[r] \in Int
    BY TokensOf DEF Known, With
  <1>3. Total(rows, d) = SumFunctionOnSet(f, K)
    BY DEF Total
  <1> HIDE DEF f, K
  <1>4. \A s \in SUBSET K : SumFunctionOnSet(f, s) \in Int
    BY <1>1, <1>2, SumType
  <1> QED BY <1>1, <1>3, <1>4 DEF f, K

\* The two sides of a total.
LEMMA KnownSides ==
    ASSUME NEW rows, Sane(rows)
    PROVE  /\ Known(rows, "total") = Known(rows, "output")
           /\ Known(rows, "output") \subseteq Known(rows, "input")
           /\ Known(rows, "total") = {r \in With(rows, "succeeded") : rows[r].usage = "final"}
           /\ Known(rows, "input") = Known(rows, "output") =>
                Total(rows, "total") = Total(rows, "input") + Total(rows, "output")
  <1> DEFINE F(d) == [r \in DOMAIN rows |-> Tokens(rows[r], d)]
             K == Known(rows, "output")
  <1>1. \A r \in DOMAIN rows : /\ Tokens(rows[r], "total") # Unknown <=> rows[r].usage = "final"
                               /\ Tokens(rows[r], "output") # Unknown <=> rows[r].usage = "final"
                               /\ rows[r].usage = "final" => Tokens(rows[r], "input") # Unknown
    BY TokensOf
  <1>2. With(rows, "succeeded") \subseteq DOMAIN rows
    BY DEF With
  <1>3. /\ Known(rows, "total") = K
        /\ K \subseteq Known(rows, "input")
        /\ Known(rows, "total") = {r \in With(rows, "succeeded") : rows[r].usage = "final"}
    BY <1>1, <1>2 DEF Known
  <1>4. ASSUME Known(rows, "input") = K
        PROVE  Total(rows, "total") = Total(rows, "input") + Total(rows, "output")
    <2>1. IsFiniteSet(K)
      BY TotalType
    <2>2. \A r \in K : /\ F("input")[r] \in Int /\ F("output")[r] \in Int
                       /\ F("total")[r] = F("input")[r] + F("output")[r]
      BY <1>1, <1>3, TokensOf DEF Known, With
    <2>3. /\ Total(rows, "total") = SumFunctionOnSet(F("total"), K)
          /\ Total(rows, "input") = SumFunctionOnSet(F("input"), K)
          /\ Total(rows, "output") = SumFunctionOnSet(F("output"), K)
      BY <1>3, <1>4, Zenon DEF Total
    <2> HIDE DEF F, K
    <2> DEFINE f == F("input")
               g == F("output")
               h == F("total")
    <2>4. /\ \A r \in K : f[r] \in Int /\ g[r] \in Int /\ h[r] = f[r] + g[r]
      BY <2>2
    <2> HIDE DEF f, g, h
    <2>5. SumFunctionOnSet(h, K) = SumFunctionOnSet(f, K) + SumFunctionOnSet(g, K)
      BY <2>1, <2>4, SumPlus
    <2> QED BY <2>3, <2>5 DEF f, g, h
  <1> QED BY <1>3, <1>4

\* What the client dashboard adds up is the portal's total.
LEMMA ClientTotal ==
    ASSUME NEW rows, Sane(rows)
    PROVE  clientUsageTokens(rows) = completeMetric(rows, "total")
  <1> DEFINE I == completeMetric(rows, "input")
             O == completeMetric(rows, "output")
             W == With(rows, "succeeded")
  <1>1. \A d : completeTokenMetric(metricResult(rows, d)) = completeMetric(rows, d)
    BY DEF completeTokenMetric, metricResult, completeMetric
  <1>2. summarise(rows).input = metricResult(rows, "input")
        /\ summarise(rows).output = metricResult(rows, "output")
    BY DEF summarise
  <1>3. clientUsageTokens(rows) = IF Unknown \in {I, O} THEN Unknown ELSE I + O
    BY <1>1, <1>2 DEF clientUsageTokens, addKnown
  <1>4. /\ Known(rows, "total") = Known(rows, "output")
        /\ Known(rows, "output") \subseteq Known(rows, "input")
        /\ Known(rows, "input") \subseteq W
    BY KnownSides DEF Known
  <1>5. /\ Total(rows, "input") \in Int /\ Total(rows, "output") \in Int
        /\ Unknown \notin Int
    BY TotalType, WorkerAssumption
  <1>6. CASE Known(rows, "output") # {} /\ Known(rows, "output") = W
    <2>1. I = Total(rows, "input") /\ O = Total(rows, "output")
          /\ completeMetric(rows, "total") = Total(rows, "total")
      BY <1>4, <1>6 DEF completeMetric
    <2>2. Total(rows, "total") = Total(rows, "input") + Total(rows, "output")
      BY <1>4, <1>6, KnownSides
    <2> HIDE DEF I, O
    <2> QED BY <1>3, <1>5, <2>1, <2>2
  <1>7. CASE ~ (Known(rows, "output") # {} /\ Known(rows, "output") = W)
    <2>1. O = Unknown /\ completeMetric(rows, "total") = Unknown
      BY <1>4, <1>7 DEF completeMetric
    <2> QED BY <1>3, <2>1
  <1> QED BY <1>6, <1>7

LEMMA ImageFinite ==
    ASSUME NEW S, IsFiniteSet(S), NEW f, DOMAIN f = S
    PROVE  IsFiniteSet({f[x] : x \in S})
  <1> DEFINE T == {f[x] : x \in S}
             h == [x \in S |-> f[x]]
  <1>1. h \in Surjection(S, T)
    BY DEF Surjection
  <1> HIDE DEF T, h
  <1>2. IsFiniteSet(T)
    BY <1>1, FS_Surjection
  <1> QED BY <1>2 DEF T

\* The rows of a breakdown's entry.
Group(rows, column, k) == [r \in {q \in DOMAIN rows : rows[q][column] = k} |-> rows[r]]

\* The entries there are.
Keys(rows, column) == {rows[r][column] : r \in DOMAIN rows}
Column(rows, column) == [r \in DOMAIN rows |-> rows[r][column]]

LEMMA BreakdownIs ==
    ASSUME NEW rows, NEW column
    PROVE  /\ DOMAIN Breakdown(rows, column) = Keys(rows, column)
           /\ \A k \in Keys(rows, column) :
                /\ Breakdown(rows, column)[k].requests =
                      Cardinality(Part(DOMAIN rows, Column(rows, column), k))
                /\ Breakdown(rows, column)[k].tokens.value =
                      completeMetric(Group(rows, column, k), "total")
  <1> DEFINE K == Keys(rows, column)
             E(k) == [requests |-> Cardinality(DOMAIN Group(rows, column, k)),
                      tokens   |-> tokenMetric(Group(rows, column, k), "total",
                                               UsageNotFinal(Group(rows, column, k)))]
  <1>1. Breakdown(rows, column) = [k \in K |-> E(k)]
    BY Zenon DEF Breakdown, Group, Keys
  <1>2. \A k : E(k).requests = Cardinality(Part(DOMAIN rows, Column(rows, column), k))
    <2> TAKE k
    <2>1. DOMAIN Group(rows, column, k) = Part(DOMAIN rows, Column(rows, column), k)
      BY DEF Group, Part, Column
    <2> QED BY <2>1
  <1>3. \A k : E(k).tokens.value = completeMetric(Group(rows, column, k), "total")
    BY DEF tokenMetric
  <1> HIDE DEF E, K
  <1>4. DOMAIN Breakdown(rows, column) = K /\ \A k \in K : Breakdown(rows, column)[k] = E(k)
    BY <1>1
  <1> QED BY <1>2, <1>3, <1>4 DEF K

\* The entries of a breakdown count every row once.
LEMMA RequestsAdd ==
    ASSUME NEW rows, Sane(rows), NEW column
    PROVE  SumFunction([k \in DOMAIN Breakdown(rows, column) |->
                           Breakdown(rows, column)[k].requests]) = Cardinality(DOMAIN rows)
  <1> DEFINE S == DOMAIN rows
             K == Keys(rows, column)
             key == Column(rows, column)
             ones == [r \in S |-> 1]
             P(k) == Part(S, key, k)
             g == [k \in DOMAIN Breakdown(rows, column) |-> Breakdown(rows, column)[k].requests]
  <1>1. IsFiniteSet(S)
    BY DEF Sane
  <1>2. IsFiniteSet(K)
    <2>1. K = {key[r] : r \in S} /\ DOMAIN key = S
      BY DEF Keys, Column
    <2> HIDE DEF K, key, S
    <2> QED BY <1>1, <2>1, ImageFinite
  <1>3. \A r \in S : key[r] \in K /\ ones[r] = 1
    BY DEF Keys, Column
  <1>4. DOMAIN g = K /\ \A k \in K : g[k] = Cardinality(P(k))
    <2>1. DOMAIN Breakdown(rows, column) = K
      BY BreakdownIs, Zenon
    <2>2. \A k \in K : Breakdown(rows, column)[k].requests = Cardinality(P(k))
      BY BreakdownIs, Zenon
    <2> QED BY <2>1, <2>2
  <1> HIDE DEF S, K, key, ones, g
  <1>5. ASSUME NEW k \in K PROVE g[k] = SumFunctionOnSet(ones, P(k))
    <2>1. P(k) \in SUBSET S /\ IsFiniteSet(P(k))
      BY <1>1, FS_Subset DEF Part
    <2> DEFINE p == P(k)
    <2>2. \A r \in p : ones[r] = 1
      BY <1>3, <2>1
    <2> HIDE DEF p
    <2>3. SumFunctionOnSet(ones, p) = Cardinality(p)
      BY <2>1, <2>2, SumCount DEF p
    <2> QED BY <1>4, <2>3 DEF p
  <1>6. SumFunctionOnSet(g, K) = SumFunctionOnSet(ones, S)
    <2>1. \A r \in S : ones[r] \in Int
      BY <1>3
    <2>2. \A k \in K : g[k] = SumFunctionOnSet(ones, Part(S, key, k))
      BY <1>5
    <2>3. Parted(S, ones, K, key, g)
      BY <1>1, <1>2, <1>3, <2>1, <2>2 DEF Parted
    <2> QED BY <2>3, SumOfParts
  <1>7. SumFunctionOnSet(ones, S) = Cardinality(S)
    BY <1>1, <1>3, SumCount
  <1>8. SumFunction(g) = SumFunctionOnSet(g, K)
    BY <1>4, Zenon DEF SumFunction
  <1> QED BY <1>6, <1>7, <1>8 DEF g, S

\* The tokens of a breakdown's entries add up to the total.
LEMMA TokensAdd ==
    ASSUME NEW rows, Sane(rows), NEW column, completeMetric(rows, "total") # Unknown
    PROVE  SumFunction([k \in DOMAIN Breakdown(rows, column) |->
                           IF Breakdown(rows, column)[k].tokens.value = Unknown THEN 0
                           ELSE Breakdown(rows, column)[k].tokens.value])
               = completeMetric(rows, "total")
  <1> DEFINE S == With(rows, "succeeded")
             K == Keys(rows, column)
             key == [r \in S |-> rows[r][column]]
             f == [r \in DOMAIN rows |-> Tokens(rows[r], "total")]
             P(k) == Part(S, key, k)
             b == Breakdown(rows, column)
             g == [k \in DOMAIN b |-> IF b[k].tokens.value = Unknown THEN 0
                                      ELSE b[k].tokens.value]
  <1>1. Known(rows, "total") = S /\ completeMetric(rows, "total") = SumFunctionOnSet(f, S)
    BY Zenon DEF completeMetric, Total
  <1>2. IsFiniteSet(S) /\ \A r \in S : f[r] \in Int
    <2>1. IsFiniteSet(S)
      BY FS_Subset DEF With, Sane
    <2>2. \A r \in S : r \in DOMAIN rows /\ Tokens(rows[r], "total") # Unknown
      BY <1>1 DEF Known, With
    <2>3. \A r \in S : Tokens(rows[r], "total") \in Nat \cup {Unknown}
      BY <2>2, TokensOf
    <2> QED BY <2>1, <2>2, <2>3
  <1>3. IsFiniteSet(K)
    <2> DEFINE c == [r \in DOMAIN rows |-> rows[r][column]]
    <2>1. K = {c[r] : r \in DOMAIN rows} /\ DOMAIN c = DOMAIN rows
      BY DEF Keys
    <2>2. IsFiniteSet(DOMAIN rows)
      BY DEF Sane
    <2> HIDE DEF K, c
    <2> QED BY <2>1, <2>2, ImageFinite
  <1>4. \A r \in S : key[r] \in K
    BY DEF With, Keys
  <1>5. DOMAIN b = K /\ \A k \in K : b[k].tokens.value = completeMetric(Group(rows, column, k), "total")
    <2>1. DOMAIN b = K
      BY BreakdownIs, Zenon
    <2>2. \A k \in K : b[k].tokens.value = completeMetric(Group(rows, column, k), "total")
      BY BreakdownIs, Zenon
    <2> QED BY <2>1, <2>2, Zenon
  <1>6. ASSUME NEW k \in K PROVE g[k] = SumFunctionOnSet(f, P(k))
    <2> DEFINE q == Group(rows, column, k)
               p == P(k)
               t == [r \in DOMAIN q |-> Tokens(q[r], "total")]
    <2>1. Sane(q)
      <3>1. {r \in DOMAIN rows : rows[r][column] = k} \in SUBSET DOMAIN rows
        OBVIOUS
      <3> QED BY <3>1, SanePart, Zenon DEF Group
    <2>2. DOMAIN q = {r \in DOMAIN rows : rows[r][column] = k} /\ \A r \in DOMAIN q : q[r] = rows[r]
      BY DEF Group
    <2> HIDE DEF q
    <2>3. With(q, "succeeded") = p /\ p \subseteq DOMAIN q
      BY <2>2 DEF With, Part
    <2>4. Known(q, "total") = p
      <3>1. \A r \in S : Tokens(rows[r], "total") # Unknown
        BY <1>1 DEF Known
      <3>2. \A r \in p : r \in S /\ q[r] = rows[r]
        BY <2>2, <2>3 DEF Part
      <3> HIDE DEF p, S
      <3>3. \A r \in p : Tokens(q[r], "total") # Unknown
        BY <3>1, <3>2
      <3>4. Known(q, "total") = {r \in p : Tokens(q[r], "total") # Unknown}
        BY <2>3, Zenon DEF Known
      <3> QED BY <3>3, <3>4
    <2>5. p \in SUBSET S /\ IsFiniteSet(p)
      BY <1>2, FS_Subset DEF Part
    <2>6. \A r \in p : t[r] = f[r]
      BY <2>2, <2>3, <2>5 DEF With
    <2>7. completeMetric(q, "total") = IF p = {} THEN Unknown ELSE SumFunctionOnSet(t, p)
      BY <2>3, <2>4, Zenon DEF completeMetric, Total
    <2> HIDE DEF p, t, f, S
    <2>8. SumFunctionOnSet(t, p) = SumFunctionOnSet(f, p)
      <3>1. \A r \in p : f[r] \in Int
        BY <1>2, <2>5
      <3> QED BY <2>5, <2>6, <3>1, SumSame
    <2>9. SumFunctionOnSet(f, p) \in Int
      BY <1>2, <2>5, SumType
    <2>10. p = {} => SumFunctionOnSet(f, p) = 0
      BY <1>2, SumEquation
    <2>11. g[k] = IF completeMetric(q, "total") = Unknown THEN 0 ELSE completeMetric(q, "total")
      BY <1>5 DEF q
    <2>12. g[k] = SumFunctionOnSet(f, p)
      BY <2>7, <2>8, <2>9, <2>10, <2>11, WorkerAssumption
    <2> QED BY <2>12 DEF p
  <1>7. DOMAIN g = K
    BY <1>5
  <1> HIDE DEF S, K, key, f, g, b
  <1>8. SumFunctionOnSet(g, K) = SumFunctionOnSet(f, S)
    <2>1. \A k \in K : g[k] = SumFunctionOnSet(f, Part(S, key, k))
      BY <1>6
    <2>2. \A r \in S : f[r] \in Int
      BY <1>2
    <2>3. Parted(S, f, K, key, g)
      BY <1>2, <1>3, <1>4, <2>1, <2>2 DEF Parted
    <2> QED BY <2>3, SumOfParts
  <1>9. SumFunction(g) = SumFunctionOnSet(g, K)
    BY <1>7, Zenon DEF SumFunction
  <1> QED BY <1>1, <1>8, <1>9 DEF g, b

LEMMA SaneHour ==
    ASSUME NEW rows, Sane(rows), NEW h
    PROVE  Sane(OfHour(rows, h))
  <1>1. {q \in DOMAIN rows : Hour(rows[q].started) = h} \in SUBSET DOMAIN rows
    OBVIOUS
  <1> QED BY <1>1, SanePart, Zenon DEF OfHour

LEMMA SaneGroup ==
    ASSUME NEW rows, Sane(rows), NEW column, NEW k
    PROVE  Sane(Group(rows, column, k))
  <1>1. {q \in DOMAIN rows : rows[q][column] = k} \in SUBSET DOMAIN rows
    OBVIOUS
  <1> QED BY <1>1, SanePart, Zenon DEF Group

\* The client dashboard's breakdown is the portal's by model.
LEMMA ModelsAgree ==
    ASSUME NEW rows, Sane(rows)
    PROVE  clientModelBreakdown(rows) =
               [m \in DOMAIN makeModelBreakdowns(rows) |->
                   [requests |-> makeModelBreakdowns(rows)[m].requests,
                    tokens   |-> makeModelBreakdowns(rows)[m].tokens.value]]
  <1> DEFINE b == makeModelBreakdowns(rows)
             C(m) == Cardinality(DOMAIN Group(rows, "model", m))
             T(m) == clientUsageTokens(Group(rows, "model", m))
  <1>1. clientModelBreakdown(rows) =
            [m \in Keys(rows, "model") |-> [requests |-> C(m), tokens |-> T(m)]]
    BY Zenon DEF clientModelBreakdown, Group, Keys
  <1>2. DOMAIN b = Keys(rows, "model")
    BY BreakdownIs, Zenon DEF makeModelBreakdowns
  <1>3. ASSUME NEW m \in Keys(rows, "model")
        PROVE  b[m].requests = C(m) /\ b[m].tokens.value = T(m)
    <2>1. b[m].requests = Cardinality(Part(DOMAIN rows, Column(rows, "model"), m))
      BY <1>3, BreakdownIs, Zenon DEF makeModelBreakdowns
    <2>2. DOMAIN Group(rows, "model", m) = Part(DOMAIN rows, Column(rows, "model"), m)
      BY DEF Group, Part, Column
    <2>3. b[m].tokens.value = completeMetric(Group(rows, "model", m), "total")
      BY <1>3, BreakdownIs, Zenon DEF makeModelBreakdowns
    <2>4. T(m) = completeMetric(Group(rows, "model", m), "total")
      BY SaneGroup, ClientTotal
    <2> QED BY <2>1, <2>2, <2>3, <2>4
  <1> HIDE DEF b, C, T
  <1>4. [m \in Keys(rows, "model") |-> [requests |-> C(m), tokens |-> T(m)]] =
            [m \in DOMAIN b |-> [requests |-> b[m].requests, tokens |-> b[m].tokens.value]]
    BY <1>2, <1>3
  <1> QED BY <1>1, <1>4, Zenon DEF b

LEMMA TotalsHold ==
    ASSUME NEW rows, Sane(rows)
    PROVE  TotalsAgree(rows)
  <1> DEFINE direct == buildPortalUsage(rows, now)
             summary == summarise(rows)
  <1>1. /\ direct.counts = Counts(rows) /\ summary.counts = Counts(rows)
        /\ direct.p50 = Percentile(rows, 50, "portal")
        /\ direct.p95 = Percentile(rows, 95, "portal")
        /\ summary.p50 = Percentile(rows, 50, "control")
        /\ summary.p95 = Percentile(rows, 95, "control")
        /\ direct.tokens = IF rows = <<>> THEN emptyTokenMetric
                           ELSE tokenMetric(rows, "total", UsageNotFinal(rows))
    BY DEF buildPortalUsage, summarise
  <1> HIDE DEF direct, summary
  <1>2. /\ summary.p50 = direct.p50
        /\ ~ OneFurther(Cardinality(Sampled(rows))) => summary.p95 = direct.p95
    <2>1. IsFiniteSet(DOMAIN rows)
      BY DEF Sane
    <2> QED BY <1>1, <2>1, PercentilesAgree
  <1>3. direct.tokens.value = IF rows = <<>> THEN 0 ELSE completeMetric(rows, "total")
    BY <1>1 DEF emptyTokenMetric, tokenMetric
  <1>4. rows # <<>> => clientUsageTokens(rows) = direct.tokens.value
    BY <1>3, ClientTotal
  <1>5. ASSUME NEW column, NEW b, b = Breakdown(rows, column)
        PROVE  /\ SumFunction([k \in DOMAIN b |-> b[k].requests]) = Cardinality(DOMAIN rows)
               /\ direct.tokens.value # Unknown =>
                    direct.tokens.value =
                        SumFunction([k \in DOMAIN b |-> IF b[k].tokens.value = Unknown THEN 0
                                                        ELSE b[k].tokens.value])
    <2>1. SumFunction([k \in DOMAIN b |-> b[k].requests]) = Cardinality(DOMAIN rows)
      BY <1>5, RequestsAdd, Zenon
    <2> DEFINE g == [k \in DOMAIN b |-> IF b[k].tokens.value = Unknown THEN 0
                                        ELSE b[k].tokens.value]
    <2>2. CASE rows = <<>>
      <3>1. DOMAIN b = {}
        <4>1. DOMAIN b = Keys(rows, column)
          BY <1>5, BreakdownIs, Zenon
        <4>2. DOMAIN rows = {}
          BY <2>2, ReadNothing
        <4> QED BY <4>1, <4>2 DEF Keys
      <3>2. DOMAIN g = {}
        BY <3>1
      <3> HIDE DEF g
      <3>3. SumFunction(g) = 0
        BY <3>2, SumEquation, FS_EmptySet DEF SumFunction
      <3> QED BY <1>3, <2>1, <2>2, <3>3 DEF g
    <2>3. CASE rows # <<>>
      <3>1. completeMetric(rows, "total") # Unknown =>
                SumFunction(g) = completeMetric(rows, "total")
        BY <1>5, TokensAdd, Zenon
      <3> HIDE DEF g
      <3> QED BY <1>3, <2>1, <2>3, <3>1 DEF g
    <2> QED BY <2>2, <2>3
  <1>6. ASSUME NEW h \in DOMAIN clientTrend(rows)
        PROVE  clientTrend(rows)[h] = buildDirectTrend(OfHour(rows, h)).tokens.value
    <2>1. clientTrend(rows)[h] = clientUsageTokens(OfHour(rows, h))
      BY DEF clientTrend
    <2>2. buildDirectTrend(OfHour(rows, h)).tokens.value = completeMetric(OfHour(rows, h), "total")
      BY DEF buildDirectTrend, tokenMetric
    <2> QED BY <2>1, <2>2, SaneHour, ClientTotal
  <1>7. /\ makeBreakdowns(rows) = Breakdown(rows, "actor")
        /\ makeModelBreakdowns(rows) = Breakdown(rows, "model")
    BY DEF makeBreakdowns, makeModelBreakdowns
  <1>8. \A b \in {makeBreakdowns(rows), makeModelBreakdowns(rows)} :
            /\ SumFunction([k \in DOMAIN b |-> b[k].requests]) = Cardinality(DOMAIN rows)
            /\ direct.tokens.value # Unknown =>
                 direct.tokens.value =
                     SumFunction([k \in DOMAIN b |-> IF b[k].tokens.value = Unknown THEN 0
                                                     ELSE b[k].tokens.value])
    BY <1>5, <1>7, Zenon
  <1>9. /\ summary.counts = direct.counts /\ summary.p50 = direct.p50
        /\ ~ OneFurther(Cardinality(Sampled(rows))) => summary.p95 = direct.p95
    BY <1>1, <1>2
  <1>10. clientModelBreakdown(rows) =
             [m \in DOMAIN makeModelBreakdowns(rows) |->
                 [requests |-> makeModelBreakdowns(rows)[m].requests,
                  tokens   |-> makeModelBreakdowns(rows)[m].tokens.value]]
    BY ModelsAgree, Zenon
  <1>11. \A h \in DOMAIN clientTrend(rows) :
             clientTrend(rows)[h] = buildDirectTrend(OfHour(rows, h)).tokens.value
    BY <1>6
  <1> QED BY <1>4, <1>8, <1>9, <1>10, <1>11, Zenon DEF TotalsAgree, direct, summary

----------------------------------------------------------------------------
(* The reports: what is final.                                             *)

LEMMA ProvisionalRows ==
    ASSUME NEW rows
    PROVE  SomeProvisional(rows) <=> With(rows, "in_progress") # {} \/ UsageNotFinal(rows)
  BY DEF SomeProvisional, Provisional, With, UsageNotFinal

LEMMA FinalitiesHold ==
    ASSUME NEW rows, NEW to \in PeriodBounds, now \in Ticks
    PROVE  FinalitiesAgree(rows, to)
  <1> DEFINE P == SomeProvisional(rows)
             E == rows = <<>>
  <1>0. to <= now <=> ~ (to > now)
    BY WorkerAssumption DEF Ticks, PeriodBounds
  <1>1. dashboardFinality(rows, to, now) =
            IF ~(E /\ to <= now) /\ (P \/ to > now) THEN "partial" ELSE "final"
    BY DEF dashboardFinality, buildPortalUsage
  <1>2. clientPartialReasons(rows, to, now) = {} <=> ~ (to > now) /\ ~ P
    BY ProvisionalRows DEF clientPartialReasons
  <1>3. E => ~ P
    <2>1. E => DOMAIN rows = {}
      BY ReadNothing
    <2> QED BY <2>1 DEF SomeProvisional
  <1>4. LedgerFinality(rows) = IF With(rows, "in_progress") # {} THEN "partial" ELSE "final"
    BY DEF LedgerFinality
  <1>5. ~ P => With(rows, "in_progress") = {}
    BY ProvisionalRows
  <1> HIDE DEF P, E
  <1> QED BY <1>0, <1>1, <1>2, <1>3, <1>4, <1>5 DEF FinalitiesAgree

\* The requests that were started in a period.
Within(from, to) ==
    {r \in DOMAIN ledger : from <= ledger[r].started /\ ledger[r].started < to}

\* A period of which there is a page: its rows are those of service accounts.
LEMMA PageOf ==
    ASSUME Sane(ledger), NEW from, NEW to,
           ListInferenceRequests(ledger, from, to) # Unavailable
    PROVE  /\ ListInferenceRequests(ledger, from, to) = [r \in Within(from, to) |-> ledger[r]]
           /\ \A r \in Within(from, to) : ledger[r].actor # Person
           /\ Sane(ListInferenceRequests(ledger, from, to))
  <1> DEFINE D == Within(from, to)
             page == ListInferenceRequests(ledger, from, to)
  <1>1. page = IF \E r \in D : ledger[r].actor = Person THEN Unavailable
               ELSE [r \in D |-> ledger[r]]
    BY Zenon DEF ListInferenceRequests, Within
  <1>2. D \in SUBSET DOMAIN ledger
    BY DEF Within
  <1>3. page # Unavailable
    OBVIOUS
  <1> HIDE DEF D, page
  <1>4. page = [r \in D |-> ledger[r]] /\ \A r \in D : ledger[r].actor # Person
    BY <1>1, <1>3
  <1>5. Sane(page)
    BY <1>2, <1>4, SanePart, Zenon
  <1> QED BY <1>4, <1>5 DEF D, page

\* The page of an hour is what the rollup counts of the hour.
LEMMA PageOfHour ==
    ASSUME Sane(ledger), NEW h \in Hours,
           ListInferenceRequests(ledger, h * HourLen, OverAt(h)) # Unavailable
    PROVE  ListInferenceRequests(ledger, h * HourLen, OverAt(h)) = OfHour(ServiceRows, h)
  <1> DEFINE D == {r \in DOMAIN ledger : /\ h * HourLen <= ledger[r].started
                                         /\ ledger[r].started < OverAt(h)}
             A == {r \in DOMAIN ledger : ledger[r].actor # Person}
             S == [r \in A |-> ledger[r]]
             C == {r \in DOMAIN S : Hour(S[r].started) = h}
  <1>1. /\ ListInferenceRequests(ledger, h * HourLen, OverAt(h)) = [r \in D |-> ledger[r]]
        /\ \A r \in D : ledger[r].actor # Person
    <2>1. D = Within(h * HourLen, OverAt(h))
      BY DEF Within
    <2> HIDE DEF D
    <2> QED BY <2>1, PageOf, Zenon
  <1>2. OfHour(ServiceRows, h) = [r \in C |-> S[r]]
    BY DEF OfHour, ServiceRows
  <1>3. DOMAIN S = A /\ \A r \in A : S[r] = ledger[r]
    OBVIOUS
  <1>4. ASSUME NEW r \in DOMAIN ledger
        PROVE  Hour(ledger[r].started) = h
                   <=> h * HourLen <= ledger[r].started /\ ledger[r].started < OverAt(h)
    <2>1. ledger[r].started \in Nat
      BY WorkerAssumption DEF Sane, Rows, Ticks
    <2>2. h \in Int
      BY HourBounds, WorkerAssumption DEF Hours
    <2> QED BY <2>1, <2>2, HourBounds, HourUnique
  <1> HIDE DEF S
  <1>5. C = D /\ \A r \in D : S[r] = ledger[r]
    BY <1>1, <1>3, <1>4
  <1> HIDE DEF C, D
  <1>6. [r \in C |-> S[r]] = [r \in D |-> ledger[r]]
    BY <1>5
  <1> QED BY <1>1, <1>2, <1>6

LEMMA RollupHolds ==
    ASSUME Sane(ledger)
    PROVE  RollupAgrees
  <1> SUFFICES ASSUME NEW h \in Hours,
                      ListInferenceRequests(ledger, h * HourLen, OverAt(h)) # Unavailable
               PROVE  LET rows  == OfHour(ServiceRows, h)
                          hour  == Rollup(rows, h, now)
                          point == buildDirectTrend(rows)
                      IN  /\ hour.counts = point.counts /\ hour.p95 = point.p95
                          /\ hour.input = completeTokenMetric(summarise(rows).input)
                          /\ hour.finality = "final" =>
                               point.finality = "final" /\ point.tokens.finality # "partial"
    BY PageOfHour DEF RollupAgrees
  <1> DEFINE rows  == OfHour(ServiceRows, h)
             hour  == Rollup(rows, h, now)
             point == buildDirectTrend(rows)
  <1>1. Sane(rows)
    <2>1. {q \in DOMAIN ledger : ledger[q].actor # Person} \in SUBSET DOMAIN ledger
      OBVIOUS
    <2>2. Sane(ServiceRows)
      BY <2>1, SanePart, Zenon DEF ServiceRows
    <2> QED BY <2>2, SaneHour
  <1> HIDE DEF rows
  <1>2. hour.counts = point.counts
    BY DEF Rollup, buildDirectTrend
  <1>3. hour.p95 = point.p95
    <2>1. hour.p95 = Percentile(rows, 95, "rollup") /\ point.p95 = Percentile(rows, 95, "portal")
      BY DEF Rollup, buildDirectTrend
    <2>2. IsFiniteSet(DOMAIN rows)
      BY <1>1 DEF Sane
    <2> HIDE DEF hour, point
    <2> QED BY <2>1, <2>2, PercentilesAgree
  <1>4. hour.input = completeTokenMetric(summarise(rows).input)
    <2>1. hour.input = completeMetric(rows, "input")
          /\ summarise(rows).input = metricResult(rows, "input")
      BY DEF Rollup, summarise
    <2>2. completeTokenMetric(metricResult(rows, "input")) = completeMetric(rows, "input")
      BY DEF completeTokenMetric, metricResult, completeMetric
    <2> QED BY <2>1, <2>2
  <1>5. ASSUME hour.finality = "final"
        PROVE  point.finality = "final" /\ point.tokens.finality # "partial"
    <2>1. ~ SomeProvisional(rows)
      BY <1>5 DEF Rollup, RollupFinality, SomeProvisional
    <2>2. point.finality = "final"
          /\ point.tokens.finality =
               IF With(rows, "succeeded") = {} THEN "unknown"
               ELSE IF SomeProvisional(rows) \/ completeMetric(rows, "total") = Unknown THEN "partial"
               ELSE "final"
      BY <2>1 DEF buildDirectTrend, tokenMetric
    <2>3. With(rows, "succeeded") # {} => completeMetric(rows, "total") # Unknown
      <3>1. ~ UsageNotFinal(rows)
        BY <2>1, ProvisionalRows
      <3>2. Known(rows, "total") = With(rows, "succeeded")
        BY <1>1, <3>1, KnownSides DEF UsageNotFinal
      <3>3. Total(rows, "total") \in Int
        BY <1>1, TotalType
      <3> QED BY <3>2, <3>3, WorkerAssumption DEF completeMetric
    <2> HIDE DEF point
    <2> QED BY <2>1, <2>2, <2>3
  <1> HIDE DEF hour, point
  <1>6. /\ hour.counts = point.counts /\ hour.p95 = point.p95
        /\ hour.input = completeTokenMetric(summarise(rows).input)
        /\ hour.finality = "final" => point.finality = "final" /\ point.tokens.finality # "partial"
    BY <1>2, <1>3, <1>4, <1>5
  <1> QED BY <1>6, Zenon DEF hour, point, rows

----------------------------------------------------------------------------
(* The sweep.                                                              *)

LEMMA MinOfSet ==
    ASSUME NEW S \in SUBSET Nat, S # {}
    PROVE  Min(S) \in S /\ \A y \in S : Min(S) <= y
  <1>1. \E x \in S : \A y \in S : x <= y
    BY Least
  <1> QED BY <1>1 DEF Min

LEMMA MaxOfBounded ==
    ASSUME NEW S \in SUBSET Nat, S # {}, NEW N \in Nat, \A x \in S : x <= N
    PROVE  \E x \in S : \A y \in S : x >= y
  <1> DEFINE T == {N - x : x \in S}
  <1>0. \A x \in S : N - x \in Nat
    OBVIOUS
  <1>1. T \in SUBSET Nat /\ T # {}
    BY <1>0
  <1> HIDE DEF T
  <1>2. PICK m \in T : \A y \in T : m <= y
    BY <1>1, Least
  <1> USE DEF T
  <1>3. PICK x \in S : m = N - x
    OBVIOUS
  <1>4. \A y \in S : x >= y
    <2> TAKE y \in S
    <2>1. N - y \in T
      OBVIOUS
    <2> HIDE DEF T
    <2>2. N - x <= N - y
      BY <1>2, <1>3, <2>1
    <2> QED BY <2>2
  <1> QED BY <1>4

\* The larger of two sets that contain the same numbers up to smaller ones.
LEMMA MaxesEqual ==
    ASSUME NEW A \in SUBSET Int, NEW B \in SUBSET A, NEW m \in B, \A y \in B : m >= y,
           \A a \in A : \E b \in B : a <= b
    PROVE  Max(A) = Max(B)
  <1>0. m \in Int /\ \A b \in B : b \in Int
    OBVIOUS
  <1>1. \A a \in A : m >= a
    OBVIOUS
  <1>2. Max(B) = m
    <2>1. Max(B) \in B /\ \A y \in B : Max(B) >= y
      BY DEF Max
    <2>2. Max(B) \in Int /\ Max(B) >= m /\ m >= Max(B)
      BY <1>0, <2>1
    <2> QED BY <1>0, <2>2
  <1>3. Max(A) = m
    <2>1. Max(A) \in A /\ \A y \in A : Max(A) >= y
      BY <1>1 DEF Max
    <2>2. Max(A) \in Int /\ Max(A) >= m /\ m >= Max(A)
      BY <1>1, <2>1
    <2> QED BY <1>0, <2>2
  <1> QED BY <1>2, <1>3

\* Intervals as the reports cut them.
Spans(I) ==
    /\ IsFiniteSet(DOMAIN I)
    /\ \A r \in DOMAIN I : I[r][1] \in Nat /\ I[r][2] \in Ticks /\ I[r][1] < I[r][2]

Started(I, t) == {r \in DOMAIN I : I[r][1] <= t}
Ended(I, t)   == {r \in DOMAIN I : I[r][2] <= t}
In(I, P)      == {r \in DOMAIN I : <<r, 1>> \in P}
Out(I, P)     == {r \in DOMAIN I : <<r, -1>> \in P}

LEMMA PartSizes ==
    ASSUME NEW D, IsFiniteSet(D), NEW A \in SUBSET D, NEW B \in SUBSET D
    PROVE  /\ Cardinality(A) \in Nat /\ Cardinality(A) <= Cardinality(D)
           /\ IsFiniteSet(A)
           /\ A \subseteq B => Cardinality(A) <= Cardinality(B)
           /\ A \subseteq B => Cardinality(B \ A) = Cardinality(B) - Cardinality(A)
  <1>1. IsFiniteSet(A) /\ IsFiniteSet(B) /\ Cardinality(A) <= Cardinality(D)
    BY FS_Subset
  <1>2. Cardinality(A) \in Nat
    BY <1>1, FS_CardinalityType
  <1>3. A \subseteq B => Cardinality(A) <= Cardinality(B)
    BY <1>1, FS_Subset
  <1>4. ASSUME A \subseteq B PROVE Cardinality(B \ A) = Cardinality(B) - Cardinality(A)
    <2>1. Cardinality(B \ A) = Cardinality(B) - Cardinality(B \cap A)
      BY <1>1, FS_Difference
    <2>2. B \cap A = A
      BY <1>4
    <2> QED BY <2>1, <2>2
  <1> QED BY <1>1, <1>2, <1>3, <1>4

LEMMA OverlapIs ==
    ASSUME NEW I, Spans(I), NEW t \in Int
    PROVE  /\ Overlap(I, t) = Cardinality(Started(I, t)) - Cardinality(Ended(I, t))
           /\ Overlap(I, t) \in Nat /\ Overlap(I, t) <= Cardinality(DOMAIN I)
  <1> DEFINE O == {r \in DOMAIN I : I[r][1] <= t /\ t < I[r][2]}
  <1>1. /\ Started(I, t) \in SUBSET DOMAIN I /\ Ended(I, t) \in SUBSET DOMAIN I
        /\ O \in SUBSET DOMAIN I
    BY DEF Started, Ended
  <1>2. Ended(I, t) \subseteq Started(I, t) /\ O = Started(I, t) \ Ended(I, t)
    BY WorkerAssumption DEF Started, Ended, Spans, Ticks
  <1>3. Overlap(I, t) = Cardinality(O)
    BY DEF Overlap
  <1> HIDE DEF O
  <1>4. IsFiniteSet(DOMAIN I)
    BY DEF Spans
  <1>5. Cardinality(O) \in Nat /\ Cardinality(O) <= Cardinality(DOMAIN I)
    BY <1>1, <1>4, PartSizes
  <1>6. Cardinality(Started(I, t) \ Ended(I, t)) = Cardinality(Started(I, t)) - Cardinality(Ended(I, t))
    BY <1>1, <1>2, <1>4, PartSizes
  <1> QED BY <1>2, <1>3, <1>5, <1>6

LEMMA CurrentIs ==
    ASSUME NEW I, Spans(I), NEW P \in SUBSET Events(I)
    PROVE  Current(P) = Cardinality(In(I, P)) - Cardinality(Out(I, P))
  <1>1. ASSUME NEW c \in {1, -1}
        PROVE  Cardinality({e \in P : e[2] = c}) = Cardinality({r \in DOMAIN I : <<r, c>> \in P})
    <2> DEFINE S == {r \in DOMAIN I : <<r, c>> \in P}
               T == {e \in P : e[2] = c}
               f == [r \in S |-> <<r, c>>]
    <2>1. IsFiniteSet(S)
      BY FS_Subset DEF Spans
    <2>2. \A r \in S : f[r] \in T
      OBVIOUS
    <2>3. \A e \in T : e[1] \in S /\ e = <<e[1], c>>
      BY DEF Events
    <2>4. f \in Bijection(S, T)
      <3>1. \A e \in T : \E r \in S : f[r] = e
        BY <2>3
      <3>2. \A r, q \in S : f[r] = f[q] => r = q
        OBVIOUS
      <3>3. f \in [S -> T]
        BY <2>2
      <3> HIDE DEF f, S, T
      <3>4. f \in Injection(S, T)
        BY <3>2, <3>3 DEF Injection, IsInjective
      <3>5. f \in Surjection(S, T)
        BY <3>1, <3>3 DEF Surjection
      <3> QED BY <3>4, <3>5 DEF Bijection
    <2> HIDE DEF f, S, T
    <2>5. ExistsBijection(S, T)
      BY <2>4, Zenon DEF ExistsBijection
    <2>6. Cardinality(T) = Cardinality(S)
      BY <2>1, <2>5, FS_Bijection
    <2> QED BY <2>6 DEF S, T
  <1>2. Cardinality({e \in P : e[2] = 1}) = Cardinality(In(I, P))
    BY <1>1, Zenon DEF In
  <1>3. Cardinality({e \in P : e[2] = -1}) = Cardinality(Out(I, P))
    BY <1>1, Zenon DEF Out
  <1> QED BY <1>2, <1>3 DEF Current

LEMMA Instants ==
    ASSUME NEW I, Spans(I), NEW e \in Events(I)
    PROVE  /\ Instant(I, e) \in Ticks /\ Instant(I, e) \in Nat
           /\ e[1] \in DOMAIN I /\ e = <<e[1], e[2]>>
           /\ \/ e[2] = 1 /\ Instant(I, e) = I[e[1]][1]
              \/ e[2] = -1 /\ Instant(I, e) = I[e[1]][2] /\ Instant(I, e) > 0
  <1>1. e[1] \in DOMAIN I /\ e[2] \in {1, -1} /\ e = <<e[1], e[2]>>
    BY DEF Events
  <1>2. I[e[1]][1] \in Nat /\ I[e[1]][2] \in Ticks /\ I[e[1]][1] < I[e[1]][2]
    BY <1>1 DEF Spans
  <1>3. CASE e[2] = 1
    BY <1>1, <1>2, <1>3, WorkerAssumption DEF Instant, Ticks
  <1>4. CASE e[2] = -1
    BY <1>1, <1>2, <1>4, WorkerAssumption DEF Instant, Ticks
  <1> QED BY <1>1, <1>3, <1>4

LEMMA EventOf ==
    ASSUME NEW I, NEW r \in DOMAIN I
    PROVE  /\ <<r, 1>> \in Events(I) /\ Instant(I, <<r, 1>>) = I[r][1]
           /\ <<r, -1>> \in Events(I) /\ Instant(I, <<r, -1>>) = I[r][2]
  BY DEF Events, Instant

\* The sweep comes upon every overlap, after the last event of its tick ...
LEMMA OverlapAttained ==
    ASSUME NEW I, Spans(I), NEW t \in Ticks
    PROVE  \E P \in Prefixes(I) : Current(P) = Overlap(I, t)
  <1> DEFINE P == {e \in Events(I) : Instant(I, e) <= t}
  <1>0. t \in Int /\ P \in SUBSET Events(I)
    BY WorkerAssumption DEF Ticks
  <1>1. P \in Prefixes(I)
    <2>1. ASSUME NEW a \in P, NEW b \in Events(I) \ P PROVE ~ Before(I, b, a)
      <3>1. Instant(I, a) <= t /\ ~ (Instant(I, b) <= t)
        OBVIOUS
      <3>2. Instant(I, a) \in Nat /\ Instant(I, b) \in Nat
        BY Instants
      <3> HIDE DEF P
      <3> QED BY <1>0, <3>1, <3>2 DEF Before
    <2> HIDE DEF P
    <2> QED BY <1>0, <2>1 DEF Prefixes
  <1>2. In(I, P) = Started(I, t) /\ Out(I, P) = Ended(I, t)
    BY EventOf DEF In, Out, Started, Ended
  <1> HIDE DEF P
  <1>3. Current(P) = Cardinality(Started(I, t)) - Cardinality(Ended(I, t))
    BY <1>0, <1>2, CurrentIs
  <1>4. Overlap(I, t) = Cardinality(Started(I, t)) - Cardinality(Ended(I, t))
    BY <1>0, OverlapIs
  <1> QED BY <1>1, <1>3, <1>4

\* ... and counts no more than one at any place.
LEMMA SweepBounded ==
    ASSUME NEW I, Spans(I), NEW P \in Prefixes(I)
    PROVE  Current(P) \in Int /\ \E n \in {0} \cup {Overlap(I, t) : t \in Ticks} : Current(P) <= n
  <1>1. P \in SUBSET Events(I) /\ \A a \in P, b \in Events(I) \ P : ~ Before(I, b, a)
    BY DEF Prefixes
  <1>2. Current(P) = Cardinality(In(I, P)) - Cardinality(Out(I, P))
    BY <1>1, CurrentIs
  <1>3. /\ In(I, P) \in SUBSET DOMAIN I /\ Out(I, P) \in SUBSET DOMAIN I
        /\ \A t : Started(I, t) \in SUBSET DOMAIN I /\ Ended(I, t) \in SUBSET DOMAIN I
        /\ IsFiniteSet(DOMAIN I)
    BY DEF In, Out, Started, Ended, Spans
  <1>4. Cardinality(In(I, P)) \in Nat /\ Cardinality(Out(I, P)) \in Nat
    BY <1>3, PartSizes
  <1>5. ASSUME NEW t \in Ticks, In(I, P) \subseteq Started(I, t), Ended(I, t) \subseteq Out(I, P)
        PROVE  Current(P) <= Overlap(I, t)
    <2>1. Cardinality(In(I, P)) <= Cardinality(Started(I, t))
      BY <1>3, <1>5, PartSizes
    <2>2. Cardinality(Ended(I, t)) <= Cardinality(Out(I, P))
      BY <1>3, <1>5, PartSizes
    <2>3. Overlap(I, t) = Cardinality(Started(I, t)) - Cardinality(Ended(I, t))
      BY OverlapIs, WorkerAssumption DEF Ticks
    <2>4. Cardinality(Started(I, t)) \in Nat /\ Cardinality(Ended(I, t)) \in Nat
      BY <1>3, PartSizes
    <2> QED BY <1>2, <1>4, <2>1, <2>2, <2>3, <2>4
  <1>8. /\ Current(P) \in Int
        /\ \A t \in Ticks : Current(P) <= Overlap(I, t) =>
              \E n \in {0} \cup {Overlap(I, i) : i \in Ticks} : Current(P) <= n
    <2>1. ASSUME NEW t \in Ticks, Current(P) <= Overlap(I, t)
          PROVE  \E n \in {0} \cup {Overlap(I, i) : i \in Ticks} : Current(P) <= n
      <3>1. Overlap(I, t) \in {0} \cup {Overlap(I, i) : i \in Ticks}
        OBVIOUS
      <3> QED BY <2>1, <3>1, Zenon
    <2>2. Current(P) \in Int
      BY <1>2, <1>4
    <2> QED BY <2>1, <2>2, Zenon
  <1>6. CASE P = {}
    <2>1. In(I, P) = {} /\ Out(I, P) = {}
      BY <1>6 DEF In, Out
    <2>2. Current(P) = 0
      BY <1>2, <2>1, FS_EmptySet
    <2> QED BY <2>2
  <1>7. CASE P # {}
    <2> DEFINE T == {Instant(I, e) : e \in P}
    <2>1. \A e \in P : Instant(I, e) \in Nat /\ Instant(I, e) <= MaxNow
      BY <1>1, Instants, WorkerAssumption DEF Ticks
    <2>2. T \in SUBSET Nat /\ T # {} /\ \A x \in T : x <= MaxNow
      BY <1>7, <2>1
    <2> HIDE DEF T
    <2>3. PICK x \in T : \A y \in T : x >= y
      BY <2>2, MaxOfBounded, WorkerAssumption
    <2>4. PICK a \in P : x = Instant(I, a)
      BY DEF T
    <2>5. \A e \in P : Instant(I, e) <= x
      <3> TAKE e \in P
      <3>1. Instant(I, e) \in T
        BY DEF T
      <3> QED BY <2>2, <2>3, <3>1
    <2>6. \A e \in Events(I) : Instant(I, e) < x => e \in P
      BY <1>1, <2>4 DEF Before
    <2>7. x \in Ticks /\ x \in Nat
      BY <1>1, <2>4, Instants
    <2>8. CASE \E s \in P : s[2] = 1 /\ Instant(I, s) = x
      <3>1. PICK s \in P : s[2] = 1 /\ Instant(I, s) = x
        BY <2>8
      <3>2. In(I, P) \subseteq Started(I, x)
        <4> SUFFICES ASSUME NEW r \in DOMAIN I, <<r, 1>> \in P PROVE I[r][1] <= x
          BY DEF In, Started
        <4> QED BY <2>5, EventOf
      <3>3. Ended(I, x) \subseteq Out(I, P)
        <4> SUFFICES ASSUME NEW r \in DOMAIN I, I[r][2] <= x PROVE <<r, -1>> \in P
          BY DEF Out, Ended
        <4> DEFINE e == <<r, -1>>
        <4>1. e \in Events(I) /\ e[2] = -1 /\ Instant(I, e) = I[r][2]
          BY EventOf
        <4>2. I[r][2] \in Nat
          BY WorkerAssumption DEF Spans, Ticks
        <4> HIDE DEF e
        <4>3. CASE I[r][2] < x
          BY <2>6, <4>1, <4>3 DEF e
        <4>4. CASE I[r][2] = x
          <5>1. Before(I, e, s)
            BY <3>1, <4>1, <4>4 DEF Before
          <5> QED BY <1>1, <3>1, <4>1, <5>1 DEF e
        <4> QED BY <2>7, <4>2, <4>3, <4>4
      <3>4. Current(P) <= Overlap(I, x)
        BY <1>5, <2>7, <3>2, <3>3
      <3> QED BY <1>8, <2>7, <3>4
    <2>9. CASE ~ \E s \in P : s[2] = 1 /\ Instant(I, s) = x
      <3>1. x > 0
        BY <1>1, <2>4, <2>9, Instants
      <3>2. x - 1 \in Ticks
        BY <2>7, <3>1, WorkerAssumption DEF Ticks
      <3>3. In(I, P) \subseteq Started(I, x - 1)
        <4> SUFFICES ASSUME NEW r \in DOMAIN I, <<r, 1>> \in P PROVE I[r][1] <= x - 1
          BY DEF In, Started
        <4>1. I[r][1] <= x /\ I[r][1] # x
          BY <2>5, <2>9, EventOf
        <4> QED BY <2>7, <4>1 DEF Spans
      <3>4. Ended(I, x - 1) \subseteq Out(I, P)
        <4> SUFFICES ASSUME NEW r \in DOMAIN I, I[r][2] <= x - 1 PROVE <<r, -1>> \in P
          BY DEF Out, Ended
        <4>1. I[r][2] \in Nat
          BY WorkerAssumption DEF Spans, Ticks
        <4>2. I[r][2] < x
          BY <2>7, <4>1
        <4> QED BY <2>6, <4>2, EventOf
      <3>5. Current(P) <= Overlap(I, x - 1)
        BY <1>5, <3>2, <3>3, <3>4
      <3> QED BY <1>8, <3>2, <3>5
    <2> QED BY <2>8, <2>9
  <1> QED BY <1>6, <1>7, <1>2, <1>4

\* So its peak is the largest overlap.
LEMMA SweepIs ==
    ASSUME NEW I, Spans(I)
    PROVE  Sweep(I) = LargestOverlap(I)
  <1> DEFINE A == {Current(P) : P \in Prefixes(I)}
             B == {0} \cup {Overlap(I, t) : t \in Ticks}
             N == Cardinality(DOMAIN I)
  <1>1. \A t \in Ticks : Overlap(I, t) \in Nat /\ Overlap(I, t) <= N
    BY OverlapIs, WorkerAssumption DEF Ticks
  <1>2. N \in Nat
    BY FS_CardinalityType DEF Spans
  <1>3. B \in SUBSET Nat /\ B # {} /\ \A x \in B : x <= N
    <2> HIDE DEF N
    <2> QED BY <1>1, <1>2
  <1>4. \E m \in B : \A y \in B : m >= y
    <2> HIDE DEF B, N
    <2> QED BY <1>2, <1>3, MaxOfBounded
  <1>5. A \in SUBSET Int
    BY SweepBounded
  <1>6. 0 \in A
    <2>1. {} \in Prefixes(I)
      BY DEF Prefixes
    <2>2. In(I, {}) = {} /\ Out(I, {}) = {} /\ {} \in SUBSET Events(I)
      BY DEF In, Out
    <2>3. Current({}) = 0
      BY <2>2, CurrentIs, FS_EmptySet
    <2> QED BY <2>1, <2>3
  <1>7. \A t \in Ticks : Overlap(I, t) \in A
    BY OverlapAttained
  <1>8. B \in SUBSET A
    <2> HIDE DEF A
    <2> QED BY <1>6, <1>7
  <1>9. \A a \in A : \E b \in B : a <= b
    BY SweepBounded
  <1> HIDE DEF A, B
  <1>10. Max(A) = Max(B)
    BY <1>4, <1>5, <1>8, <1>9, MaxesEqual
  <1> QED BY <1>10, Zenon DEF Sweep, LargestOverlap, A, B

\* The intervals that are left are proper.
LEMMA PositiveSpans ==
    ASSUME NEW I, IsFiniteSet(DOMAIN I),
           \A r \in DOMAIN I : I[r][1] \in Nat /\ I[r][2] \in Ticks
    PROVE  Spans(Positive(I))
  <1> DEFINE J == Positive(I)
             D == {q \in DOMAIN I : I[q][2] > I[q][1]}
  <1>1. IsFiniteSet(D)
    BY FS_Subset
  <1>2. DOMAIN J = D /\ \A r \in D : J[r] = I[r]
    BY DEF Positive
  <1>3. \A r \in D : I[r][1] \in Nat /\ I[r][2] \in Ticks /\ I[r][1] < I[r][2]
    BY WorkerAssumption DEF Ticks
  <1> HIDE DEF J, D
  <1>4. Spans(J)
    BY <1>1, <1>2, <1>3 DEF Spans
  <1> QED BY <1>4 DEF J

LEMMA RowTimes ==
    ASSUME NEW row \in Rows
    PROVE  /\ row.started \in Nat /\ row.started \in Ticks
           /\ row.completed # Open => row.completed \in Ticks /\ row.completed \in Nat
  BY WorkerAssumption DEF Rows, Ticks

LEMMA PortalSpans ==
    ASSUME NEW rows, Sane(rows), NEW t \in Ticks
    PROVE  Spans(PortalIntervals(rows, t))
  <1> DEFINE e(r) == IF rows[r].completed = Open THEN t ELSE rows[r].completed
             I == [r \in DOMAIN rows |-> <<rows[r].started, e(r)>>]
  <1>1. \A r \in DOMAIN rows : rows[r] \in Rows
    BY DEF Sane
  <1>2. \A r \in DOMAIN rows : rows[r].started \in Nat /\ e(r) \in Ticks
    BY <1>1, RowTimes
  <1>3. IsFiniteSet(DOMAIN rows)
    BY DEF Sane
  <1>4. PortalIntervals(rows, t) = Positive(I)
    BY Zenon DEF PortalIntervals
  <1>5. DOMAIN I = DOMAIN rows /\ \A r \in DOMAIN rows : I[r] = <<rows[r].started, e(r)>>
    OBVIOUS
  <1> HIDE DEF I, e
  <1>6. \A r \in DOMAIN I : I[r][1] \in Nat /\ I[r][2] \in Ticks
    BY <1>2, <1>5
  <1>7. Spans(Positive(I))
    BY <1>3, <1>5, <1>6, PositiveSpans
  <1> QED BY <1>4, <1>7

LEMMA RollupSpans ==
    ASSUME NEW rows, Sane(rows), NEW h \in Hours, NEW t \in Ticks
    PROVE  Spans(RollupIntervals(rows, h, t))
  <1> DEFINE M(r) == {t, OverAt(h)} \cup ({rows[r].completed} \ {Open})
             e(r) == Min(M(r))
             I == [r \in DOMAIN rows |-> <<rows[r].started, e(r)>>]
  <1>1. \A r \in DOMAIN rows : rows[r] \in Rows
    BY DEF Sane
  <1>2. \A r \in DOMAIN rows : rows[r].started \in Nat
    BY <1>1, RowTimes
  <1>3. OverAt(h) \in Nat /\ t \in Nat /\ t <= MaxNow
    BY HourLenAssumption, WorkerAssumption DEF OverAt, Hours, Ticks
  <1>4. ASSUME NEW r \in DOMAIN rows PROVE e(r) \in Ticks
    <2>1. M(r) \in SUBSET Nat /\ t \in M(r)
      BY <1>1, <1>3, RowTimes
    <2> DEFINE S == M(r)
    <2> HIDE DEF S
    <2>2. Min(S) \in S /\ \A y \in S : Min(S) <= y
      BY <2>1, MinOfSet DEF S
    <2>3. Min(S) \in Nat /\ Min(S) <= t
      BY <2>1, <2>2 DEF S
    <2>4. Min(S) \in Ticks
      BY <1>3, <2>3, WorkerAssumption DEF Ticks
    <2> QED BY <2>4 DEF S
  <1>5. IsFiniteSet(DOMAIN rows)
    BY DEF Sane
  <1>6. RollupIntervals(rows, h, t) = Positive(I)
    BY Zenon DEF RollupIntervals
  <1>7. DOMAIN I = DOMAIN rows /\ \A r \in DOMAIN rows : I[r] = <<rows[r].started, e(r)>>
    OBVIOUS
  <1> HIDE DEF I, e
  <1>8. \A r \in DOMAIN I : I[r][1] \in Nat /\ I[r][2] \in Ticks
    BY <1>2, <1>4, <1>7
  <1>9. Spans(Positive(I))
    BY <1>5, <1>7, <1>8, PositiveSpans
  <1> QED BY <1>6, <1>9

LEMMA PeakHolds ==
    ASSUME NEW rows, Sane(rows), now \in Ticks
    PROVE  PeakAgrees(rows)
  <1>1. Spans(PortalIntervals(rows, now))
    BY PortalSpans
  <1> QED BY <1>1, SweepIs DEF peakRequests, PeakAgrees

LEMMA PeaksHold ==
    ASSUME TypeOK, RowsKept, Sane(ledger)
    PROVE  PeakIsLargestOverlap
  <1>1. ASSUME NEW h \in Hours, buckets[h] # Absent
        PROVE  LET intervals == RollupIntervals(buckets[h].rows, h, buckets[h].asOf)
               IN  Columns(h).peak = IF DOMAIN intervals = {} THEN Unknown
                                     ELSE LargestOverlap(intervals)
    <2> DEFINE rows == buckets[h].rows
               t == buckets[h].asOf
               I == RollupIntervals(rows, h, t)
    <2>1. t \in Ticks
      BY <1>1 DEF TypeOK
    <2>2. Sane(rows)
      <3>1. rows \in [DOMAIN rows -> Rows] /\ DOMAIN rows \subseteq DOMAIN ledger
        BY DEF RowsKept, ReadFrom
      <3>2. IsFiniteSet(DOMAIN rows)
        BY <3>1, FS_Subset DEF Sane
      <3> QED BY <3>1, <3>2 DEF Sane
    <2>3. Columns(h).peak = peakConcurrency(rows, h, t)
      BY DEF Columns, Rollup
    <2> HIDE DEF rows, t
    <2>4. Spans(I)
      BY <2>1, <2>2, RollupSpans
    <2>5. peakConcurrency(rows, h, t) = IF DOMAIN I = {} THEN Unknown ELSE Sweep(I)
      BY Zenon DEF peakConcurrency
    <2> HIDE DEF I
    <2>6. Sweep(I) = LargestOverlap(I)
      BY <2>4, SweepIs
    <2> QED BY <2>3, <2>5, <2>6 DEF I, rows, t
  <1> QED BY <1>1, Zenon DEF PeakIsLargestOverlap

----------------------------------------------------------------------------

LEMMA LedgerIsSane ==
    ASSUME TypeOK
    PROVE  Sane(ledger)
  <1>1. ledger \in [DOMAIN ledger -> Rows] /\ DOMAIN ledger \subseteq deployment.traffic
        /\ deployment \in Deployments
    BY DEF TypeOK
  <1>2. DOMAIN ledger \in SUBSET Requests
    BY <1>1, WorkerAssumption DEF DeploymentType
  <1>3. IsFiniteSet(DOMAIN ledger)
    BY <1>2, WorkerAssumption, FS_Subset
  <1> QED BY <1>1, <1>3 DEF Sane

\* The three readers agree in every state, also in those in which the runs leave the
\* comparison out, of every period they are given the rows of: totals and the shares of
\* a breakdown, what is called final, peaks, and the hours of the rollup
\* (ListInferenceRequests, buildPortalUsage, summarise, clientUsage, clientTrend,
\* RefreshUsageRollups).
THEOREM Reports == Spec => [](PagesAgree /\ RollupAgrees)
  <1>1. ASSUME RollupInv PROVE PagesAgree /\ RollupAgrees
    <2>1. Sane(ledger)
      BY <1>1, LedgerIsSane DEF RollupInv
    <2>2. now \in Ticks
      BY <1>1 DEF RollupInv, TypeOK
    <2>3. ASSUME NEW page \in Pages
          PROVE  /\ TotalsAgree(page) /\ PeakAgrees(page)
                 /\ \A to \in PeriodBounds : FinalitiesAgree(page, to)
      <3>1. PICK from, to : page = ListInferenceRequests(ledger, from, to) /\ page # Unavailable
        BY DEF Pages
      <3>2. Sane(page)
        BY <2>1, <3>1, PageOf
      <3> QED BY <2>2, <3>2, TotalsHold, PeakHolds, FinalitiesHold
    <2> QED BY <2>1, <2>3, RollupHolds DEF PagesAgree
  <1> QED BY <1>1, Rollups, PTL

\* The figures that the rollups, the portal and the control API show are those of the
\* ledger's rows: of every period they are given the rows of the three readers agree, a
\* peak is the largest number of requests open at one instant, and a percentile has the
\* rank of its name (RefreshUsageRollups, buildPortalUsage, summarise, clientUsage).
THEOREM Figures == Spec => []FiguresAgree
  <1>1. ASSUME RollupInv, PagesAgree /\ RollupAgrees PROVE FiguresAgree
    <2>1. TypeOK /\ RowsKept
      BY <1>1 DEF RollupInv
    <2>2. PeakIsLargestOverlap
      BY <2>1, LedgerIsSane, PeaksHold
    <2>3. LatencyRanks
      <3>1. \A n \in 1 .. MaxSamples : n \in Nat /\ n > 0
        OBVIOUS
      <3> QED BY <3>1, Ranks, Zenon DEF LatencyRanks
    <2> QED BY <1>1, <2>2, <2>3 DEF FiguresAgree, ReportsAgree
  <1> QED BY <1>1, Rollups, Reports, PTL
=============================================================================
