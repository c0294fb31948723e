----------------------------- MODULE UsageWorker -----------------------------
(***************************************************************************)
(* The background worker (worker/worker.go, store/postgres/worker.go): it  *)
(* rewrites the hourly rollups of the last hours from the request ledger,  *)
(* marks its progress in a checkpoint and probes the target, while the     *)
(* gateway keeps writing the ledger.                                       *)
(*                                                                         *)
(* One environment, one target.  Several worker processes may run: an      *)
(* advisory lock of the database admits one rollup at a time, and is       *)
(* released with the connection of a process that dies.  The run of        *)
(* process w is known by the tick it read at its start, run[w].            *)
(***************************************************************************)
EXTENDS UsageReports

CONSTANTS
    Requests,        \* logical requests
    ActorOf,         \* the actor of each: a service account, or Person
    ModelOf,         \* the model alias of each
    AmountOf,        \* the tokens the provider counts for each side of it
    Workers,         \* worker processes
    Lookback,        \* RollupLookback in ticks
    FreshFor,        \* five minutes, the age up to which a checkpoint is fresh
    ProbeInterval,   \* for how long an observation of a target is fresh
    MaxNow,          \* bound: the last tick of the longest behaviour
    MaxDelay,        \* bound: ticks between the stamp of a row and its commit
    Endings,         \* the <<status, usage>> with which requests end
    Deployments,     \* what is run: see DeploymentType
    NoWorker

\* The processes that run, whether probes are enabled, the requests that
\* clients make, and (bounds) how many failures and crashes there are and
\* until which tick it is watched.
DeploymentType == [workers : SUBSET Workers, probing : BOOLEAN,
                   traffic : SUBSET Requests, faults : Nat, until : 0 .. MaxNow]

UsageStates == {"unknown", "partial", "final"}

ASSUME WorkerAssumption ==
    /\ Lookback \in Nat /\ Lookback >= HourLen
    /\ Endings \subseteq Outcomes \X UsageStates
    /\ \A e \in Endings : e[1] # "succeeded" => e[2] = "unknown"
    /\ {MaxNow, MaxDelay, FreshFor, ProbeInterval} \subseteq Nat
    /\ Deployments \subseteq DeploymentType
    /\ IsFiniteSet(Requests) /\ NoWorker \notin Workers
    /\ \A r \in Requests : AmountOf[r] \in Nat
    /\ Unknown \notin Int /\ Open \notin Int

VARIABLES
    now,          \* the clock
    ledger,       \* inference_requests: the committed rows
    deployment,   \* what is run
    wpc, run,     \* the step of each process, and the clock it read
    lock,         \* the holder of the advisory lock
    snap,         \* the rows each process has read
    checkpoint,   \* worker_checkpoints
    buckets,      \* usage_rollups_hourly_v2: what each row of it aggregates
    lastRead,     \* history: what the last committed run could see
    health,       \* inference_targets.health_status
    observations, \* target_health_observations, in the order of their commits
    faults        \* how many more failures this behaviour may have

ledgerVars == <<now, ledger, deployment>>
rollupVars == <<lock, snap, checkpoint, buckets, lastRead>>
probeVars  == <<health, observations>>
vars == <<ledgerVars, wpc, run, rollupVars, probeVars, faults>>

Hours == 0 .. Hour(MaxNow)
Ticks == 0 .. MaxNow

Rows == [started : Ticks, completed : Ticks \cup {Open}, status : Statuses,
         usage : UsageStates,
         actor : {ActorOf[r] : r \in Requests}, model : {ModelOf[r] : r \in Requests},
         amount : {AmountOf[r] : r \in Requests}]
HealthStatuses == {"unknown", "operational", "degraded", "unavailable"}
CheckpointStates == {"unavailable", "running", "succeeded", "failed"}

\* The hour has no row in the rollups.
Absent == [rows |-> <<>>, asOf |-> Unknown]

\* Every variable keeps its type; a process past its claim holds the lock.
TypeOK ==
    /\ now \in Ticks
    /\ deployment \in Deployments
    /\ DOMAIN ledger \subseteq deployment.traffic
    /\ ledger \in [DOMAIN ledger -> Rows]
    /\ wpc \in [Workers -> {"down", "idle", "due", "due_first", "rolling", "listing", "probing"}]
    /\ run \in [Workers -> Ticks]
    /\ lock \in Workers \cup {NoWorker}
    /\ \A w \in Workers : wpc[w] = "rolling" <=> lock = w
    /\ checkpoint \in [status : CheckpointStates, started : Ticks \cup {Unknown},
                       completed : Ticks \cup {Unknown}, sourceRows : Nat \cup {Unknown}]
    /\ \A h \in Hours : buckets[h] # Absent =>
          buckets[h].asOf \in Ticks /\ DOMAIN buckets[h].rows \in (SUBSET Requests) \ {{}}
    /\ DOMAIN snap = Workers
    /\ health \in HealthStatuses
    /\ observations \in Seq([at : Ticks, status : HealthStatuses])
    /\ faults \in 0 .. deployment.faults

Init ==
    /\ now = 0
    /\ ledger = <<>>
    /\ deployment \in Deployments
    /\ wpc = [w \in Workers |-> "down"]
    /\ run = [w \in Workers |-> 0]
    /\ lock = NoWorker
    /\ snap = [w \in Workers |-> <<>>]
    /\ checkpoint = [status |-> "unavailable", started |-> Unknown, completed |-> Unknown,
                     sourceRows |-> Unknown]
    /\ buckets = [h \in Hours |-> Absent]
    /\ lastRead = {}
    /\ health = "unknown"
    /\ observations = <<>>
    /\ faults = deployment.faults

----------------------------------------------------------------------------
(* The gateway and the clock.                                              *)

Tick ==
    /\ now < deployment.until
    /\ now' = now + 1
    /\ UNCHANGED <<ledger, deployment, wpc, run, rollupVars, probeVars, faults>>

\* The gateway stamps a request with its clock before it inserts the row.
CreateInferenceRequest(r) ==
    /\ r \in deployment.traffic \ DOMAIN ledger
    /\ \E started \in Max({0, now - MaxDelay}) .. now :
          ledger' = [q \in DOMAIN ledger \cup {r} |->
                        IF q = r
                        THEN [started |-> started, completed |-> Open,
                              status |-> "in_progress", usage |-> "unknown",
                              actor |-> ActorOf[r], model |-> ModelOf[r],
                              amount |-> AmountOf[r]]
                        ELSE ledger[q]]
    /\ UNCHANGED <<now, deployment, wpc, run, rollupVars, probeVars, faults>>

\* A request ends once; only a request that succeeds has usage.
CompleteInferenceRequest(r) ==
    /\ r \in DOMAIN ledger /\ ledger[r].status = "in_progress"
    /\ \E e \in Endings :
          ledger' = [ledger EXCEPT ![r].status = e[1], ![r].completed = now, ![r].usage = e[2]]
    /\ UNCHANGED <<now, deployment, wpc, run, rollupVars, probeVars, faults>>

----------------------------------------------------------------------------
(* One refresh of the rollups.                                             *)

\* The first hour that a run at t rewrites, and the tick it begins with.
From(t) == Hour(Max({0, t - Lookback})) * HourLen

\* The hours whose buckets it deletes: the hour that is under way included.
Rewritten(t) == Hour(From(t)) .. Hour(t + HourLen - 1) - 1

\* The rows a run reads: of the range, and of service accounts.
InRange(rows, t) ==
    [r \in {q \in DOMAIN rows : /\ From(t) <= rows[q].started /\ rows[q].started < t
                                /\ rows[q].actor # Person} |-> rows[r]]

\* RunOnce is left, and what it held with it.
Return(w, to) ==
    /\ wpc' = [wpc EXCEPT ![w] = to]
    /\ run' = [run EXCEPT ![w] = 0]

\* RunOnce reads the clock before it does anything else.  A process runs it
\* when it starts (a container whose process ended is started again) and at
\* every tick of its ticker.
Wake(w) ==
    /\ w \in deployment.workers /\ wpc[w] \in {"down", "idle"}
    /\ now > 0
    /\ run' = [run EXCEPT ![w] = now]
    /\ wpc' = [wpc EXCEPT ![w] = IF @ = "down" THEN "due_first" ELSE "due"]
    /\ UNCHANGED <<ledgerVars, rollupVars, probeVars, faults>>

LockFree == lock = NoWorker

\* Mutant: the schema takes any start.
AnyStart(w) == TRUE

\* The table admits no start before the last completion (its CHECK).
NotOutrun(w) == checkpoint.completed # Unknown => checkpoint.completed <= run[w]

\* The lock; the checkpoint, outside of the transaction that follows; and the
\* first statement of that transaction, which fixes what all of them see
\* (REPEATABLE READ).  What the gateway commits between the last two could as
\* well have come before both.
BeginRefresh(w) ==
    /\ wpc[w] \in {"due", "due_first"} /\ LockFree /\ NotOutrun(w)
    /\ lock' = w
    /\ checkpoint' = [checkpoint EXCEPT !.status = "running", !.started = run[w],
                                        !.sourceRows = 0]
    /\ snap' = [snap EXCEPT ![w] = ledger]
    /\ wpc' = [wpc EXCEPT ![w] = "rolling"]
    /\ UNCHANGED <<ledgerVars, run, buckets, lastRead, probeVars, faults>>

\* A run that a later one has outrun cannot mark its start: the error ends the
\* process, before anything was to be marked failed, and frees the lock.
Refused(w) ==
    /\ wpc[w] \in {"due", "due_first"} /\ LockFree /\ ~NotOutrun(w)
    /\ Return(w, "down")
    /\ UNCHANGED <<ledgerVars, rollupVars, probeVars, faults>>

\* ErrConflict ends a process on its first run and is ignored on later ones.
Conflict(w) ==
    /\ wpc[w] \in {"due", "due_first"} /\ ~LockFree
    /\ Return(w, IF wpc[w] = "due_first" THEN "down" ELSE "idle")
    /\ UNCHANGED <<ledgerVars, rollupVars, probeVars, faults>>

SourceRows(w) == Cardinality(DOMAIN InRange(snap[w], run[w]))

\* What a run at t inserts for hour h: no row, or one that aggregates `rows`
\* with t for its last_source_at.
Bucket(rows, t) == IF DOMAIN rows = {} THEN Absent ELSE [rows |-> rows, asOf |-> t]

\* Mutant: only the hours that are over are rewritten.
RewriteOver(w) ==
    buckets' = [h \in Hours |->
                   IF h \notin Rewritten(run[w]) \/ OverAt(h) > run[w] THEN buckets[h]
                   ELSE Bucket(OfHour(InRange(snap[w], run[w]), h), run[w])]

\* Delete the buckets of the range and insert one for every hour with rows.
Rewrite(w) ==
    buckets' = [h \in Hours |->
                   IF h \notin Rewritten(run[w]) THEN buckets[h]
                   ELSE Bucket(OfHour(InRange(snap[w], run[w]), h), run[w])]

\* The columns of the row of hour h.
Columns(h) == Rollup(buckets[h].rows, h, buckets[h].asOf)

\* The rewrite and the checkpoint commit together; then the lock is released.
Commit(w) ==
    /\ wpc[w] = "rolling"
    /\ lock' = NoWorker
    /\ Rewrite(w)
    /\ checkpoint' = [status |-> "succeeded", started |-> run[w], completed |-> run[w],
                      sourceRows |-> SourceRows(w)]
    /\ lastRead' = DOMAIN snap[w]
    /\ snap' = [snap EXCEPT ![w] = <<>>]
    /\ IF deployment.probing
       THEN wpc' = [wpc EXCEPT ![w] = "listing"] /\ UNCHANGED run
       ELSE Return(w, "idle")
    /\ UNCHANGED <<ledgerVars, probeVars, faults>>

\* markRollupFailed: only the mark of this very run.
FailedCheckpoint(w) ==
    IF checkpoint.status = "running" /\ checkpoint.started = run[w]
    THEN [checkpoint EXCEPT !.status = "failed"] ELSE checkpoint

\* Any other error ends the process: the transaction is rolled back, the
\* checkpoint marked (when the database can be reached) and the lock released.
Fail(w) ==
    /\ wpc[w] \in {"due", "due_first", "rolling", "listing", "probing"}
    /\ faults > 0
    /\ faults' = faults - 1
    /\ checkpoint' = IF wpc[w] = "rolling" THEN FailedCheckpoint(w) ELSE checkpoint
    /\ lock' = IF lock = w THEN NoWorker ELSE lock
    /\ snap' = [snap EXCEPT ![w] = <<>>]
    /\ Return(w, "down")
    /\ UNCHANGED <<ledgerVars, buckets, lastRead, probeVars>>

\* The process dies: its checkpoint stays as it is.
Crash(w) ==
    /\ wpc[w] # "down"
    /\ faults > 0
    /\ faults' = faults - 1
    /\ lock' = IF lock = w THEN NoWorker ELSE lock
    /\ snap' = [snap EXCEPT ![w] = <<>>]
    /\ Return(w, "down")
    /\ UNCHANGED <<ledgerVars, checkpoint, buckets, lastRead, probeVars>>

----------------------------------------------------------------------------
(* Probes.                                                                 *)

\* A target is listed unless an observation of it is fresh at the tick the
\* run read.
ListProbeTargets(w) ==
    /\ wpc[w] = "listing"
    /\ IF \E i \in DOMAIN observations : observations[i].at + ProbeInterval > run[w]
       THEN Return(w, "idle")
       ELSE wpc' = [wpc EXCEPT ![w] = "probing"] /\ UNCHANGED run
    /\ UNCHANGED <<ledgerVars, rollupVars, probeVars, faults>>

\* What the target may answer, and the status that a probe makes of it.
Answers == {"no_credential", "invalid_endpoint", "timeout", "transport", "unreadable",
            "rejected", "server_error", "incompatible", "compatible"}
ProbeStatus(answer) ==
    CASE answer = "no_credential" -> "unknown"
      [] answer \in {"timeout", "transport", "server_error"} -> "unavailable"
      [] answer = "compatible" -> "operational"
      [] OTHER -> "degraded"

\* Mutant: a probe that succeeds leaves the registry as it is.
HealthAfterFailure(status) == IF status = "operational" THEN health ELSE status

HealthAfter(status) == status

\* The observation carries the tick at which the run began, not the one at
\* which the target answered.
Probe(w) ==
    /\ wpc[w] = "probing"
    /\ \E answer \in Answers :
          /\ observations' = Append(observations,
                                    [at |-> run[w], status |-> ProbeStatus(answer)])
          /\ health' = HealthAfter(ProbeStatus(answer))
    /\ Return(w, "idle")
    /\ UNCHANGED <<ledgerVars, rollupVars, faults>>

\* The gateway writes the health of a target when a request on it ends.
UpdateTargetHealth ==
    /\ deployment.probing
    /\ health' \in {"operational", "degraded"} \ {health}
    /\ UNCHANGED <<ledgerVars, wpc, run, rollupVars, observations, faults>>

----------------------------------------------------------------------------
(* What the portal shows of it.                                            *)

\* rangeFullyRepresented of the hours h1 .. h2.
RangeFullyRepresented(h1, h2) ==
    /\ checkpoint.status = "succeeded"
    /\ From(checkpoint.started) <= h1 * HourLen
    /\ checkpoint.started >= OverAt(h2)
    /\ checkpoint.completed > now - FreshFor

\* ListPortalObservations of an enabled route: the states it may show, since
\* observations of the same tick come in any order.
ShownStates ==
    LET newest == {i \in DOMAIN observations :
                      \A j \in DOMAIN observations : observations[j].at <= observations[i].at}
    IN  IF newest = {} THEN {"unknown"}
        ELSE {IF observations[i].at + ProbeInterval > now THEN observations[i].status
              ELSE "unknown" : i \in newest}

----------------------------------------------------------------------------

Next ==
    \/ Tick
    \/ \E r \in Requests : CreateInferenceRequest(r) \/ CompleteInferenceRequest(r)
    \/ \E w \in Workers : \/ Wake(w) \/ BeginRefresh(w) \/ Refused(w) \/ Conflict(w)
                          \/ Commit(w) \/ Fail(w) \/ Crash(w)
                          \/ ListProbeTargets(w) \/ Probe(w)
    \/ UpdateTargetHealth

Spec == Init /\ [][Next]_vars

\* Time passes; a process that ended is restarted, its ticker fires, and what
\* it does comes to an end (every statement has a context or a timeout).
Fairness ==
    /\ WF_vars(Tick)
    /\ \A w \in Workers :
          WF_vars(\/ Wake(w) \/ BeginRefresh(w) \/ Refused(w) \/ Conflict(w)
                  \/ Commit(w) \/ ListProbeTargets(w) \/ Probe(w))

FairSpec == Spec /\ Fairness
=============================================================================
