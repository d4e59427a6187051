-------------------------- MODULE WorkflowSchedule --------------------------
(***************************************************************************)
(* One WorkflowSchedule: the ticks of its CronJob, the trigger Jobs and    *)
(* their pods, the runs they admit, and the workflowschedule controller,   *)
(* which records admissions, makes up for ticks that failed to admit a     *)
(* run, and prunes the history.                                            *)
(*                                                                         *)
(* A tick names its Job, and the Job names its run.  The controller reads  *)
(* Jobs, runs and the schedule from three informer caches; each one        *)
(* follows its own watch, in order and late.  The pods and the gateway     *)
(* use the API server directly.  How a run executes is WorkflowRuns'       *)
(* subject; here it only moves through its phases.                         *)
(***************************************************************************)
EXTENDS Integers, Sequences, FiniteSets

CONSTANTS
    MaxTicks,      \* ticks of the CronJob
    Manual,        \* names of the runs people start from the schedule
    Limit,         \* successfulRunsHistoryLimit and failedRunsHistoryLimit
    BackoffLimit,  \* pods of a Job that may fail before it does
    PromptJobs,    \* the controller sees a Job before the Job's pod runs
    Removals,      \* people delete runs
    MaxFaults      \* pods that crash, reconciliations that fail, restarts

Ticks == 1 .. MaxTicks
Names == Ticks \cup Manual

ASSUME ConstantsAssumption ==
    /\ {MaxTicks, Limit, BackoffLimit, MaxFaults} \subseteq Nat
    /\ IsFiniteSet(Manual)
    /\ Manual \cap (Ticks \cup {0}) = {}
    /\ PromptJobs \in BOOLEAN /\ Removals \in BOOLEAN

VARIABLES
    jobs,        \* the Jobs of the CronJob
    pods,        \* what a Job's pod does next: "none", "create" or "wait"
    attempts,    \* pods of a Job that failed
    runs,        \* the WorkflowRuns the schedule owns
    clock,       \* runs created so far: the next creation timestamp and UID
    status,      \* the schedule's LastRunName, 0 for none
    cache,       \* the controller's caches: [jobs, runs, status]
    watch,       \* events on their way to them: [jobs, runs, status]
    queued,      \* the schedule's key is in the work queue
    ctl,         \* the reconciliation in progress
    created,     \* runs created under a name
    removed,     \* names whose run people deleted
    faults

cluster == <<jobs, pods, attempts>>
history == <<created, removed>>
vars == <<jobs, pods, attempts, runs, clock, status, cache, watch, queued, ctl,
          created, removed, faults>>

-----------------------------------------------------------------------------
(* Objects *)

JobPhases == {"none", "active", "complete", "failed"}
Jobs == [phase : JobPhases, admitted : Nat]
NoJob == [phase |-> "none", admitted |-> 0]
Finished(j) == j.phase \in {"complete", "failed"}

\* Active stands for the phases before the end; failure: the annotation that
\* tells the run's controller to fail it with the trigger's message.
Ends == {"Succeeded", "Failed", "Unacked"}
Phases == {"none", "Active"} \cup Ends
Runs == [phase : Phases, born : Nat, failure : BOOLEAN]
NoRun == [phase |-> "none", born |-> 0, failure |-> FALSE]
Exists(r) == r.phase # "none"

\* A write that changes nothing is no event.
SetJob(t, j) ==
    /\ jobs' = [jobs EXCEPT ![t] = j]
    /\ watch' = [watch EXCEPT !.jobs = IF j = jobs[t] THEN @ ELSE Append(@, [name |-> t, object |-> j])]

SetRun(n, r) ==
    /\ runs' = [runs EXCEPT ![n] = r]
    /\ watch' = [watch EXCEPT !.runs = IF r = runs[n] THEN @ ELSE Append(@, [name |-> n, object |-> r])]

\* ScheduledRun, created under the name n, which must be free.
Create(n, failure) ==
    /\ SetRun(n, [phase |-> "Active", born |-> clock + 1, failure |-> failure])
    /\ clock' = clock + 1
    /\ created' = [created EXCEPT ![n] = @ + 1]

-----------------------------------------------------------------------------
(* The CronJob, its Jobs and their pods *)

\* The next tick; ConcurrencyPolicy is Forbid.
Tick(t) ==
    /\ jobs[t] = NoJob /\ pods[t] = "none" /\ attempts[t] = 0
    /\ \A u \in 1 .. t - 1 : attempts[u] > 0
    /\ \A u \in Ticks : jobs[u].phase # "active"
    /\ SetJob(t, [phase |-> "active", admitted |-> 0])
    /\ pods' = [pods EXCEPT ![t] = "create"]
    /\ attempts' = [attempts EXCEPT ![t] = 1]
    /\ UNCHANGED <<runs, clock, status, cache, queued, ctl, history, faults>>

\* RunSchedule: the run is admitted, or was admitted by an earlier pod.
RunSchedule(t) ==
    /\ pods[t] = "create"
    /\ PromptJobs => Exists(cache.jobs[t]) /\ (ctl.pc \in {"idle", "prune"} \/ Exists(ctl.listed[t]))
    /\ pods' = [pods EXCEPT ![t] = "wait"]
    /\ IF Exists(runs[t]) THEN UNCHANGED <<runs, watch, clock, created>> ELSE Create(t, FALSE)
    /\ UNCHANGED <<jobs, attempts, status, cache, queued, ctl, removed, faults>>

\* waitForRun sees the run's end, and the Job completes.
WaitForRun(t) ==
    /\ pods[t] = "wait"
    /\ runs[t].phase \in Ends
    /\ SetJob(t, [jobs[t] EXCEPT !.phase = "complete"])
    /\ pods' = [pods EXCEPT ![t] = "none"]
    /\ UNCHANGED <<attempts, runs, clock, status, cache, queued, ctl, history, faults>>

\* Mutant: one pod more than the limit allows.
PodFailsOnce(t) ==
    /\ pods[t] # "none"
    /\ faults < MaxFaults
    /\ faults' = faults + 1
    /\ IF attempts[t] <= BackoffLimit + 1
       THEN /\ pods' = [pods EXCEPT ![t] = "create"]
            /\ attempts' = [attempts EXCEPT ![t] = @ + 1]
            /\ UNCHANGED <<jobs, watch>>
       ELSE /\ SetJob(t, [jobs[t] EXCEPT !.phase = "failed"])
            /\ pods' = [pods EXCEPT ![t] = "none"]
            /\ UNCHANGED attempts
    /\ UNCHANGED <<runs, clock, status, cache, queued, ctl, history>>

\* A pod fails; the Job starts another one, or fails with it.
PodFails(t) ==
    /\ pods[t] # "none"
    /\ faults < MaxFaults
    /\ faults' = faults + 1
    /\ IF attempts[t] <= BackoffLimit
       THEN /\ pods' = [pods EXCEPT ![t] = "create"]
            /\ attempts' = [attempts EXCEPT ![t] = @ + 1]
            /\ UNCHANGED <<jobs, watch>>
       ELSE /\ SetJob(t, [jobs[t] EXCEPT !.phase = "failed"])
            /\ pods' = [pods EXCEPT ![t] = "none"]
            /\ UNCHANGED attempts
    /\ UNCHANGED <<runs, clock, status, cache, queued, ctl, history>>

\* ActiveDeadlineSeconds are over.
Deadline(t) ==
    /\ pods[t] # "none"
    /\ SetJob(t, [jobs[t] EXCEPT !.phase = "failed"])
    /\ pods' = [pods EXCEPT ![t] = "none"]
    /\ UNCHANGED <<attempts, runs, clock, status, cache, queued, ctl, history, faults>>

\* The CronJob keeps one complete and one failed Job.
CleanJob(t) ==
    /\ Finished(jobs[t])
    /\ \E u \in t + 1 .. MaxTicks : jobs[u].phase = jobs[t].phase
    /\ SetJob(t, NoJob)
    /\ UNCHANGED <<pods, attempts, runs, clock, status, cache, queued, ctl, history, faults>>

-----------------------------------------------------------------------------
(* Runs *)

\* CreateScheduledRun: a person starts the schedule's workflow.
CreateScheduledRun(n) ==
    /\ n \in Manual /\ created[n] = 0
    /\ Create(n, FALSE)
    /\ UNCHANGED <<cluster, status, cache, queued, ctl, removed, faults>>

\* A run that records a failed trigger can only fail.
End(n, phase) ==
    /\ runs[n].phase = "Active"
    /\ runs[n].failure => phase = "Failed"
    /\ SetRun(n, [runs[n] EXCEPT !.phase = phase])
    /\ UNCHANGED <<cluster, clock, status, cache, queued, ctl, history, faults>>

Remove(n) ==
    /\ Removals
    /\ Exists(runs[n])
    /\ SetRun(n, NoRun)
    /\ removed' = removed \cup {n}
    /\ UNCHANGED <<cluster, clock, status, cache, queued, ctl, created, faults>>

-----------------------------------------------------------------------------
(* Watches *)

\* Mutant: Jobs are not watched, only what the schedule owns.
UnwatchedJob ==
    /\ watch.jobs # <<>>
    /\ LET event == Head(watch.jobs)
       IN  cache' = [cache EXCEPT !.jobs[event.name] = event.object]
    /\ watch' = [watch EXCEPT !.jobs = Tail(@)]
    /\ UNCHANGED <<cluster, runs, clock, status, queued, ctl, history, faults>>

DeliverJob ==
    /\ watch.jobs # <<>>
    /\ LET event == Head(watch.jobs)
       IN  cache' = [cache EXCEPT !.jobs[event.name] = event.object]
    /\ watch' = [watch EXCEPT !.jobs = Tail(@)]
    /\ queued' = TRUE
    /\ UNCHANGED <<cluster, runs, clock, status, ctl, history, faults>>

DeliverRun ==
    /\ watch.runs # <<>>
    /\ LET event == Head(watch.runs)
       IN  cache' = [cache EXCEPT !.runs[event.name] = event.object]
    /\ watch' = [watch EXCEPT !.runs = Tail(@)]
    /\ queued' = TRUE
    /\ UNCHANGED <<cluster, runs, clock, status, ctl, history, faults>>

DeliverSchedule ==
    /\ watch.status # <<>>
    /\ cache' = [cache EXCEPT !.status = Head(watch.status)]
    /\ watch' = [watch EXCEPT !.status = Tail(@)]
    /\ queued' = TRUE
    /\ UNCHANGED <<cluster, runs, clock, status, ctl, history, faults>>

-----------------------------------------------------------------------------
(* Reconcile *)

\* listed: the Jobs as listed; todo: the ones not visited yet; active: the
\* unfinished ones; job: the one at hand; uid: its run's; doomed: runs to
\* delete.
Rest == [pc |-> "idle", listed |-> [t \in Ticks |-> NoJob], todo |-> {}, active |-> {},
         job |-> 0, uid |-> 0, doomed |-> {}]

Retry == ctl' = Rest /\ queued' = TRUE

Reconcile ==
    /\ ctl.pc = "idle" /\ queued
    /\ ctl' = [Rest EXCEPT !.pc = "jobs", !.listed = cache.jobs,
                           !.todo = {t \in Ticks : Exists(cache.jobs[t])}]
    /\ queued' = FALSE
    /\ UNCHANGED <<cluster, runs, clock, status, cache, watch, history, faults>>

\* One Job of the list: its admission is recorded already, or is to be, or it
\* failed without a run.
ReconcileTrigger(t) ==
    /\ ctl.pc = "jobs" /\ t \in ctl.todo
    /\ LET job == ctl.listed[t]
           run == cache.runs[t]
           visited == [ctl EXCEPT !.todo = @ \ {t}, !.active = IF Finished(job) THEN @ ELSE @ \cup {t}]
       IN  ctl' = IF job.admitted = 0 /\ Exists(run)
                  THEN [visited EXCEPT !.pc = "annotate", !.job = t, !.uid = run.born]
                  ELSE IF job.admitted = 0 /\ job.phase = "failed"
                  THEN [visited EXCEPT !.pc = "verify", !.job = t]
                  ELSE visited
    /\ UNCHANGED <<cluster, runs, clock, status, cache, watch, queued, history, faults>>

\* Mutant: the cached Job is trusted.
Trusted == TRUE

\* A patch with the cached resource version lands on that version only.
Current == jobs[ctl.job] = ctl.listed[ctl.job]

VerifyJob ==
    /\ ctl.pc = "verify"
    /\ IF Current THEN ctl' = [ctl EXCEPT !.pc = "create"] /\ UNCHANGED queued ELSE Retry
    /\ UNCHANGED <<cluster, runs, clock, status, cache, watch, history, faults>>

RecoverTick ==
    /\ ctl.pc = "create"
    /\ IF Exists(runs[ctl.job])
       THEN Retry /\ UNCHANGED <<runs, watch, clock, created>>
       ELSE Create(ctl.job, TRUE) /\ ctl' = [ctl EXCEPT !.pc = "annotate", !.uid = clock + 1]
            /\ UNCHANGED queued
    /\ UNCHANGED <<cluster, status, cache, removed, faults>>

AnnotateJob ==
    /\ ctl.pc = "annotate"
    /\ IF Current
       THEN /\ SetJob(ctl.job, [jobs[ctl.job] EXCEPT !.admitted = ctl.uid])
            /\ ctl' = [ctl EXCEPT !.pc = "jobs", !.job = 0, !.uid = 0]
            /\ UNCHANGED queued
       ELSE Retry /\ UNCHANGED <<jobs, watch>>
    /\ UNCHANGED <<pods, attempts, runs, clock, status, cache, history, faults>>

\* Mutant: a run is pruned though its Job may still start another pod.
PrunableAll(phase) == {n \in Names : cache.runs[n].phase = phase}

Prunable(phase) == {n \in Names \ ctl.active : cache.runs[n].phase = phase}

\* deleteRunsAfterLimit: all but the newest Limit.
Excess(S) ==
    {n \in S : Cardinality({m \in S : cache.runs[m].born > cache.runs[n].born}) >= Limit}

PruneRuns ==
    /\ ctl.pc = "jobs" /\ ctl.todo = {}
    /\ ctl' = [Rest EXCEPT !.pc = "prune",
                           !.doomed = Excess(Prunable("Succeeded")) \cup Excess(Prunable("Failed"))]
    /\ UNCHANGED <<cluster, runs, clock, status, cache, watch, queued, history, faults>>

DeleteRun(n) ==
    /\ ctl.pc = "prune" /\ n \in ctl.doomed
    /\ SetRun(n, NoRun)
    /\ ctl' = [ctl EXCEPT !.doomed = @ \ {n}]
    /\ UNCHANGED <<cluster, clock, status, cache, queued, history, faults>>

LastRun ==
    LET live == {n \in Names : Exists(cache.runs[n])}
    IN  IF live = {} THEN 0
        ELSE CHOOSE n \in live : \A m \in live : cache.runs[m].born <= cache.runs[n].born

\* refreshStatus and updateStatus: a patch of what the cached status lacks.
RefreshStatus ==
    /\ ctl.pc = "prune" /\ ctl.doomed = {}
    /\ status' = IF cache.status = LastRun THEN status ELSE LastRun
    /\ watch' = [watch EXCEPT !.status = IF status' = status THEN @ ELSE Append(@, status')]
    /\ ctl' = Rest
    /\ UNCHANGED <<cluster, runs, clock, cache, queued, history, faults>>

\* A call fails, before or after its effect: the key is queued again.
ReconcileFails ==
    /\ ctl.pc # "idle"
    /\ faults < MaxFaults
    /\ faults' = faults + 1
    /\ Retry
    /\ UNCHANGED <<cluster, runs, clock, status, cache, watch, history>>

\* The manager restarts and lists everything anew.
Restart ==
    /\ faults < MaxFaults
    /\ faults' = faults + 1
    /\ cache' = [jobs |-> jobs, runs |-> runs, status |-> status]
    /\ watch' = [jobs |-> <<>>, runs |-> <<>>, status |-> <<>>]
    /\ Retry
    /\ UNCHANGED <<cluster, runs, clock, status, history>>

-----------------------------------------------------------------------------

Init ==
    /\ jobs = [t \in Ticks |-> NoJob]
    /\ pods = [t \in Ticks |-> "none"]
    /\ attempts = [t \in Ticks |-> 0]
    /\ runs = [n \in Names |-> NoRun]
    /\ clock = 0
    /\ status = 0
    /\ cache = [jobs |-> jobs, runs |-> runs, status |-> status]
    /\ watch = [jobs |-> <<>>, runs |-> <<>>, status |-> <<>>]
    /\ queued = TRUE
    /\ ctl = Rest
    /\ created = [n \in Names |-> 0]
    /\ removed = {}
    /\ faults = 0

Pod == \E t \in Ticks : RunSchedule(t) \/ WaitForRun(t)
Cluster == \E t \in Ticks : Tick(t) \/ PodFails(t) \/ Deadline(t) \/ CleanJob(t)
RunSteps == \E n \in Names, phase \in Ends : End(n, phase)
People == \E n \in Names : CreateScheduledRun(n) \/ Remove(n)
Watches == DeliverJob \/ DeliverRun \/ DeliverSchedule

Controller ==
    \/ Reconcile \/ VerifyJob \/ RecoverTick \/ AnnotateJob \/ PruneRuns \/ RefreshStatus
    \/ \E t \in Ticks : ReconcileTrigger(t)
    \/ \E n \in Names : DeleteRun(n)

Next == Pod \/ Cluster \/ RunSteps \/ People \/ Watches \/ Controller \/ ReconcileFails \/ Restart

Spec == Init /\ [][Next]_vars

\* Watches deliver, the work queue is served, and a Job reaches its deadline.
Fairness ==
    /\ WF_vars(Controller)
    /\ WF_vars(DeliverJob) /\ WF_vars(DeliverRun) /\ WF_vars(DeliverSchedule)
    /\ \A n \in Names : WF_vars(\E phase \in Ends : End(n, phase))
    /\ \A t \in Ticks : WF_vars(Deadline(t))

FairSpec == Spec /\ Fairness

-----------------------------------------------------------------------------
(* Properties *)

\* The variables are well formed.
TypeOK ==
    /\ jobs \in [Ticks -> Jobs]
    /\ pods \in [Ticks -> {"none", "create", "wait"}]
    /\ attempts \in [Ticks -> 0 .. BackoffLimit + 1]
    /\ runs \in [Names -> Runs]
    /\ clock \in Nat
    /\ status \in Names \cup {0}
    /\ cache \in [jobs : [Ticks -> Jobs], runs : [Names -> Runs], status : Names \cup {0}]
    /\ watch \in [jobs : Seq([name : Ticks, object : Jobs]), runs : Seq([name : Names, object : Runs]),
                  status : Seq(Names \cup {0})]
    /\ queued \in BOOLEAN
    /\ ctl \in [pc : {"idle", "jobs", "verify", "create", "annotate", "prune"},
                listed : [Ticks -> Jobs], todo : SUBSET Ticks, active : SUBSET Ticks,
                job : Ticks \cup {0}, uid : Nat, doomed : SUBSET Names]
    /\ created \in [Names -> Nat]
    /\ removed \subseteq Names
    /\ faults \in 0 .. MaxFaults

\* A tick has one run in its life, though pods are retried, caches lag behind
\* each other, and the run may be pruned before the controller looks again; a
\* second one needs a person who deleted the first.
OneRunPerTick == \A t \in Ticks \ removed : created[t] <= 1

\* The record of a failed trigger is made only for a tick that admitted no
\* run: "a stale cached Job must not recover a run already admitted and
\* pruned".
RecoversTruthfully ==
    \A t \in Ticks \ removed : runs[t].failure => created[t] = 1

\* Only a run older than Limit others that ended the same way is pruned, and
\* never one that a pod still waits for, or may ask for again, however old the
\* lists it is decided on.
PrunesOldest ==
    [][\A n \in Names :
        Exists(runs[n]) /\ ~Exists(runs'[n]) /\ removed' = removed =>
            /\ n \in Ticks \ removed => jobs[n].phase # "active"
            /\ removed = {} =>
                  /\ runs[n].phase \in {"Succeeded", "Failed"}
                  /\ Cardinality({m \in Names : /\ runs[m].phase = runs[n].phase
                                                /\ runs[m].born > runs[n].born}) >= Limit]_vars

\* A tick whose Job failed without admitting a run gets a record of it, unless
\* the CronJob discards the Job first.
FailureRecorded ==
    \A t \in Ticks : jobs[t].phase = "failed" /\ created[t] = 0 ~> created[t] > 0 \/ jobs[t] = NoJob

Ended(phase) == {n \in Names : runs[n].phase = phase}

\* In the end the history is within its limits, but for runs of unfinished Jobs.
HistoryBounded ==
    <>[](/\ Cardinality(Ended("Succeeded")) <= Limit
         /\ Cardinality(Ended("Failed")) <= Limit)

Newest ==
    LET live == {n \in Names : Exists(runs[n])}
    IN  IF live = {} THEN 0 ELSE CHOOSE n \in live : \A m \in live : runs[m].born <= runs[n].born

\* In the end the schedule reports its newest run.
StatusSettles == <>[](status = Newest)

\* What the controller reads late it makes good in the end.
ScheduleSettles == FailureRecorded /\ HistoryBounded /\ StatusSettles
=============================================================================
