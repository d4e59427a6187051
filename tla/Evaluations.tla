---------------------------- MODULE Evaluations ----------------------------
(***************************************************************************)
(* One workflow evaluation: the same workflow is run once for each of      *)
(* several models, every finished run is judged by a model in a session of *)
(* its own, and the results are kept in one row.  Goroutines of all        *)
(* gateway replicas claim the row by a lease and advance it: Workers run   *)
(* and judge, Cleaners delete.                                             *)
(***************************************************************************)
EXTENDS Integers, FiniteSets

CONSTANTS
    Workers,         \* runEvaluations(ctx, false) of the replicas
    Cleaners,        \* runEvaluations(ctx, true) of the replicas
    None,            \* the empty lease token
    N,               \* number of models, and so of executions
    Concurrencies,   \* values of request.concurrency
    Budget           \* how often each kind of mishap may happen

Kinds == {"loss", "fault", "slow", "access", "rejudge", "kill"}
Execs == 1 .. N
Procs == Workers \cup Cleaners

ASSUME ConstantsAssumption ==
    /\ N \in Nat
    /\ Workers \cap Cleaners = {} /\ None \notin Procs
    /\ Concurrencies \subseteq Nat \ {0}
    /\ Budget \in [Kinds -> Nat]

VARIABLES
    concurrency,  \* request.concurrency
    row,          \* state of the row
    saved,        \* executions in the row's result
    deleting,     \* delete_requested
    holder,       \* whose claim the row's lease token is
    leased,       \* lease_until lies in the future
    allowed,      \* the owner may use the agent
    pc,           \* next call of each goroutine
    k,            \* where a worker's loop over the executions is
    res,          \* executions in a worker's memory
    judge,        \* judges a worker started, by execution
    run,          \* WorkflowRuns of the evaluation
    dying,        \* runs with a deletion timestamp
    late,         \* executions whose run ended over two minutes ago
    sess,         \* sessions of judges at work
    strays,       \* the agent keeps a judge session nobody works in
    spent         \* mishaps so far

record == <<row, saved, deleting, holder, leased>>
request == <<concurrency, allowed>>
local == <<k, res>>
cluster == <<run, dying, late>>
agent == <<sess, strays>>
vars == <<concurrency, row, saved, deleting, holder, leased, allowed, pc, k, res, judge,
          run, dying, late, sess, strays, spent>>

-----------------------------------------------------------------------------
(* Executions *)

States == {"queued", "running", "judging", "completed", "error", "cancelled"}
Execution == [state : States, transcript : BOOLEAN]

Fresh == [state |-> "queued", transcript |-> FALSE]

\* Executions that hold one of the slots.
Active(es) == {i \in Execs : es[i].state \in {"running", "judging"}}
Judging(es) == {i \in Execs : es[i].state = "judging"}
Pending(es) == {i \in Execs : es[i].state \in {"queued", "running", "judging"}}

NoJudges == [i \in Execs |-> "none"]

Spend(kind) ==
    /\ spent[kind] < Budget[kind]
    /\ spent' = [spent EXCEPT ![kind] = @ + 1]

Goto(p, place) == pc' = [pc EXCEPT ![p] = place]

\* The variables of a worker's pass before it claims.
Cleared(w) ==
    /\ res' = [res EXCEPT ![w] = [i \in Execs |-> Fresh]]
    /\ k' = [k EXCEPT ![w] = 1]

\* A worker moves an execution on and looks at the next.
Step(w, i, state) ==
    /\ res' = [res EXCEPT ![w][i].state = state]
    /\ k' = [k EXCEPT ![w] = i + 1]

-----------------------------------------------------------------------------
(* Requests *)

\* CreateWorkflowEvaluation; a repeated request finds the row.
CreateWorkflowEvaluation ==
    /\ row = "none"
    /\ row' = "queued"
    /\ UNCHANGED <<saved, deleting, holder, leased, request, pc, local, judge, cluster, agent, spent>>

DeleteWorkflowEvaluation ==
    /\ row \notin {"none", "gone"} /\ ~deleting
    /\ deleting' = TRUE
    /\ UNCHANGED <<row, saved, holder, leased, request, pc, local, judge, cluster, agent, spent>>

\* UpdateWorkflowEvaluation: judge anew what has a transcript.  The row is
\* written only if it is still the one that was read.
UpdateWorkflowEvaluation ==
    /\ row = "completed" /\ ~deleting
    /\ \E i \in Execs : saved[i].transcript
    /\ saved' = [i \in Execs |-> IF saved[i].transcript THEN [saved[i] EXCEPT !.state = "judging"]
                                 ELSE saved[i]]
    /\ row' = "queued"
    /\ Spend("rejudge")
    /\ UNCHANGED <<deleting, holder, leased, request, pc, local, judge, cluster, agent>>

-----------------------------------------------------------------------------
(* The lease *)

\* The row passes to a worker, which also looks what the owner may do: without
\* access the evaluation is cancelled.
Claimed(w) ==
    /\ pc[w] = "idle" /\ ~leased
    /\ holder' = w /\ leased' = TRUE
    /\ res' = [res EXCEPT ![w] = saved]
    /\ k' = [k EXCEPT ![w] = 1]
    /\ Goto(w, IF allowed THEN "runs" ELSE "cancel")
    /\ UNCHANGED <<row, saved, deleting, request, judge, cluster, agent, spent>>

\* Mutant: rows that were worked on before are forgotten.
ClaimQueued(w) == row = "queued" /\ ~deleting /\ Claimed(w)

\* RunEvaluationClaim by a worker.
Claim(w) == row \in {"queued", "running"} /\ ~deleting /\ Claimed(w)

\* Mutant: a worker saves under the lease of another.
SavedUnchecked(w, state) == holder # None /\ saved' = res[w] /\ row' = state

\* RunEvaluationSave, for whom the token is still in the row.
Saved(w, state) == holder = w /\ saved' = res[w] /\ row' = state

\* The lease passes while nobody works on the row.
Expire ==
    /\ leased /\ pc[holder] = "idle"
    /\ leased' = FALSE
    /\ UNCHANGED <<row, saved, deleting, holder, request, pc, local, judge, cluster, agent, spent>>

\* Work takes longer than the lease of three minutes.
Outlive ==
    /\ leased /\ pc[holder] # "idle"
    /\ leased' = FALSE
    /\ Spend("slow")
    /\ UNCHANGED <<row, saved, deleting, holder, request, pc, local, judge, cluster, agent>>

-----------------------------------------------------------------------------
(* The worker *)

\* Mutant: an execution that is judged holds no slot.
SlotUnjudged(w) == Cardinality({i \in Execs : res[w][i].state = "running"}) < concurrency

Slot(w) == Cardinality(Active(res[w])) < concurrency

\* Mutant: a run that is gone is started again.
StartableAnew(i, e) == run[i] = "none"

Startable(i, e) == run[i] = "none" /\ e.state = "queued"

\* Executions advanceEvaluationRuns still has to look at: those that run, and
\* queued ones while there is a slot.
Due(w) ==
    {i \in Execs : /\ i >= k[w]
                   /\ \/ res[w][i].state = "running"
                      \/ res[w][i].state = "queued" /\ Slot(w)}

\* collectEvaluationTranscript finds every session idle and every response
\* complete.
Collect(w, i) ==
    /\ res' = [res EXCEPT ![w][i] = [state |-> "judging", transcript |-> TRUE]]
    /\ k' = [k EXCEPT ![w] = i + 1]

\* It reads the run of the next one.  When a run has ended its transcript is
\* collected; one that is not complete is given up after two minutes.
Visit(w) ==
    /\ pc[w] = "runs"
    /\ \E i \in Due(w) :
       /\ \A j \in Due(w) : i <= j
       /\ \/ /\ Startable(i, res[w][i])
             /\ k' = [k EXCEPT ![w] = i]
             /\ Goto(w, "create")
             /\ UNCHANGED res
          \/ /\ ~Startable(i, res[w][i])
             /\ \/ run[i] \in {"none", "bare"} /\ Step(w, i, "error")
                \/ run[i] = "active" /\ Step(w, i, "running")
                \/ run[i] = "ended" /\ Collect(w, i)
                \/ run[i] = "ended" /\ Step(w, i, IF i \in late THEN "error" ELSE "running")
             /\ UNCHANGED pc
    /\ UNCHANGED <<record, request, judge, cluster, agent, spent>>

\* The API server creates the run unless it exists.
Started(i) ==
    IF run[i] = "none"
    THEN /\ run' = [run EXCEPT ![i] = "active"]
         /\ UNCHANGED <<dying, late>>
    ELSE UNCHANGED cluster

CreateRun(w) ==
    /\ pc[w] = "create"
    /\ Started(k[w])
    /\ Step(w, k[w], "running")
    /\ Goto(w, "runs")
    /\ UNCHANGED <<record, request, judge, agent, spent>>

\* RunEvaluationSave at the end of a pass releases the row.
SaveAndRelease(w, state) ==
    /\ \/ /\ Saved(w, state)
          /\ holder' = None /\ leased' = FALSE
          /\ UNCHANGED spent
       \/ holder # w /\ UNCHANGED <<row, saved, holder, leased, spent>>
       \/ Spend("loss") /\ UNCHANGED <<row, saved, holder, leased>>
    /\ Goto(w, "idle")
    /\ Cleared(w)
    /\ judge' = [judge EXCEPT ![w] = NoJudges]
    /\ UNCHANGED <<deleting, request, cluster, agent>>

Over(w) == Pending(res[w]) = {}

\* advanceEvaluation has been through the runs and nothing is to be judged.
Finish(w) ==
    /\ pc[w] = "runs" /\ Due(w) = {} /\ Judging(res[w]) = {}
    /\ SaveAndRelease(w, IF Over(w) THEN "completed" ELSE "running")

\* Executions to judge now: in order, as many as request.concurrency allows.
Chosen(w) ==
    LET busy == {i \in Execs : judge[w][i] # "none"}
        ready == Judging(res[w]) \ busy
    IN  {i \in ready : Cardinality(busy) + Cardinality({j \in ready : j <= i}) <= concurrency}

Waits(w) == pc[w] = "runs" /\ Due(w) = {} /\ Judging(res[w]) # {}

\* Otherwise a checkpoint renews the lease and judges are started; without the
\* lease the worker stops.
Checkpoint(w) ==
    /\ Waits(w)
    /\ \/ /\ Saved(w, "running")
          /\ leased' = TRUE
          /\ judge' = [judge EXCEPT ![w] = [i \in Execs |-> IF i \in Chosen(w) THEN "start"
                                                           ELSE judge[w][i]]]
          /\ Goto(w, "wait")
       \/ /\ holder # w
          /\ Goto(w, "unwind")
          /\ UNCHANGED <<row, saved, leased, judge>>
    /\ UNCHANGED <<deleting, holder, request, local, cluster, agent, spent>>

\* While judges work, the runs are looked after every second.
Poll(w) ==
    /\ pc[w] = "wait"
    /\ k' = [k EXCEPT ![w] = 1]
    /\ Goto(w, "runs")
    /\ UNCHANGED <<record, request, res, judge, cluster, agent, spent>>

\* The coordinator receives a judgment.
Receive(w, i) ==
    /\ pc[w] = "wait"
    /\ judge[w][i] \in {"completed", "error"}
    /\ res' = [res EXCEPT ![w][i].state = judge[w][i]]
    /\ judge' = [judge EXCEPT ![w][i] = "none"]
    /\ Goto(w, "record")
    /\ UNCHANGED <<record, request, k, cluster, agent, spent>>

\* It keeps the judgment before it starts another run.
Record(w) ==
    /\ pc[w] = "record"
    /\ \/ /\ Saved(w, "running")
          /\ leased' = TRUE
          /\ k' = [k EXCEPT ![w] = 1]
          /\ Goto(w, "runs")
       \/ /\ holder # w
          /\ Goto(w, "unwind")
          /\ UNCHANGED <<row, saved, leased, k>>
    /\ UNCHANGED <<deleting, holder, request, res, judge, cluster, agent, spent>>

\* Executions cancelEvaluation still has to look at.
Undone(w) == {i \in Pending(res[w]) : i >= k[w]}

\* It deletes the runs and ends what has none.
CancelRun(w) ==
    /\ pc[w] = "cancel"
    /\ \E i \in Undone(w) :
       /\ \A j \in Undone(w) : i <= j
       /\ IF res[w][i].state = "judging" \/ run[i] = "none"
          THEN Step(w, i, "cancelled") /\ UNCHANGED dying
          ELSE Step(w, i, res[w][i].state) /\ dying' = dying \cup {i}
    /\ UNCHANGED <<record, request, pc, judge, run, late, agent, spent>>

\* It comes back until no run is left.
Cancelled(w) ==
    /\ pc[w] = "cancel" /\ Undone(w) = {}
    /\ SaveAndRelease(w, IF Pending(res[w]) = {} THEN "cancelled" ELSE "running")

Working == {"runs", "create", "record", "wait", "cancel"}

\* A call fails, or the deletion of the evaluation cancels it; a run whose
\* creation was under way, or a checkpoint, may have been stored.
Interrupt(w) ==
    /\ pc[w] \in Working
    /\ \/ (deleting \/ row = "gone") /\ UNCHANGED spent
       \/ Spend("fault")
    /\ Goto(w, "unwind")
    /\ \/ UNCHANGED <<row, saved, leased, cluster>>
       \/ pc[w] = "create" /\ Started(k[w]) /\ UNCHANGED <<row, saved, leased>>
       \/ /\ pc[w] = "record" \/ Waits(w)
          /\ Saved(w, "running") /\ leased' = TRUE
          /\ UNCHANGED cluster
    /\ UNCHANGED <<deleting, holder, request, local, judge, agent>>

\* Mutant: the worker does not wait for its judges.
JudgesLeft(w) == TRUE

JudgesEnded(w) == \A i \in Execs : judge[w][i] \notin {"start", "open"}

\* advanceEvaluation returns once its judges have ended.
Unwind(w) ==
    /\ pc[w] = "unwind" /\ JudgesEnded(w)
    /\ SaveAndRelease(w, "running")

-----------------------------------------------------------------------------
(* Judges *)

\* judgeEvaluation creates its session.
OpenJudge(w, i) ==
    /\ judge[w][i] = "start"
    /\ \/ /\ pc[w] # "unwind"
          /\ judge' = [judge EXCEPT ![w][i] = "open"]
          /\ sess' = sess \cup {<<w, i>>}
          /\ UNCHANGED <<strays, spent>>
       \/ /\ \/ pc[w] = "unwind" /\ UNCHANGED spent
             \/ Spend("fault")
          /\ judge' = [judge EXCEPT ![w][i] = "error"]
          /\ strays' \in {strays, TRUE}
          /\ UNCHANGED sess
    /\ UNCHANGED <<record, request, pc, local, cluster>>

\* It prompts, and deletes its session whatever the answer; when that fails the
\* session stays.
CloseJudge(w, i, verdict) ==
    /\ judge[w][i] = "open"
    /\ verdict = "completed" => pc[w] # "unwind" /\ <<w, i>> \in sess
    /\ judge' = [judge EXCEPT ![w][i] = verdict]
    /\ sess' = sess \ {<<w, i>>}
    /\ \/ UNCHANGED <<strays, spent>>
       \/ <<w, i>> \in sess /\ Spend("fault") /\ strays' = TRUE
    /\ UNCHANGED <<record, request, pc, local, cluster>>

-----------------------------------------------------------------------------
(* The cleaner *)

ClaimCleanup(c) ==
    /\ pc[c] = "idle"
    /\ deleting /\ ~leased
    /\ holder' = c /\ leased' = TRUE
    /\ Goto(c, "list")
    /\ UNCHANGED <<row, saved, deleting, request, local, judge, cluster, agent, spent>>

Owned == {i \in Execs : run[i] # "none"}

\* deleteEvaluation deletes every run it finds, and comes back until none is
\* left.
DeleteRuns(c) ==
    /\ pc[c] = "list"
    /\ \/ Owned # {} /\ dying' = Owned /\ Goto(c, "release") /\ UNCHANGED spent
       \/ Owned = {} /\ Goto(c, "sweep") /\ UNCHANGED <<dying, spent>>
       \/ Spend("fault") /\ Goto(c, "release") /\ dying' \in {dying \cup S : S \in SUBSET Owned}
    /\ UNCHANGED <<record, request, local, judge, run, late, agent>>

\* Then it deletes the sessions of judges.
SweepSessions(c) ==
    /\ pc[c] = "sweep"
    /\ \/ sess' = {} /\ strays' = FALSE /\ Goto(c, "delete") /\ UNCHANGED spent
       \/ /\ Spend("fault") /\ Goto(c, "release")
          /\ sess' \in SUBSET sess /\ strays' \in {strays, FALSE}
    /\ UNCHANGED <<record, request, local, judge, cluster>>

\* RunEvaluationDelete.
DeleteRow(c) ==
    /\ pc[c] = "delete"
    /\ \/ holder = c /\ row' = "gone" /\ holder' = None /\ leased' = FALSE /\ deleting' = FALSE
          /\ UNCHANGED spent
       \/ holder # c /\ UNCHANGED <<row, deleting, holder, leased, spent>>
       \/ Spend("fault") /\ UNCHANGED <<row, deleting, holder, leased>>
    /\ Goto(c, "release")
    /\ UNCHANGED <<saved, request, local, judge, cluster, agent>>

\* Mutant: the token is cleared and the lease kept.
ReleaseUntimed(c) ==
    /\ pc[c] = "release"
    /\ holder' = IF holder = c THEN None ELSE holder
    /\ Goto(c, "idle")
    /\ UNCHANGED <<row, saved, deleting, leased, request, local, judge, cluster, agent, spent>>

\* RunEvaluationRelease.
Release(c) ==
    /\ pc[c] = "release"
    /\ \/ holder = c /\ holder' = None /\ leased' = FALSE /\ UNCHANGED spent
       \/ holder # c /\ UNCHANGED <<holder, leased, spent>>
       \/ Spend("fault") /\ UNCHANGED <<holder, leased>>
    /\ Goto(c, "idle")
    /\ UNCHANGED <<row, saved, deleting, request, local, judge, cluster, agent>>

-----------------------------------------------------------------------------
(* Crashes, the cluster and the owner *)

\* A replica dies; the sessions of its judges stay behind.
Crash(p) ==
    /\ pc[p] # "idle"
    /\ Spend("loss")
    /\ Goto(p, "idle")
    /\ IF p \in Workers
       THEN /\ Cleared(p)
            /\ judge' = [judge EXCEPT ![p] = NoJudges]
            /\ sess' = {s \in sess : s[1] # p}
            /\ strays' = (strays \/ sess' # sess)
       ELSE UNCHANGED <<local, judge, agent>>
    /\ UNCHANGED <<record, request, cluster>>

\* The run ends, with or without a session.
RunEnds(i) ==
    /\ run[i] = "active"
    /\ \E end \in {"ended", "bare"} : run' = [run EXCEPT ![i] = end]
    /\ UNCHANGED <<record, request, pc, local, judge, dying, late, agent, spent>>

\* The finalizer of a deleted run is done.
RunReleased(i) ==
    /\ i \in dying
    /\ run' = [run EXCEPT ![i] = "none"]
    /\ dying' = dying \ {i} /\ late' = late \ {i}
    /\ UNCHANGED <<record, request, pc, local, judge, agent, spent>>

\* A user deletes the run.
KillRun(i) ==
    /\ run[i] # "none" /\ i \notin dying
    /\ Spend("kill")
    /\ dying' = dying \cup {i}
    /\ UNCHANGED <<record, request, pc, local, judge, run, late, agent>>

\* Two minutes have passed since the run ended.
LatePasses(i) ==
    /\ run[i] = "ended" /\ i \notin late
    /\ late' = late \cup {i}
    /\ UNCHANGED <<record, request, pc, local, judge, run, dying, agent, spent>>

\* The owner loses or regains the agent.
ChangeAccess ==
    /\ Spend("access")
    /\ allowed' = ~allowed
    /\ UNCHANGED <<record, concurrency, pc, local, judge, cluster, agent>>

-----------------------------------------------------------------------------
(* Specification *)

Init ==
    /\ concurrency \in Concurrencies
    /\ row = "none" /\ saved = [i \in Execs |-> Fresh] /\ deleting = FALSE
    /\ holder = None /\ leased = FALSE
    /\ allowed = TRUE
    /\ pc = [p \in Procs |-> "idle"]
    /\ k = [w \in Workers |-> 1]
    /\ res = [w \in Workers |-> [i \in Execs |-> Fresh]]
    /\ judge = [w \in Workers |-> NoJudges]
    /\ run = [i \in Execs |-> "none"] /\ dying = {} /\ late = {}
    /\ sess = {} /\ strays = FALSE
    /\ spent = [kind \in Kinds |-> 0]

Judge(w, i) == OpenJudge(w, i) \/ \E verdict \in {"completed", "error"} : CloseJudge(w, i, verdict)

\* What a worker does by itself, apart from the choice between a judgment and
\* the next poll.
Work(w) ==
    \/ Claim(w) \/ Visit(w) \/ CreateRun(w) \/ Finish(w) \/ Checkpoint(w) \/ Poll(w) \/ Record(w)
    \/ CancelRun(w) \/ Cancelled(w) \/ Unwind(w)

Clean(c) == ClaimCleanup(c) \/ DeleteRuns(c) \/ SweepSessions(c) \/ DeleteRow(c) \/ Release(c)

Request == CreateWorkflowEvaluation \/ DeleteWorkflowEvaluation \/ UpdateWorkflowEvaluation

Cluster(i) == RunEnds(i) \/ RunReleased(i) \/ LatePasses(i)

Next ==
    \/ Request \/ Expire \/ Outlive \/ ChangeAccess
    \/ \E w \in Workers :
          \/ Work(w) \/ Interrupt(w)
          \/ \E i \in Execs : Receive(w, i) \/ Judge(w, i)
    \/ \E c \in Cleaners : Clean(c)
    \/ \E p \in Procs : Crash(p)
    \/ \E i \in Execs : Cluster(i) \/ KillRun(i)

\* Goroutines run, calls return within their timeouts, select is fair between
\* a judgment and the poll, leases pass, runs end and are finalized.
Fairness ==
    /\ \A w \in Workers :
          /\ WF_vars(Work(w))
          /\ WF_vars(deleting /\ Interrupt(w))
          /\ \A i \in Execs : SF_vars(Receive(w, i)) /\ WF_vars(Judge(w, i))
    /\ \A c \in Cleaners : WF_vars(Clean(c))
    /\ \A i \in Execs : WF_vars(RunEnds(i)) /\ WF_vars(RunReleased(i)) /\ WF_vars(LatePasses(i))
    /\ WF_vars(Expire)

Spec == Init /\ [][Next]_vars /\ Fairness

-----------------------------------------------------------------------------
(* Properties *)

Places == {"idle", "unwind", "list", "sweep", "delete", "release"} \cup Working

\* Every variable has its type.
TypeOK ==
    /\ concurrency \in Concurrencies
    /\ row \in {"none", "queued", "running", "completed", "cancelled", "gone"}
    /\ saved \in [Execs -> Execution]
    /\ deleting \in BOOLEAN /\ leased \in BOOLEAN /\ allowed \in BOOLEAN /\ strays \in BOOLEAN
    /\ holder \in Procs \cup {None} /\ (leased => holder # None)
    /\ pc \in [Procs -> Places]
    /\ k \in [Workers -> 1 .. N + 1]
    /\ res \in [Workers -> [Execs -> Execution]]
    /\ judge \in [Workers -> [Execs -> {"none", "start", "open", "completed", "error"}]]
    /\ run \in [Execs -> {"none", "active", "ended", "bare"}]
    /\ dying \in SUBSET Owned /\ late \in SUBSET Owned
    /\ sess \in SUBSET (Workers \X Execs)
    /\ spent \in [Kinds -> Nat]

Prompt == spent["slow"] = 0

Starts(i) == run[i] = "none" /\ run'[i] # "none"
Running == {i \in Execs : run[i] = "active"}
Judged == {s[2] : s \in sess}

\* Unless a pass outlives its lease, no more runs are active than
\* request.concurrency allows, across crashes and failed calls, as long as the
\* evaluation's runs are left alone: one that is deleted, by a user or because
\* the owner lost the agent, while two replicas die before they save its start
\* is started again beside the next.  And unless a replica dies judges count as
\* well, whatever is deleted: with one slot no later run can change what a judge
\* still has to look at (advanceEvaluationRuns).
Serial ==
    Prompt => /\ spent["kill"] = 0 /\ spent["access"] = 0 => Cardinality(Running) <= concurrency
              /\ spent["loss"] = 0 => Cardinality(Running \cup Judged) <= concurrency

\* An execution whose row says that its run was started never has it started
\* again, whoever works on the row after whatever crash; only a pass that
\* outlives its lease may not know.
StartedOnce ==
    [][\A i \in Execs : Prompt /\ saved[i].state # "queued" => ~Starts(i)]_vars

\* When a run is started, every judgment its worker has received is in the row
\* (checkpoint in advanceEvaluation).
Durable ==
    [][\A w \in Workers, i \in Execs :
          Prompt /\ pc[w] = "create" /\ Starts(k[w]) /\ res[w][i].state = "completed"
              => saved[i].state = "completed"]_vars

\* A judgment in the row is lost only to a request to judge again: no worker
\* writes over it, not even one whose lease passed while it worked.
NotOverwritten ==
    [][\A i \in Execs : saved[i].state = "completed" /\ saved'[i].state # "completed"
          => row = "completed" /\ row' = "queued"]_vars

\* A judgment that a worker received is not lost: it is in the row before the
\* next run changes what was judged, and stays there.
JudgmentsKept == Durable /\ NotOverwritten

\* A row that says the evaluation is over is right: every execution has ended
\* and, unless a pass outlived its lease, no run and no judge is still at work.
\* The row of a deleted one goes only after its runs and all sessions of
\* judges, those of dead replicas included (deleteEvaluation): nothing is left
\* that no row leads to.
EndsQuietly ==
    /\ row \in {"completed", "cancelled"} =>
          Pending(saved) = {} /\ (Prompt => Running = {} /\ sess = {})
    /\ row = "gone" /\ Prompt => Owned = {} /\ sess = {} /\ ~strays

\* An evaluation that was asked for, or asked to judge again, ends or is
\* deleted, and a deletion completes, whatever fails on the way.
EvaluationEnds ==
    /\ row = "queued" ~> row \in {"completed", "cancelled", "gone"}
    /\ deleting ~> row = "gone"
=============================================================================
