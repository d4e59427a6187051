# AgentZ: TLA+ models, TLC runs and TLAPS proofs

AgentZ is a multi-tenant platform that runs AI agents on Kubernetes. A Go
*gateway* serves the browser and the agents, keeps its state in PostgreSQL and
talks to one *engine* (OpenCode) per agent; Go *controllers* turn custom
resources into running agents and workflow runs; an *observer* collects
telemetry. This directory holds models of the parts in which processes, calls
and failures interleave, the TLC configurations that check them on small
instances, and proofs of their central properties for every instance.

Each model `M` has a module `MCM` with its instances, `.cfg` files named
`MCM_*.cfg`, and, where there are theorems, a module `MProofs`.

## Inventory

| Component | State | Operations | Hard behaviour | What makes it correct | Model |
|---|---|---|---|---|---|
| Chat input queue (`internal/gateway/queue.go`, `notifications.go`, admission in `opencode.go`) | `chat_inputs` rows, `chat_input_sessions.stopping`, an advisory lock and execution leases per conversation | submit, edit, steer, retry, remove, deliver, reconcile, Stop, repair of Stop, completion of notifications, direct prompts | the engine acknowledges before it stores; several replicas; crashes between save and call; Stop against late messages | each message arrives at most once, in order, and is never both returned to its author and run by the agent; Stop leaves nothing running | `ChatInputs`, `ChatMailbox` |
| Coding operations (`operations.go`, `git.go`, `filesystem/git.go`) | `coding_operations` with lease token and expiry, the project lock, the checkout, branches at GitHub | start, claim, heartbeat, publish, interrupt, prune; commit, push, pull, fetch, pull request, branch names | a worker that lost its lease goes on; calls that time out happen later; the agent and others change checkout and GitHub meanwhile | one final result, published by the lease holder only and true; no commit lost here or at GitHub; what is committed is what was reviewed | `CodingOperations`, `CodingLedger` |
| Worktrees and snapshots (`coding.go`, `repositories.go`) | worktree rows, snapshot rows with lease and generation | create, remove, refresh, invalidate | an invalidation, or a removal, during a refresh | no status from before an operation that has answered | `CodingSnapshots` |
| Workflow runs (`internal/controller/workflowrun`, `gateway/workflow/runs.go`, `workflowruns.go`) | phase, session, nodes and conditions of the WorkflowRun, OpenCode sessions, the result in the conversation | admit, prompt, follow, time out, fail, abort, deliver, finalise; reports of the agent | a cache that lags behind the controller's own patches, ambiguous answers, restarts, deletion at any moment | prompted at most once; the end is final; the result is handed over once; nothing runs on | `WorkflowRuns`, `WorkflowLifecycle` |
| Workflow schedules (`internal/controller/workflowschedule`, `workflow/trigger.go`) | trigger Jobs, runs, `LastRunName`, three caches | trigger, retry of pods, annotate, recover failed ticks, prune, refresh | caches that lag behind each other; a pruned run that a pod asks for again | one run for each tick; failures on record; the oldest runs pruned | `WorkflowSchedule` |
| Observer sink (`internal/observer/sink.go`) | channel, batch, retained batches, tables | send, flush, split, discard, drain | back-pressure, transient and permanent errors, lost answers, shutdown | no valid event lost, none repeated without a lost answer, order kept | `ObserverSink` |
| Evaluations (`internal/gateway/evaluations.go`) | one row with result and lease, runs, judge sessions | request, claim, run, judge, save, cancel, judge again, delete | hand-over between replicas, passes that outlive the lease, deletion meanwhile | slots respected, judgments kept, no run started twice, nothing left behind | `Evaluations` |
| Sessions catalogue (`chat.go`) | `chat_sessions` | index, pin, lock, snooze, expire, delete | deletion against delivery | a deleted conversation receives nothing | only as seen by a run |
| Delegation, projection, resource APIs, other controllers, external authorisation, secret injection, launcher, console | Kubernetes objects, per-request decisions | create, render, authorise | mostly single calls | see `PROJECT.json` for each | none |

Every component, with its status and the reason when it is left out, is listed
in `PROJECT.json` under `components`; what is hard to test in the code is listed
under `hazards`, each at its line and with the properties that would catch it.

### How the parts interact

The browser talks to the gateway: queue requests (`SubmitChatInput`,
`UpdateChatInput`), Stop (`stopOpenCodeSession`), and prompts proxied straight to
the engine (`opencode.go`). Workers in every gateway replica
(`runChatInputs`, `runChatCleanup`) read the tables and call the engine. They
share nothing but PostgreSQL: the rows with their revisions, the `stopping`
flag, and advisory locks held by connections.

Background Git work (`StartCodingOperation`) is a second queue of rows with its
own workers (`runCoding`), which call Git in the agent's checkout through the
filesystem service, Git in a trusted temporary repository, and GitHub. An
operation invalidates the worktree's snapshot before it answers
(`CodingSnapshots.InvalidateSnapshots`).

A schedule's CronJob starts trigger Jobs, whose pods create WorkflowRuns through
the gateway (`WorkflowSchedule.RunSchedule`). The workflowrun controller creates
a session for a run, prompts it and follows it; the agent reports progress and
end to the gateway (`WorkflowRuns.PatchRunStatus`); the result becomes a
background row of the chat queue (`WorkflowRuns.Deliver`, that is
`ChatInputs.EnqueueBackground`). An evaluation creates one run per model and
sees of it only whether it is active, ended or gone. The seams are kept narrow
on purpose: a run in `WorkflowSchedule` and in `Evaluations` moves through the
phases `WorkflowLifecycle` allows, and `WorkflowRuns` is shown to implement that
module.

### Conventions

* A `CONSTRAINT` named `Scenario(s)` says which complications occur *together*,
  as a union of scenarios. In the runs that check liveness it cuts only steps no
  fairness assumption forces (faults, requests, crashes, foreign edits), with two
  exceptions: in `WorkflowSchedule` it also bounds the lag of the watches, whose
  delivery is fair and stays enabled at the cut; in `Evaluations` it lets `w1` be
  the worker as long as only one works at a time, which symmetry makes
  immaterial. A liveness property is checked of the behaviours inside.
* `Max...`, `Budget` and `Limit` bound counters that the code does not bound.
  No property mentions them, but for `Limit`, which the code has.
* `CHECK_DEADLOCK FALSE` is set everywhere because each of these systems has
  states in which everything is done.
* Definitions whose comment begins with "Mutant" are broken variants of the
  definition that follows; nothing in a specification uses them.

## The chat input queue

### Modules

* `ChatMailbox` is the promise to people: a message is posted, and either
  arrives, once and for good, or is withdrawn; its author may reinstate a
  withdrawn message.
* `ChatInputs` is the code: one conversation, its rows, the gateway goroutines
  that work on it, and the engine as far as the gateway relies on it.
  `ImplementsMailbox` maps a row to its fate (`Fate`, `Box`).
* `ChatInputsProofs` and `ChatMailboxProofs` hold the theorems.

### State and actions against the code

Rows are functions of their sequence number: `st`, `origin`, `delivery`, `mid`
(0 stands for the empty `message_id`), `resume`, `completed`. The content of a
message, its error text and its outcome label decide nothing and are left out.
`revision` is compared and never read otherwise, so it is kept as the set
`fresh[p]` of rows of which goroutine `p` holds a current copy: a save by anyone
removes the row from every other set (`Stale`), and a save succeeds only with a
fresh copy. `updated_at` is compared with "a minute ago" only, so it is the flag
`aged`. `att` counts the message ids ever drawn for a row; the ids themselves
are random and unique, so the number of the attempt stands for the id.

A goroutine's `pc` is the next database statement or HTTP call of
`deliverChatInput`, `reconcileChatInput`, `settleChatStop` or
`completeBackgroundInput`; each such call is one action, so everything else may
happen between two of them. The short requests (submit, edit, steer, retry,
remove, the loss-of-access save) hold the lock from their first statement to
their last and change one row, and are one action each. Early returns are the
disjuncts with `Return`.

The engine is external. It stores an accepted prompt later (`Persist`) or loses
it (`Drop`); a stored message joins the run under way or starts a turn
(`Arrived`); a turn runs, asks, ends or is interrupted (`TurnSteps`).

Failures: any handler may end anywhere (`GiveUp`: an error, a timeout or a crash
of the gateway), a prompt may be refused, an author may lose access, and the
connection that carries the advisory lock may die under its holder, who does not
notice (`LoseLock`).

Two timing assumptions are part of the model because the code rests on them and
they cannot be derived from it: an accepted prompt is stored or lost before its
row is a minute old (`Age`; the minute of `reconcileChatInput`), and a stored
prompt starts to run within the 250 ms tick of Stop (`StopWait`; the repeated
abort of `settleChatStop`).

### Runs

| Run | Instance | Shows |
|---|---|---|
| `queue` | 2 goroutines; the union of: 1 message of a person with 3 attempts, 2 faults and a lost lock; the same with 2 attempts, a Stop, and a fault or a lost lock; 2 messages of people with a steer or a Stop; the same two with a lost lock; 2 rows of either origin with a steer or a Stop; 1 row of either origin, a Stop and a direct prompt (851 000 states) | `AtMostOnce`; `NoGhost`: what its author may edit or take back is neither stored nor on its way; `InOrder`: one open message id per conversation as long as the lock is not lost (`OneOutstanding`), and, lock or no lock, an unsteered follow-up goes out only after earlier messages were disposed of (`NoOvertaking`); `StopHolds`: nothing is admitted while the barrier is up, and after a successful Stop nothing of a person is on its way, no lease is held and nothing runs; `NoInjection`: follow-ups do not join unfinished turns, see below; `ImplementsMailbox` |
| `fair` | 1 row, 2 attempts, 1 fault, 1 Stop, with fairness | `QueueSettles`: a row that is sending is resolved and a raised barrier comes down |
| `restart` | 1 notification, 1 Stop | expected violation of `NoBackgroundRestart`, see Findings |

Bounds. Two goroutines suffice for every race between a holder of the lock and
whoever takes it next; a third would wait. Two rows suffice for order and for
the head of the queue, both of which compare two rows. Three attempts make a
late first message meet a second and a third one. The budgets for faults, Stop
requests and lost locks keep the instances finite; each scenario allows at least
one of those its question is about.

Fairness (`FairSpec`). Workers tick every second and each call of a handler ends
by its context, so handler steps are weakly fair; PostgreSQL grants a contended
advisory lock in the order of the requests, so steps that wait for it are
strongly fair, as is the ten-second repair tick; clocks advance; the engine
stores or loses what it accepted and ends a run that is not waiting for a person.
Nothing is assumed of people, so a run that asks may ask for ever, which
`QueueSettles` allows for.

### Findings

* `restart`: Stop reconciles rows of people only. A notification that was
  acknowledged but not stored survives Stop and starts a turn after the barrier
  is cleared, against the comment at `query.sql:2923`.

Exceptions that the properties name:

* *A lost lock.* A holder that does not notice that its connection died goes on
  beside the next one, and then two rows can be with the agent at once, the
  barrier of Stop can be raised under a goroutine that is about to send, and a
  follow-up can be stored into the turn the other goroutine started. So
  `OneOutstanding`, `StopHolds` and `NoInjection` are stated for `losses = 0`.
  What is never lost with the lock is that a message arrives once, is not given
  back while it may arrive, and does not overtake (`AtMostOnce`, `NoGhost`,
  `NoOvertaking`).
* *Turns nobody queued.* The lease of a direct prompt is consulted only when the
  history shows an unfinished turn, so a direct prompt that was admitted but is
  not stored yet is invisible to both reads of `deliverChatInput`, and a
  follow-up can be stored into the turn it starts. A notification that Stop
  removed while its message was on its way (the finding above) does the same.
  `NoInjection` (the comment at `queue.go:920`) is therefore stated for
  conversations in which only rows that wait in the queue start turns (`Alone`).

### Proofs

`ChatInputsProofs` proves, for any number of goroutines, rows, attempts, faults,
Stops and lost locks, `Spec => []TypeOK`, `[]AtMostOnce`, `[]NoGhost` and
`[]DeliveredIsStored` (a row is called delivered only when the engine has stored
its current message id). None of them is inductive. The inductive invariant
`IInv` adds four facts: `JobInv` (a goroutine inside a handler has a row), `RowInv`
(a row's stored and flying attempts never exceed the one its `mid` names, and
a row without `mid` has none), `CopyInv` (what a current copy implies about the
row: no write happened since, so a prompt about to go out is the row's only one)
and `PromptInv` (a goroutine at the call of `prompt_async` carries the row's
message id, of which the engine has nothing, and is the only one that does). This
argument does not use the lock at all: revisions and the minute carry it, which
is why it survives `LoseLock`. The only assumption on the constants is that
`None` is not a goroutine and that bounds are natural numbers.

`Spec => []InOrder`, `Spec => StopHolds` and `Spec => NoInjection` need to know
what the goroutines do with the lock. The proof first sums up every action once
by four relations: a row is left alone, submitted, authored, saved by the holder
of a current copy, ended or withdrawn (`RowMove`); the goroutine that moves takes
one of the ways through its handler (`Own`), the others only see copies become
stale (`Stays`); and the engine only stores what is on its way, starts a turn
with it and ends turns (`World`). The invariant `QueueInv` is then shown to be
kept by the relations:

* `ShapeInv`: what status and message id say of each other, and what a goroutine
  with a current copy knows of its row at each control point;
* `OrderInv`: before a follow-up that has a message id nothing waits, and the
  goroutine about to allocate one has seen that;
* `HoldInv`: who works on a row holds the lock, its row is the head of the queue
  and its copy is current, and at most one row is open;
* `StopInv`: what Stop has listed, aborted and seen idle at each of its steps
  covers everything that could still start a run;
* `InjectInv`: while a follow-up is on its way, and between the reading of
  the history and its prompt, no turn is under way: the one open row is the
  follow-up itself, so nothing else can start one.

The first two hold whatever becomes of the lock, the other three until it is
lost. TLC checked all five on the scenarios of `queue` before they were proved.

`ChatMailboxProofs` proves `Spec => ImplementsMailbox` from `IInv` and `LiveInv`
(rows a goroutine works on exist): each action maps to one mailbox step or to a
stutter.

Only model-checked: `QueueSettles`, which is liveness.

## Coding operations

### Modules

* `CodingLedger` is what the rows promise to the browser: a request is accepted
  once, one operation of the project runs at a time, progress is reported only
  while it runs, and its end is final.
* `CodingOperations` is the code: one project with one checkout, its rows, the
  workers of all replicas, the checkout, the agent in it, and GitHub.
  `ImplementsLedger` maps `st` and `told` to the ledger.
* `CodingOperationsProofs` holds the theorems.

### State and actions against the code

A row has its `state` (`st`), the saved outcome (`told`: commit, pushed, pull
request), the request (`req`) and its lease. A row is claimed once and never
queued again, so the token adds nothing to the question whether `lease_until` is
still in the future: `lease` is "none", "live" or "expired". The heartbeat keeps
a live lease live and is not an action; `Expire` is its absence for a minute,
which happens to a crashed worker at no cost and to a working one as a fault.

A worker's `pc` is its next statement or call in `executeCodingOperation` or
`nameCodingBranch`; `at` is its variable `current`, `out` its `result`. `Publish`
is the closure `publish`. Consecutive publications without a call between them
that matters are one (text generation by the model changes nothing the
properties see). A local Git operation is three steps, because nothing keeps the
agent from acting between them: the status and comparison at its start
(`Enter`, `Review`, `Apply`), the Git command itself (`Call`), and the status it
returns (`See`). `Can*` is what Git or GitHub checks in one step with the change
(the old value of `update-ref`, the lease of the push, `--ff-only`), `Do*` the
change.

A commit is the sequence of its ancestors and itself, so "ancestor" is
`IsPrefix`; trees are numbers; `by` names the operation that made a commit.
Branches are the default one, the temporary one of a new checkout, the name
suggested for a feature branch, and the name `name_branch` arrives at, whose
search for a free suffix is abstracted to "free when Git renames".

Failures: any step may fail (`Error`: time limit, lost access, GitHub error), a
worker may be cancelled or crash anywhere (`Cancel`), the command of an abandoned
call may still happen at any later time (`Late`), a worker may outlive its lease,
and the lock connection may die (`LoseLock`), after which the statements that
`nameCodingBranch` sends over it fail.

External: the agent and terminals edit, stage, commit and switch branches
(`Agent`), and others push to GitHub, also with force (`GitHub`). Requests that
change the checkout under the lock (`RunCodingGit`) are no more than such steps.

### Runs

| Run | Instance | Shows |
|---|---|---|
| `coding_safe` | 1 operation of every action, with and without staged tree and feature branch, and two of: a step of the agent, a foreign push, a fault; 2 workers with 2 operations of commit-and-push and pull, and two of: a foreign push, a fault, a lost lock (284 000 states) | `CommitsReviewed`: a commit of a request with a staged tree has that tree and sits on the reviewed HEAD; `Truthful`: what the row says happened did; `LocalKept`: no commit of the checkout is lost; `RemoteKept`: no push takes a commit from GitHub; `ImplementsLedger` |
| `coding_fair` | 2 workers, 2 operations of push from a feature branch and name_branch, 1 fault, 1 lost lock, with fairness | `OperationsEnd`: every accepted operation ends; `RenamesTemporary`: only the temporary branch is renamed away, also when the worker that names it lost its lease and another operation gave the checkout a new branch |

Bounds. One operation is enough for what concerns a request and its commit;
races between workers need two, the one that lost its lease and its successor,
and a third would wait for the row or the lock. One fault makes any one step
fail, time out with a late effect, crash, or outlive its lease.

Fairness (`FairSpec`). Every call ends by its context (two or ten minutes), so
worker steps are weakly fair; PostgreSQL queues waiters for the advisory lock,
and rows are claimed in order of creation, so `Acquire` and `Claim` are strongly
fair; a lease nobody renews expires and the fifteen-second tick interrupts its
operation. `Error`, `Cancel`, the agent and GitHub have no fairness.

Two exceptions that the properties leave room for, both from steps of the agent
between two local Git calls:

* For a request without a staged tree `PrepareCommit` compares HEAD, runs
  `git add`, and returns the status read afterwards, which the worker takes for
  the reviewed one. A commit of the agent in between becomes the parent of the
  operation's commit, although the error at `operations.go:596` promises the
  *reviewed* HEAD. With a staged tree the status is not replaced, and
  `CommitsReviewed` is stated for that case.
* `ApplyCommit` moves the branch and returns a fresh status
  (`operations.go:632`); if the agent switches branches in between, the worker
  goes on with the other branch, finds it up to date at GitHub, and ends a
  commit-and-push as succeeded without having pushed the commit it reports. The
  guard at `operations.go:688` compares with the replaced status. `Truthful` says
  of a push only what was pushed.

### Proofs

`CodingOperationsProofs` proves for any number of workers and operations, any
bounds and any set of actions:

* `CodingTypeCorrect`: `Spec => []TypeOK`. The types of statuses, outcomes and
  calls are proved once (`StatusType`, `StatusUpdate`, `OutcomeUpdate`,
  `CommitType`), the steps of workers by way of `Moves`.
* `PushesKeepRemote`: `Spec => RemoteKept`. The lease of the push says only that
  the branch is what the worker saw; `PushInv` adds that whoever can still push,
  a worker or an abandoned call, found what it saw among the ancestors of what it
  pushes. Then a push that is let through extends the branch. Neither the row's
  lease nor the project lock is used.
* `LedgerImplemented`: `Spec => ImplementsLedger`, from `ClaimInv`: a worker that
  is not idle has a claimed operation to itself, and while the lease is live the
  operation runs. Every step is one step of the ledger or a stutter.

* `CommitsWhatWasReviewed`: `Spec => []CommitsReviewed`. The code compares the
  checkout with the request once and then goes on with statuses it reads again,
  so the proof needs what each call still knows of the comparison (`Reviews`),
  that a commit about to be applied extends the HEAD it was made on (`Changes`,
  which holds of abandoned calls as well), and that every commit in the checkout,
  at GitHub, and in the status of anybody keeps to its request (`Good`,
  `SoundInv`): a fast-forward may bring any of them back. Requests of accepted
  operations do not change (`Steady`).
* `KeepsLocalCommits` (`LocalKept`) and `RenamesOnlyTemporary`
  (`RenamesTemporary`) follow from the same invariant: `update-ref` names the old
  value, so what it replaces is the HEAD that the new commit extends, and whoever
  may still rename has read the temporary branch and names it in the call.
* `ReportsTruthfully`: `Spec => []Truthful`. `TruthInv` says which branch a worker
  publishes at each call (`Reaches`) and what it has found or done (`Sees`). An
  outcome is true when it is published; it stays true because no commit leaves the
  branches of the checkout, and the history and the pull requests at GitHub only
  grow (`Grows`).

`WorkerFacts` states once what a step of a worker may do to rows, GitHub and
calls; `PushInv` and `ClaimInv` use it. `ReviewInv`, `SoundInv` and `TruthInv` were
first checked by TLC as invariants of both coding runs. The assumptions are that
`None` is no worker, that bounds are natural numbers and that requests are among
the known actions. Only model-checked: `OperationsEnd`, which is liveness.

### Left out

Detached and unborn HEADs and conflicts (the code refuses them), merge commits,
several checkouts of one project, deletion of the project meanwhile (its rows
are no longer claimed), closing of pull requests, selection of paths
(`git reset` before `git add`), and notifications. Statements are taken to be
atomic at their `now()`. The check at the start of an abandoned local call is
taken to have been made before its caller gave up.

## Snapshots of worktrees

`CodingSnapshots` is the row of `coding_snapshots` that caches the status of one
worktree. Workers of all processes claim it when it is due (`Claim`), read the
worktree (`Load`), ask GitHub for the pull request of the branch (`Lookup`) and
save (`Save`), unless somebody invalidated the row meanwhile, which its
generation tells. Operations change the worktree (`RunGit`), clear the row
(`InvalidateSnapshots`) and only then answer (`Answer`). A removal marks the
worktree and may fail, which unmarks it (`BeginRemove`, `EndRemove`); a
housekeeper adds missing rows and prunes those of worktrees that are gone or
marked (`TouchRow`, `PruneRow`). Only a handler of a removal takes the mark away:
where it dies, or a call after the checkout went fails (`coding.go:1386`), the mark
stays until somebody asks for the removal again. Nothing in the code makes anyone
ask, so `EndRemove` has no fairness, and a removal may stay begun for ever. A
worktree that was unmarked although its checkout went, because the answer was
lost, is not told apart from one that stays marked.

`version` counts what operations did to the worktree; a snapshot is the version,
the branch and the branch whose pull request it shows. The lease's end is a
timestamp that no two claims share: a token, of which the least one not in use
is taken. Faults are failed reads, crashed workers and leases that end under a
working one.

Run `snapshots` (2 workers, 2 operations, 1 removal, 1 fault):

* `NeverStale`: once an operation has answered, no status is served from a
  snapshot read before it, although a refresh was under way, a lease was lost or
  the row was pruned and made again, which sets its generation back to zero;
* `NeverBack`: an older snapshot never replaces a newer one;
* `CatchesUp`: what an operation did to a worktree that is kept reaches the
  snapshot. `Kept` excludes a worktree that is removed, or left marked for ever:
  the housekeeper seeds no row for it. Tickers run, leases end and rows become due
  (weak fairness); of requests nothing is assumed.

The first operation is the one that begins first, which is a choice of names;
a removal comes with one operation.

`CodingSnapshotsProofs` proves `NeverStale`, `NeverBack`, `TypeOK` (an absent row
has no content) and `PullOfBranch` (the pull request shown is that of the branch
shown) for any number of workers, operations and branches. `IInv` adds `Tracked`
(nothing is ahead of the worktree's version), `Leased` (a worker at work has a
token, and who holds the row's has no later generation than the row) and
`Counts`: the result of a worker that still holds the row with the generation it
was claimed with is not older than what was acknowledged, than what was
invalidated and will be, and than the row's own.

Left out: creation and discovery of worktrees, the repository-wide row, which
works alike, and notifications. A Git call that fails answers its error without
an invalidation; what it changed is not acknowledged, and `NeverStale` does not
speak of it.

## Workflow runs

### State and actions against the code

`WorkflowRuns` is one WorkflowRun. `log` holds every version of the object that
the API server stored; `Obj` is the last. The controller reads `log[seen]`, its
informer's cache, which advances in order and late (`CacheSync`) and starts again
from the last version after a restart (`Crash`, which lists). Its status patches
carry the resource version they were computed from, so `Patch` fails unless the
cached version is the last. The gateway reads and writes the API server
directly, and the controller's calls to the gateway are not cached.

`ctl` is the reconciliation in progress: its next call (`pc`), the run it read,
and where the deferred steps go. `Decide` is the dispatch of `Reconcile` by
finalizer, deletion and phase. Each call to the API server or to OpenCode is an
action with a parameter `ok`; a call that fails may have taken effect where the
code cannot know (`Prompt`, `AbortSession`): a prompt that was answered by the
proxy with an error, which fails the run, may have arrived like one whose answer was
lost (`Uncertain`). The steps are those of
`reconcilePending` (`CreateSession`, `Admit`, `Prompt`, `Unadmit`),
`reconcileRunning` (`Inspect`, `ReadMessages`, `Settle`), failure (`FailRun`),
the end (`SyncTerminalStatus`, `AbortSession`, `ConfirmAbort`, `CheckIdle`,
`Deliver`, `PruneOrphanRuns`) and the finalizer (`FinalAbort`, `DeleteSession`,
`Unfinalize`).

Beside it act the agent (`PatchRunStatus`, `PatchRunNodeStatus`, and its session
`PromptArrives`, `SessionEnds`), people (`DeleteWorkflowRun`), the schedule
(`PruneScheduledRun`) and the deletion of the conversation
(`CloseDestination`, `CleanChat`).

Abstractions. `completedAt` is set exactly when the phase is terminal and is not
kept. A session id is the least unused one. `RequeueAfter` is "the key is in the
queue": when the controller looks again is left open, that it does is fairness.
The refusal of a destination is permanent once given. The workspace is not a
coding one (coding runs add checks of the worktree before the session). The
startup grace and the timeout are two flags that are set at any time after the
start. The timeout is optional in the API; a run here has one, and `RunSettles`
says nothing of a run without.

`WorkflowLifecycle` is what users rely on: queued, admitted with one session,
prompted at most once, ended once, the result handed over once and as it ended.

### Runs

| Run | Instance | Shows |
|---|---|---|
| `workflow_all` | a run a person started, a scheduled run whose result a conversation awaits, one that records a failed trigger; one crash or failed call; deletion of run or conversation; a node reported (284 000 states) | `PromptOnce`; `NothingRunsOn`: after a confirmed cancellation or a release no session executes, an unowned one is deleted, and no node of an ended run is shown as running; `ImplementsLifecycle`; `RunSettles`: every run ends, a failed one's cancellation is confirmed, a deletion completes and the result arrives |
| `workflow_stale` | one run, no fault | expected violation of `GatewayErrorReported`, see Findings |

Three sessions let a stale reconciliation create one too many twice. One crash
or failed call at any of the calls is where the retries start; a second one
meets the same retry. Deletions and node reports are explored where nothing else
goes wrong, and `MaxVersions` bounds the versions up to which nodes are reported.

Fairness (`FairSpec`). Reconciliations end by their timeout and are retried, the
informer delivers, both deadlines pass, an accepted prompt arrives, and an agent
that *reported* the end of its run stops. The last is an assumption about the
agent: one that reports and never becomes idle holds back its result for ever,
because `CheckIdle` waits for it. Of an agent that has not reported nothing is
assumed.

### Findings

* `workflow_stale`: `markPending` asks for a requeue after a millisecond, and its
  patch and the admission are events too, so a reconciliation can start from a
  cache that still shows Pending when the run is already Running. It creates
  another session, `startRun` finds the run "no longer pending"
  (`reconciler.go:527`), and `reconcilePending` fails the run with `GatewayError`
  and aborts the session that executes it, although every call succeeded. The
  comment at `workflowrun.go:84` says "indicates the gateway call failed".

Exceptions that the properties name: a prompt that reaches OpenCode after its
request had failed (`late`) may execute after the cancellation that followed,
and its run's result may then never be delivered; a run recorded as Unacked whose
session never ran is delivered as such.

### Proofs

`WorkflowRunsProofs` proves for any number of sessions, nodes, restarts and
failed calls: `TypeOK`, `PromptOnce`, `TerminalFinal` (neither the controller,
whatever version it read, nor the gateway changes the phase of a run that ended),
`NothingRunsOn` and `ImplementsLifecycle`. The hard part is the cache. `IInv` is

* `LogOK`: phases never go back along the versions (`Rank`), and a session is
  recorded from Running on;
* `SessionOK`: only the recorded session was ever prompted, once;
* `CtlOK`: what the reconciliation in progress may rely on at each call, for
  example that at the call of the prompt the run is Running with exactly this
  session and nothing was sent;
* `LagOK`: `markPending` checks nothing about the phase it overwrites. It is
  sound because a cache that shows Unknown while the run is past Pending can
  only belong to a run refused for a reason (`Refused`) that the reconciliation
  meets again before it gets to `markPending`.

`NothingRunsOn` needs a second invariant on top of it, `StopInv`, which TLC
checked on this instance and on a larger one before it was proved:

* `Kept`: what an old version of the run says that stays true, so that a late
  cache misleads nobody about it: a finalizer stays until the run is gone, and a
  version that is being deleted already names the final session;
* `Holds`: the run has its finalizer while it has a session. It lets go of it,
  or says that the cancellation is confirmed, only when no session executes
  (`Quiet`), and lets go only when an unowned session is deleted as well;
* `Executing`: only a session that was prompted executes;
* `Calls`: what each call of the reconciliation in progress knows of that
  session: the prompt is sent to a run that is neither gone nor cancelled, an
  abort goes to the recorded session, and the calls after it find it quiet.

Assumptions: `NoSession` is no session, session ids and bounds are numbers.
Only model-checked: `RunSettles`, which is liveness.

## Workflow schedules

`WorkflowSchedule` is one schedule: the ticks of its CronJob, the trigger Jobs
and their pods (`RunSchedule`, `WaitForRun`, `PodFails`, `Deadline`), the runs
they admit, and the controller. The controller reads Jobs, runs and the schedule
from three caches; each follows its own watch in order, late, and independently
of the others (`DeliverJob`, `DeliverRun`, `DeliverSchedule`). A restart lists
all three. `Reconcile` lists Jobs; `ReconcileTrigger` visits one; `VerifyJob`,
`RecoverTick` and `AnnotateJob` are its writes; `PruneRuns` and `DeleteRun`
apply the limits; `RefreshStatus` writes `LastRunName`.

Abstractions. Equality of records stands for equality of resource versions; a
patch without a change is a pure check, as in `VerifyJob`. Creation times are
distinct. Phases before the end are one, "Active". Pods are over before their
Job is. The CronJob may discard a failed Job of its own history before the
controller has recorded it (`CleanJob`), which `FailureRecorded` allows for.
Unacked runs are never pruned, as in the code. Deletion and suspension of the
schedule, its finalizer and its access resources are left out.

| Run | Instance | Shows |
|---|---|---|
| `schedule_all` | 2 ticks, 1 manual run, limit 1, one retried pod, removals by people, 2 faults | `OneRunPerTick`: one run for each tick, though pods are retried, caches disagree and the run may be pruned meanwhile; `PrunesOldest`: only a run older than `Limit` others of its end is pruned, and none that a pod may still ask for; `ScheduleSettles`: failed ticks get their record, the history gets within its limits, and the status names the newest run |
| `schedule_lag` | 1 tick, limit 0, no assumption on the caches | expected violation of `RecoversTruthfully`, see below |

`PromptJobs` is the assumption under which `schedule_all` runs: the controller
has seen a Job by the time the Job's pod creates its run, and so has the
reconciliation in progress, unless it is past the Jobs. Pods take seconds to start
and the watch takes milliseconds, but nothing in the code enforces it.
`schedule_lag` drops it. How far watches lag is cut down where several
complications meet (`Scenarios`); with one tick and one fault it is not.

Finding (`schedule_lag`): the resource version protects a Job whose admission
was recorded after it was cached. A Job that is not in the list yet is neither
active nor annotated: its run, admitted and ended, is pruned, and when the Job's
failure arrives the tick is recorded as one that failed before admitting a run,
against the comment at `reconciler.go:380`.

The limits do not ask whether a run's result was handed over either
(`WorkflowRuns.PruneScheduledRun`): a run whose conversation awaits it can be
pruned before that, which `ResultArrives` allows for.

Fairness: the controller works, watches deliver, runs end and Jobs reach their
deadline.

### Proofs

`WorkflowScheduleProofs` proves for any number of ticks, runs and faults, any
limit, and any lag of each of the three watches: `TypeOK`, `OneRunPerTick`,
`RecoversTruthfully` and `PrunesOldest`. All but the first assume `PromptJobs`;
the run `schedule_lag` shows that `RecoversTruthfully` is false without it.
`PromptJobs` speaks of the moment a pod asks for its run, and of nothing else: a
Job may fail, be annotated or discarded, a run may end or be pruned, and each
cache may lag while pods are at work.

What has to be known is what an old version of a Job still tells, in the
cache, on its watch, and in the list the reconciliation took:

* a run admitted for a tick needs an unfinished Job, so a version that shows the
  Job finished (`PastActive`, `Was`) stays right about that for ever, while one
  that shows it unfinished only ever protects the run from being pruned;
* a Job that is `Settled` (complete, discarded, or annotated with its run) asks
  for no run, and no reconciliation recovers its tick, because `VerifyJob` and
  `AnnotateJob` compare with the stored version;
* `Views` and `Follows` say that a cache and the versions on its watch are
  earlier versions of the object, in order; `Visits` says what the reconciliation
  may rely on between its listing of Jobs and each of its writes;
* `RunViews`, `Outlived` and `Keeps` say the same of runs: a run that a cache shows
  as ended has that end, and whatever is marked as doomed has `Limit` younger ones.

Only model-checked: `ScheduleSettles` (liveness).

## Observer sink

`ObserverSink` is the goroutine of `internal/observer/sink.go`: it takes events
from a bounded channel (`Receive`), keeps a batch, writes it in one transaction
(`InsertBatch`), and keeps what could not be written. `pc` is where the loop is;
`select` is the choice between `Receive`, `ReceiveClosed`, `Tick` and `Shutdown`,
and a full batch or a retained one closes the receiving case (`Backpressure`).
When PostgreSQL rejects a batch, the error may name a record, which is cut out
(`Named`, `Isolate`: spans, payloads and MCP invocations are stages of their own,
so any invalid record may be the one), or none, as those of a COPY and of the
aggregates: then the batch is cut in halves, which are stacked (`Halve`, `Retain`),
until a rejected record stands alone and is given up. An attempt may fail, run out of
time, or commit and lose its answer (`InsertFails`). After cancellation the
producers return, the channel is closed, and the sink drains under a budget
(`Expire`).

An event is its position in the order of the channel. There are two kinds:
copied ones (process, file, network: an error names no row and a repetition is
a second row) and traced ones (spans and guardrail evaluations: statements of
their own that absorb a repetition). Application operations, which `insertBatch`
sorts by key, follow the traced ones. Counters and log lines are left out.

Run `observer_all`: 4 events of any kind, valid or not, batches of 3, a channel
of 2, 1 fault, cancellation at any moment. The code's channel holds four batches; a
smaller one only blocks producers earlier. A batch of three is the smallest
that is cut unevenly and whose half is cut again.

* `OnlyInvalidDiscarded`: only what PostgreSQL rejects on its own is given up;
* `NoDuplicates`: no more rows than answers were lost, one for a traced event;
* `Bounded`: what is retained never exceeds one batch;
* `StoredInOrder`: halves, remainders and new events do not overtake each other;
* `SinkSettles`: every accepted event is stored or given up unless the shutdown
  budget ends first, and a cancelled sink stops. `select` chooses at random
  among ready cases, so receiving and the ticker are strongly fair.

`ObserverSinkProofs` proves for any batch size, capacity and number of events and
faults: `TypeOK`, `NothingLost` (every event taken is stored, retained or given
up), `OnlyInvalidDiscarded`, `NoDuplicates`, `StoredInOrder`, `Bounded` and `CleanStop` (a
sink that stops within its budget leaves nothing retained and nothing in the
channel). The invariant of the first adds `Retained` (what each batch and each
stacked half may hold) and `Ended` (what was seen of the channel's end stays
true). Order and duplicates need more: the stacked batches, read from the top,
and the current batch are a sequence in the order of acceptance. The lemmas
`CutSeq`, `CutRange` and their like say what cutting does to sequences. `Bounded`
counts the places records have in memory (`Memory`: the place of a record is its
batch and its index there, so a record retained twice counts twice); `Fits`
carries it, because parts of a batch have no more places than the batch, and
only a batch that is not full, with nothing split off, takes an event. Liveness
is only model-checked.

## Evaluations

`Evaluations` is one evaluation: the same workflow run once for each of `N`
models, each finished run judged in a session of its own, everything kept in one
row. Goroutines of all replicas claim the row by a lease; `Workers` advance it,
`Cleaners` delete.

* The row: `row`, `saved` (its executions), `deleting`, `holder` (whose claim the
  lease token is) and `leased` (`lease_until` is in the future). `Expire` ends a
  lease whose holder stopped renewing it; `Outlive` lets a pass take longer than
  the lease (three minutes), which is the mishap "slow".
* A worker: `pc` is the next call of `advanceEvaluation`, `k` where its loop is,
  `res` its copy of the executions, `judge` the judges it started. Steps that
  touch nothing shared are merged with the call before them; the decision
  whether the evaluation is over and the final save are one (`Finish`,
  `Unwind`). `Visit` includes `collectEvaluationTranscript` by its outcome:
  complete, not yet, or given up two minutes after the run's end (`late`).
* A cleaner: `DeleteRuns`, `SweepSessions`, `DeleteRow`.
* Mishaps, each budgeted: a replica dies ("loss"), a call fails ("fault"), a pass
  outlives its lease ("slow"), the owner's access changes ("access"), a second
  judging is requested ("rejudge"), somebody deletes a run ("kill").

Nothing in the code sets `cancel_requested`, so only loss of access leads to
`cancelEvaluation`. Runs whose name belongs to somebody else, scores, the reading
of transcripts and the listing endpoints are left out.

Run `evaluations`: 2 executions, 1 or 2 slots, 2 workers, 1 cleaner, one mishap of
any kind, or two with one slot and no deletion (133 000 states). Two executions
are what a slot is handed over between; the second slot removes the hand-over.

* `Serial`: no more active runs than slots, unless somebody deleted a run or the
  owner lost access; and, unless a replica died, judges count too;
* `EndsQuietly`: a row that is over has nothing at work, and a deleted one goes
  last, after its runs and all judge sessions;
* `StartedOnce`: an execution recorded as started is never started again;
* `JudgmentsKept`: a judgment is in the row before the next run starts (`Durable`)
  and goes from it only on a request to judge again (`NotOverwritten`);
* `EvaluationEnds`: a queued evaluation ends or is deleted, and a deletion
  completes.

All but `NotOverwritten` and `EvaluationEnds` are stated for passes within their
lease (`Prompt`): a pass that outlives it works on without knowing. Both parts of
`Serial` have an exception, because without it they fail:

* judges, with a crash: a replica that gives up a transcript, does not get to save
  that, starts the next run and dies leaves a row in which the first execution is
  still to be collected; its successor judges it while the second run is active,
  against the comment at `evaluations.go:709`.
* runs, with a deletion: a pass starts the first run and its save is lost; somebody
  deletes that run, whose controller is still to release it; the next pass finds it
  deleted, gives it up, starts the second, and its save is lost too; once the first
  run is released, a third pass reads the row in which nothing was started, and
  starts the first again beside the second. This takes two lost saves, more than
  the budget of the run `evaluations`, and was found with a larger one.

Fairness: calls return within their timeouts, `select` chooses at random
(`Receive` is strongly fair), a deletion interrupts the worker at its next poll
(`RunEvaluationStopped`), leases pass, runs end and are finalised.

### Proofs

`EvaluationsProofs` proves for any number of replicas, executions, slots and
mishaps `TypeOK`, `JudgmentsKept` (of `SavesFirst` and `NeverOverwrites`),
`StartedOnce`, `Serial` and `EndsQuietly`, in two
layers.

`IInv` says of each worker how its copy relates to the row while the row is its
own: it holds the lease (`Held`), the row is open (`RowOpen`), it knows the row's
judgments (`Knows`) and has saved its own before it looks at runs (`HasSaved`),
what it takes for queued is queued (`Queued`), and judges work on executions that
wait for judgment (`JudgeOK`).

`QInv` says of a worker what its copy tells of runs and judges, and of the row the
same, for a worker that is still to come (`Sees`). Who works within the lease works
alone, and passes through the executions in order: those before `k` that are at
work are the ones its copy shows at work, so that when it gets to one that is
queued with a slot left (`Fitting`, `Fits`), the active runs and the judges are
counted by its copy, and none after `k` was ever started (`Untouched`,
`Ordered`). `Attended` and `Cleaning` say what a cancelling worker and a cleaner
have already been through, and `Ended` that a row which is over has nothing at
work; a step that only takes work away keeps all of it (`Ebb`).

Only model-checked: `EvaluationEnds` (liveness).

## Proofs at a glance

| Module | Theorems | From |
|---|---|---|
| `ChatInputsProofs` | `TypeCorrect`, `DeliversAtMostOnce`, `NeverGhost`, `DeliveredMeansStored`, `KeepsOrder`, `StopKeepsPromise`, `NeverInjects` | revisions and the minute; for the last three what the holder of the lock knows of the row, of Stop and of the engine |
| `ChatMailboxProofs` | `MailboxImplemented` | the same invariant |
| `CodingOperationsProofs` | `CodingTypeCorrect`, `PushesKeepRemote`, `LedgerImplemented`, `CommitsWhatWasReviewed`, `KeepsLocalCommits`, `RenamesOnlyTemporary`, `ReportsTruthfully` | what a pusher saw is an ancestor of what it pushes; a live lease is alone; what a worker still knows of the review; branches, history and pull requests only grow |
| `CodingSnapshotsProofs` | `TypeCorrect`, `NeverServesStale`, `NeverGoesBack`, `ShowsPullOfBranch` | lease and generation together |
| `WorkflowRunsProofs` | `TypeCorrect`, `PromptsOnce`, `EndsOnce`, `LeavesNothingRunning`, `KeepsLifecycle` | phases only advance, what a late cache may show, and what the controller knows of the session it cancels |
| `ObserverSinkProofs` | `TypeCorrect`, `AccountsForAll`, `GivesUpInvalid`, `StopsClean`, `StoresInOrder`, `StoresOnce`, `StaysWithinBatch` | cutting keeps elements, order and number |
| `EvaluationsProofs` | `TypeCorrect`, `KeepsJudgments`, `StartsOnce`, `SavesFirst`, `RunsAreSerial`, `RowsEndQuietly` | what the holder of the lease knows of the row, and of the runs and judges |
| `WorkflowScheduleProofs` | `TypeCorrect`, `TickHasOneRun`, `RecordsTruthfully`, `PruningTakesOldest` | what an old version of a Job or a run still tells; `PromptJobs` |

Every safety property the passing runs check is stated by one of these theorems.
Liveness under fairness is outside the prover's reach and stays with TLC.

## Not modelled

Most lines of the repository are generated (the OpenAPI server, sqlc queries,
deep copies), or are request handlers that validate their input and make one
call to PostgreSQL or to the Kubernetes API. Such a handler has no protocol state
between two steps: a model of it would restate its guards. They are listed in
`PROJECT.json` with that reason. In particular:

* *Sessions and catalogue.* Single-row updates, but for the deletion of a
  conversation, of which a run sees its part (`CloseDestination`, `CleanChat`).
  The branch of `deliverChatInput` that fails the notifications of a destination
  that is gone lives there and is left out with it.
* *Agent, sandbox and the other controllers.* Level-triggered: they render
  objects from other objects on every event; what they render is data.
* *External authorisation, secret injection, quota, guardrails, policies,
  delegation.* Decisions made for one request from what it carries and one read.
* *Observer collectors and store.* Decoding, and SQL known to `ObserverSink` only
  by its outcome.
* *Launcher, console, plug-ins, libraries, API types.* Operating-system calls,
  user interface, configuration, parsing, and generated code.

Within the modelled parts: authorisation (but for its loss during an operation),
the content of prompts, attribution, notification of browsers (`pg_notify`), v2
interrupts apart from their effect, and the several engine calls inside one
status check. The engine, PostgreSQL and Kubernetes are external.

## What would come next

* Deletion and expiry of conversations, composed with the queue.
