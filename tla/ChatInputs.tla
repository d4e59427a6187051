----------------------------- MODULE ChatInputs -----------------------------
(***************************************************************************)
(* The durable chat-input queue of ONE conversation, and the agent engine  *)
(* (OpenCode) it feeds.                                                    *)
(*                                                                         *)
(* Code: internal/gateway/queue.go, the chat_inputs statements of          *)
(* internal/gateway/db/query.sql, the admission part of opencode.go, and   *)
(* the completion and repair parts of notifications.go.                    *)
(*                                                                         *)
(* Rows of chat_inputs are the functions st, origin, delivery, mid, ... ;  *)
(* the index of a row is its `sequence'.  A process of Proc is one         *)
(* goroutine of some gateway replica: a delivery slot of runChatInputs, a  *)
(* Stop request, or the cleanup worker.  All of them serialise on one      *)
(* PostgreSQL advisory lock (`lock').  One action is one database          *)
(* statement or one HTTP call, so processes, browsers and the engine       *)
(* interleave between them.                                                *)
(***************************************************************************)
EXTENDS Naturals, FiniteSets

CONSTANTS
    Proc,          \* gateway goroutines that deliver, stop or repair
    None,          \* "nobody holds the admission lock"
    MaxInputs,     \* bound: rows of the conversation
    MaxAttempts,   \* bound: message ids allocated for one row
    MaxFaults,     \* bound: errors, timeouts, crashes, lost access
    MaxStops,      \* bound: Stop requests by people
    MaxLosses,     \* bound: lost lock connections
    Origins,       \* which origins are submitted: "user", "background"
    Direct         \* prompts that bypass the queue through the proxy

ASSUME NoneAssumption == None \notin Proc
ASSUME BoundsAssumption ==
    /\ MaxInputs \in Nat /\ MaxAttempts \in Nat /\ MaxFaults \in Nat
    /\ MaxStops \in Nat /\ MaxLosses \in Nat
ASSUME OriginsAssumption == Origins \subseteq {"user", "background"}

Inputs == 1 .. MaxInputs

States == {"absent", "queued", "sending", "delivered", "failed", "recovered",
           "removed"}

\* Where a goroutine stands.  "picked" waits for the lock; the others hold it
\* (unless its connection was lost).
DeliverPCs == {"status", "history", "lease", "send", "prompt", "complete"}
ReconcilePCs == {"message", "clock", "quiet", "recheck"}
StopPCs == {"stop", "halt", "gauge", "wait", "recover", "clear"}
PCs == {"idle", "picked"} \cup DeliverPCs \cup ReconcilePCs \cup StopPCs

\* The last turn of the engine.  "pending": the user message is stored but the
\* run has not begun; "asking": the run waits for a permission or an answer;
\* "stalled": interrupted without a completed assistant message; "toolcalls":
\* the assistant message completed without a final finish reason.
Turns == {"empty", "pending", "running", "asking", "stalled", "toolcalls",
          "done", "error"}
Busy == {"running", "asking"}          \* session status is not idle
Active == Busy \cup {"pending"}        \* execution is or will be under way

VARIABLES
    st,         \* chat_inputs.state
    origin,     \* chat_inputs.origin
    delivery,   \* chat_inputs.delivery: "queue" or "steer"
    mid,        \* chat_inputs.message_id, 0 for ''
    att,        \* number of message ids ever allocated for the row
    resume,     \* chat_inputs.resume
    completed,  \* chat_inputs.completed_at is set
    aged,       \* a minute has passed since chat_inputs.updated_at
    stopping,   \* chat_input_sessions.stopping
    lock,       \* holder of the session-admission advisory lock
    pc,         \* control point of a goroutine
    job,        \* the row a goroutine works on (0: none)
    mode,       \* reconcileChatInput's caller: "deliver" or "stop"
    sent,       \* message id in the prompt body a goroutine has built
    fresh,      \* rows of which a goroutine's copy has the current revision
    listed,     \* settleChatStop: rows not yet known to be resolved
    settled,    \* settleChatStop: the previous round saw admission and idle
    flight,     \* attempts the engine accepted and has not stored
    hist,       \* attempts stored in the engine's history
    turn,       \* state of the engine's last turn
    turnAged,   \* a minute has passed since the last turn's last event
    direct,     \* life of each direct prompt
    faults, stops, losses

rowVars == <<st, origin, delivery, mid, att, resume, completed, aged>>
procVars == <<pc, job, mode, sent, fresh, listed, settled>>
engineVars == <<flight, hist, turn, turnAged>>
budgets == <<faults, stops, losses>>
vars == <<rowVars, stopping, lock, procVars, engineVars, direct, budgets>>

DirectStates == {"none", "leased", "flying", "served", "done"}

TypeOK ==
    /\ st \in [Inputs -> States]
    /\ origin \in [Inputs -> {"user", "background"}]
    /\ delivery \in [Inputs -> {"queue", "steer"}]
    /\ mid \in [Inputs -> Nat]
    /\ att \in [Inputs -> Nat]
    /\ resume \in [Inputs -> BOOLEAN]
    /\ completed \in [Inputs -> BOOLEAN]
    /\ aged \in [Inputs -> BOOLEAN]
    /\ stopping \in BOOLEAN
    /\ lock \in Proc \cup {None}
    /\ pc \in [Proc -> PCs]
    /\ job \in [Proc -> Inputs \cup {0}]
    /\ mode \in [Proc -> {"deliver", "stop"}]
    /\ sent \in [Proc -> Nat]
    /\ fresh \in [Proc -> SUBSET Inputs]
    /\ listed \in [Proc -> SUBSET Inputs]
    /\ settled \in [Proc -> BOOLEAN]
    /\ flight \in [Inputs -> SUBSET Nat]
    /\ hist \in [Inputs -> SUBSET Nat]
    /\ turn \in Turns
    /\ turnAged \in BOOLEAN
    /\ direct \in [Direct -> DirectStates]
    /\ faults \in Nat /\ stops \in Nat /\ losses \in Nat

Init ==
    /\ st = [i \in Inputs |-> "absent"]
    /\ origin = [i \in Inputs |-> "user"]
    /\ delivery = [i \in Inputs |-> "queue"]
    /\ mid = [i \in Inputs |-> 0]
    /\ att = [i \in Inputs |-> 0]
    /\ resume = [i \in Inputs |-> FALSE]
    /\ completed = [i \in Inputs |-> FALSE]
    /\ aged = [i \in Inputs |-> FALSE]
    /\ stopping = FALSE
    /\ lock = None
    /\ pc = [p \in Proc |-> "idle"]
    /\ job = [p \in Proc |-> 0]
    /\ mode = [p \in Proc |-> "deliver"]
    /\ sent = [p \in Proc |-> 0]
    /\ fresh = [p \in Proc |-> {}]
    /\ listed = [p \in Proc |-> {}]
    /\ settled = [p \in Proc |-> FALSE]
    /\ flight = [i \in Inputs |-> {}]
    /\ hist = [i \in Inputs |-> {}]
    /\ turn = "empty"
    /\ turnAged = FALSE
    /\ direct = [d \in Direct |-> "none"]
    /\ faults = 0 /\ stops = 0 /\ losses = 0

-----------------------------------------------------------------------------
(***************************************************************************)
(* The rows: ranking and compare-and-swap.                                 *)
(***************************************************************************)
User(i) == origin[i] = "user"

\* A message id is outstanding: sending, or failed by a loss of access.
Outstanding(i) == st[i] = "sending" \/ (st[i] = "failed" /\ mid[i] # 0)

\* GatewayPendingChatInputs: rows a worker looks at, and their rank.
Pending(i) ==
    \/ st[i] \in {"queued", "sending", "failed"} /\ (User(i) \/ ~completed[i])
    \/ ~User(i) /\ st[i] = "delivered" /\ ~completed[i]

PickRank(i) ==
    IF Outstanding(i) THEN 0
    ELSE IF ~User(i) THEN (IF st[i] = "delivered" THEN 2 ELSE 4)
    ELSE IF delivery[i] = "steer" /\ st[i] = "queued" THEN 1 ELSE 3

IsPick(i) ==
    /\ Pending(i)
    /\ \A j \in Inputs \ {i} : Pending(j) =>
          \/ PickRank(i) < PickRank(j)
          \/ PickRank(i) = PickRank(j) /\ i < j

\* GatewayHeadChatInput: the only row that may be admitted.
Waiting(i) ==
    st[i] \in {"queued", "sending", "failed"} /\ (User(i) \/ ~completed[i])

HeadRank(i) ==
    IF Outstanding(i) THEN 0
    ELSE IF ~User(i) THEN 3
    ELSE IF delivery[i] = "steer" /\ st[i] = "queued" THEN 1 ELSE 2

IsHead(i) ==
    /\ Waiting(i)
    /\ \A j \in Inputs \ {i} : Waiting(j) =>
          \/ HeadRank(i) < HeadRank(j)
          \/ HeadRank(i) = HeadRank(j) /\ i < j

\* A successful GatewayUpdateChatInput: revision + 1 makes every other copy of
\* the row stale, updated_at = now() restarts its minute.
Wrote(i, s, m) ==
    /\ st' = [st EXCEPT ![i] = s]
    /\ mid' = [mid EXCEPT ![i] = m]
    /\ aged' = [aged EXCEPT ![i] = FALSE]

\* Copies after a write of row i by p, which is left with the copies own.
Stale(i, p, own) ==
    fresh' = [q \in Proc |-> IF q = p THEN own ELSE fresh[q] \ {i}]

Goto(p, l) ==
    /\ pc' = [pc EXCEPT ![p] = l]
    /\ UNCHANGED <<job, mode, sent, fresh, listed, settled, lock>>

\* The handler returns: its deferred releases run and its locals are gone.
Locals(p) ==
    /\ pc' = [pc EXCEPT ![p] = "idle"]
    /\ job' = [job EXCEPT ![p] = 0]
    /\ mode' = [mode EXCEPT ![p] = "deliver"]
    /\ sent' = [sent EXCEPT ![p] = 0]
    /\ listed' = [listed EXCEPT ![p] = {}]
    /\ settled' = [settled EXCEPT ![p] = FALSE]
    /\ lock' = IF lock = p THEN None ELSE lock

Return(p) == Locals(p) /\ fresh' = [fresh EXCEPT ![p] = {}]

\* GatewayResourceBusy: some direct prompt holds its execution lease.
Leased == \E d \in Direct : direct[d] \in {"leased", "served"}

-----------------------------------------------------------------------------
(***************************************************************************)
(* Requests: short handlers that hold the lock from start to end.          *)
(***************************************************************************)
NewRow(i, o, d) ==
    /\ lock = None
    /\ st[i] = "absent"
    /\ \A j \in Inputs : j < i => st[j] # "absent"
    /\ st' = [st EXCEPT ![i] = "queued"]
    /\ origin' = [origin EXCEPT ![i] = o]
    /\ delivery' = [delivery EXCEPT ![i] = d]
    /\ UNCHANGED <<mid, att, resume, completed, aged, stopping, lock,
                   procVars, engineVars, direct, budgets>>

Submit(i, d) == "user" \in Origins /\ NewRow(i, "user", d)

EnqueueBackground(i) ==
    "background" \in Origins /\ NewRow(i, "background", "queue")

Editable(i) ==
    /\ User(i)
    /\ mid[i] = 0
    /\ st[i] \notin {"absent", "sending", "delivered", "removed"}

\* UpdateChatInput with its action; the request's revision is the row's.
Update(i, s, d, r) ==
    /\ lock = None
    /\ Editable(i)
    /\ Wrote(i, s, mid[i])
    /\ delivery' = [delivery EXCEPT ![i] = d]
    /\ resume' = [resume EXCEPT ![i] = r]
    /\ fresh' = [q \in Proc |-> fresh[q] \ {i}]
    /\ UNCHANGED <<origin, att, completed, stopping, lock, pc, job, mode, sent,
                   listed, settled, engineVars, direct, budgets>>

Edit(i) == Update(i, st[i], delivery[i], resume[i])
Steer(i) == st[i] = "queued" /\ Update(i, "queued", "steer", resume[i])
Retry(i) == Update(i, "queued", delivery[i], TRUE)
Remove(i) == Update(i, "removed", delivery[i], resume[i])

-----------------------------------------------------------------------------
(***************************************************************************)
(* deliverChatInput.                                                       *)
(***************************************************************************)
\* runChatInputs reads the most urgent row; a user row that failed without a
\* message id holds the conversation until its author acts.
Pick(p, i) ==
    /\ pc[p] = "idle"
    /\ IsPick(i)
    /\ ~(User(i) /\ st[i] = "failed" /\ mid[i] = 0)
    /\ pc' = [pc EXCEPT ![p] = "picked"]
    /\ job' = [job EXCEPT ![p] = i]
    /\ fresh' = [fresh EXCEPT ![p] = {i}]
    /\ UNCHANGED <<rowVars, stopping, lock, mode, sent, listed, settled,
                   engineVars, direct, budgets>>

\* The author lost access: the copy read BEFORE the lock is saved as failed,
\* with whatever message id it holds; a stale copy changes nothing.
Denied(p) ==
    LET i == job[p] IN
    /\ pc[p] = "picked"
    /\ lock = None
    /\ faults < MaxFaults
    /\ faults' = faults + 1
    /\ Locals(p)
    /\ \/ /\ User(i) /\ i \in fresh[p]
          /\ Wrote(i, "failed", mid[i])
          /\ Stale(i, p, {})
       \/ /\ ~(User(i) /\ i \in fresh[p])
          /\ fresh' = [fresh EXCEPT ![p] = {}]
          /\ UNCHANGED <<st, mid, aged>>
    /\ UNCHANGED <<origin, delivery, att, resume, completed, stopping,
                   engineVars, direct, stops, losses>>

\* The row as re-read under the lock decides what the worker does.
Finished(i) == st[i] = "delivered" \/ (st[i] = "failed" /\ mid[i] = 0)

\* Mutant: only queued rows are worked on after a restart.
DeliverableQueued(i) == ~(~User(i) /\ completed[i]) /\ st[i] = "queued"

Deliverable(i) ==
    /\ ~(~User(i) /\ completed[i])
    /\ st[i] = "queued" \/ Outstanding(i)

Acquire(p, l) ==
    /\ lock = None
    /\ lock' = p
    /\ pc' = [pc EXCEPT ![p] = l]
    /\ fresh' = [fresh EXCEPT ![p] = {job[p]}]
    /\ UNCHANGED <<rowVars, stopping, job, mode, sent, listed, settled,
                   engineVars, direct, budgets>>

AcquireCompletion(p) ==
    /\ pc[p] = "picked"
    /\ ~User(job[p]) /\ ~completed[job[p]] /\ Finished(job[p])
    /\ Acquire(p, "complete")

AcquireReconcile(p) ==
    /\ pc[p] = "picked"
    /\ Deliverable(job[p]) /\ ~stopping /\ mid[job[p]] # 0
    /\ Acquire(p, "message")

\* Mutant: the head of the conversation is not looked up.
AcquireAny(p) ==
    /\ pc[p] = "picked"
    /\ Deliverable(job[p]) /\ ~stopping /\ mid[job[p]] = 0
    /\ att[job[p]] < MaxAttempts
    /\ Acquire(p, "status")

\* MaxAttempts bounds the ids: a row that used them all is left alone.
AcquireHead(p) ==
    /\ pc[p] = "picked"
    /\ Deliverable(job[p]) /\ ~stopping /\ mid[job[p]] = 0
    /\ IsHead(job[p])
    /\ att[job[p]] < MaxAttempts
    /\ Acquire(p, "status")

\* Every early return of deliverChatInput once it has the lock.
AcquireNothing(p) ==
    LET i == job[p] IN
    /\ pc[p] = "picked"
    /\ lock = None
    /\ ~(~User(i) /\ ~completed[i] /\ Finished(i))
    /\ \/ ~Deliverable(i)
       \/ ~stopping /\ mid[i] = 0 /\ (~IsHead(i) \/ att[i] >= MaxAttempts)
    /\ Return(p)
    /\ UNCHANGED <<rowVars, stopping, engineVars, direct, budgets>>

\* Mutant: status alone is trusted, the history is not read.
ReadStatusOnly(p) ==
    LET held == turn = "asking" \/ (delivery[job[p]] = "queue" /\ turn \in Busy) IN
    /\ pc[p] = "status"
    /\ \/ held /\ Return(p)
       \/ ~held /\ Goto(p, "send")
    /\ UNCHANGED <<rowVars, stopping, engineVars, direct, budgets>>

\* SessionStatus, PermissionList and QuestionList.
ReadStatus(p) ==
    LET i == job[p]
        held == turn = "asking" \/ (delivery[i] = "queue" /\ turn \in Busy) IN
    /\ pc[p] = "status"
    /\ \/ held /\ Return(p)
       \/ ~held /\ Goto(p, IF delivery[i] = "queue" THEN "history" ELSE "send")
    /\ UNCHANGED <<rowVars, stopping, engineVars, direct, budgets>>

\* SessionMessages: is the last turn unfinished?
Unfinished(i) ==
    \/ turn \in Active \cup {"stalled"}
    \/ turn = "toolcalls" /\ ~resume[i]

ReadHistory(p) ==
    LET i == job[p] IN
    /\ pc[p] = "history"
    /\ \/ /\ turn = "error" /\ ~resume[i] /\ User(i) /\ i \in fresh[p]
          /\ Wrote(i, "failed", 0)
          /\ Stale(i, p, {})
          /\ Locals(p)
       \/ /\ turn = "error" /\ ~resume[i] /\ User(i) /\ i \notin fresh[p]
          /\ Return(p)
          /\ UNCHANGED <<st, mid, aged>>
       \/ /\ ~(turn = "error" /\ ~resume[i] /\ User(i))
          /\ ~Unfinished(i)
          /\ Goto(p, "send")
          /\ UNCHANGED <<st, mid, aged>>
       \/ /\ Unfinished(i) /\ turnAged
          /\ Goto(p, "lease")
          /\ UNCHANGED <<st, mid, aged>>
       \/ /\ Unfinished(i) /\ ~turnAged
          /\ Return(p)
          /\ UNCHANGED <<st, mid, aged>>
    /\ UNCHANGED <<origin, delivery, att, resume, completed, stopping,
                   engineVars, direct, budgets>>

\* GatewayResourceBusy, asked only when the last turn is unfinished.
ReadLease(p) ==
    /\ pc[p] = "lease"
    /\ \/ Leased /\ Return(p)
       \/ ~Leased /\ Goto(p, "send")
    /\ UNCHANGED <<rowVars, stopping, engineVars, direct, budgets>>

\* Mutant: a state the table does not know.
SaveSent(p) ==
    LET i == job[p] IN
    /\ pc[p] = "send"
    /\ i \in fresh[p]
    /\ Wrote(i, "sent", att[i] + 1)
    /\ att' = [att EXCEPT ![i] = @ + 1]
    /\ Stale(i, p, {i})
    /\ sent' = [sent EXCEPT ![p] = att[i] + 1]
    /\ pc' = [pc EXCEPT ![p] = "prompt"]
    /\ UNCHANGED <<origin, delivery, resume, completed, stopping, lock, job,
                   mode, listed, settled, engineVars, direct, budgets>>

\* A new message id is allocated and saved with state sending before the call.
SaveSending(p) ==
    LET i == job[p] IN
    /\ pc[p] = "send"
    /\ i \in fresh[p]
    /\ Wrote(i, "sending", att[i] + 1)
    /\ att' = [att EXCEPT ![i] = @ + 1]
    /\ Stale(i, p, {i})
    /\ sent' = [sent EXCEPT ![p] = att[i] + 1]
    /\ pc' = [pc EXCEPT ![p] = "prompt"]
    /\ UNCHANGED <<origin, delivery, resume, completed, stopping, lock, job,
                   mode, listed, settled, engineVars, direct, budgets>>

SaveStale(p) ==
    /\ pc[p] = "send"
    /\ job[p] \notin fresh[p]
    /\ Return(p)
    /\ UNCHANGED <<rowVars, stopping, engineVars, direct, budgets>>

\* prompt_async was received.  204, an uncertain answer and no answer at all
\* leave the row alike: sending, for reconciliation.
PromptAccepted(p) ==
    LET i == job[p] IN
    /\ pc[p] = "prompt"
    /\ flight' = [flight EXCEPT ![i] = @ \cup {sent[p]}]
    /\ Return(p)
    /\ UNCHANGED <<rowVars, stopping, hist, turn, turnAged, direct, budgets>>

\* A 4xx answer: the engine did not and will not take the message.
PromptRejected(p) ==
    LET i == job[p] IN
    /\ pc[p] = "prompt"
    /\ faults < MaxFaults
    /\ faults' = faults + 1
    /\ Locals(p)
    /\ \/ /\ i \in fresh[p]
          /\ Wrote(i, "failed", 0)
          /\ Stale(i, p, {})
       \/ /\ i \notin fresh[p]
          /\ fresh' = [fresh EXCEPT ![p] = {}]
          /\ UNCHANGED <<st, mid, aged>>
    /\ UNCHANGED <<origin, delivery, att, resume, completed, stopping,
                   engineVars, direct, stops, losses>>

\* completeBackgroundInput: the turn that the notification started is over, or
\* idle without a final message for a minute.  Only the last turn is kept, so a
\* message stored behind it delays the completion.
CompleteBackground(p) ==
    LET i == job[p]
        over == \/ st[i] = "failed"
                \/ turn \notin Busy /\ (turn \in {"done", "error"} \/ aged[i]) IN
    /\ pc[p] = "complete"
    /\ \/ /\ over /\ ~completed[i] /\ ~User(i)
          /\ \E s \in {st[i], "failed"} : Wrote(i, s, mid[i])
          /\ completed' = [completed EXCEPT ![i] = TRUE]
          /\ Stale(i, p, {})
          /\ Locals(p)
       \/ /\ ~over \/ completed[i]
          /\ Return(p)
          /\ UNCHANGED <<st, mid, aged, completed>>
    /\ UNCHANGED <<origin, delivery, att, resume, stopping, engineVars, direct,
                   budgets>>

-----------------------------------------------------------------------------
(***************************************************************************)
(* reconcileChatInput, called by delivery and by Stop.                     *)
(***************************************************************************)
\* The row was saved: delivery returns, Stop goes on with the next row.
Resolved(p, s, m) ==
    LET i == job[p] IN
    /\ Wrote(i, s, m)
    /\ \/ /\ mode[p] = "deliver"
          /\ Locals(p)
          /\ Stale(i, p, {})
       \/ /\ mode[p] = "stop"
          /\ pc' = [pc EXCEPT ![p] = "stop"]
          /\ job' = [job EXCEPT ![p] = 0]
          /\ listed' = [listed EXCEPT ![p] = @ \ {i}]
          /\ Stale(i, p, fresh[p] \ {i})
          /\ UNCHANGED <<mode, sent, settled, lock>>

\* Nothing was saved: delivery returns, Stop ends this round of rows.
Unresolved(p) ==
    /\ \/ mode[p] = "deliver" /\ Return(p)
       \/ /\ mode[p] = "stop"
          /\ pc' = [pc EXCEPT ![p] = "halt"]
          /\ job' = [job EXCEPT ![p] = 0]
          /\ UNCHANGED <<mode, sent, fresh, listed, settled, lock>>
    /\ UNCHANGED <<st, mid, aged>>

Stored(i) == mid[i] \in hist[i]

\* A stale copy can only end in a refused save or in no save.
ReadMessage(p) ==
    LET i == job[p] IN
    /\ pc[p] = "message"
    /\ \/ i \notin fresh[p] /\ Unresolved(p)
       \/ i \in fresh[p] /\ Stored(i) /\ Resolved(p, "delivered", mid[i])
       \/ /\ i \in fresh[p] /\ ~Stored(i)
          /\ Goto(p, "clock")
          /\ UNCHANGED <<st, mid, aged>>
    /\ UNCHANGED <<origin, delivery, att, resume, completed, stopping,
                   engineVars, direct, budgets>>

\* Mutant: a missing message is released before its minute is over.
CheckNoClock(p) ==
    /\ pc[p] = "clock"
    /\ \/ job[p] \notin fresh[p] /\ Unresolved(p)
       \/ job[p] \in fresh[p] /\ Goto(p, "quiet") /\ UNCHANGED <<st, mid, aged>>
    /\ UNCHANGED <<origin, delivery, att, resume, completed, stopping,
                   engineVars, direct, budgets>>

CheckClock(p) ==
    LET i == job[p]
        old == i \in fresh[p] /\ aged[i] IN
    /\ pc[p] = "clock"
    /\ \/ ~old /\ Unresolved(p)
       \/ old /\ Goto(p, "quiet") /\ UNCHANGED <<st, mid, aged>>
    /\ UNCHANGED <<origin, delivery, att, resume, completed, stopping,
                   engineVars, direct, budgets>>

CheckQuiet(p) ==
    LET quiet == turn \notin Busy /\ ~Leased IN
    /\ pc[p] = "quiet"
    /\ \/ ~quiet /\ Unresolved(p)
       \/ quiet /\ Goto(p, "recheck") /\ UNCHANGED <<st, mid, aged>>
    /\ UNCHANGED <<origin, delivery, att, resume, completed, stopping,
                   engineVars, direct, budgets>>

\* Mutant: the message is not read again after status and leases.
RecheckSkipped(p) ==
    LET i == job[p] IN
    /\ pc[p] = "recheck"
    /\ \/ i \notin fresh[p] /\ Unresolved(p)
       \/ /\ i \in fresh[p]
          /\ Resolved(p, IF User(i) THEN "failed" ELSE "queued", 0)
    /\ UNCHANGED <<origin, delivery, att, resume, completed, stopping,
                   engineVars, direct, budgets>>

Recheck(p) ==
    LET i == job[p] IN
    /\ pc[p] = "recheck"
    /\ \/ i \notin fresh[p] /\ Unresolved(p)
       \/ i \in fresh[p] /\ Stored(i) /\ Resolved(p, "delivered", mid[i])
       \/ /\ i \in fresh[p] /\ ~Stored(i)
          /\ Resolved(p, IF User(i) THEN "failed" ELSE "queued", 0)
    /\ UNCHANGED <<origin, delivery, att, resume, completed, stopping,
                   engineVars, direct, budgets>>

-----------------------------------------------------------------------------
(***************************************************************************)
(* settleChatStop, entered by a Stop request, by the cleanup worker and by *)
(* a delivery that finds the barrier up.                                   *)
(***************************************************************************)
\* GatewayListChatInputs keeps user rows only; rows without a message id need
\* no reconciliation.
ToReconcile ==
    {i \in Inputs : /\ User(i) /\ mid[i] # 0
                    /\ st[i] \notin {"absent", "delivered", "removed"}}

EnterStop(p) ==
    /\ lock = None
    /\ lock' = p
    /\ stopping' = TRUE
    /\ pc' = [pc EXCEPT ![p] = "stop"]
    /\ job' = [job EXCEPT ![p] = 0]
    /\ mode' = [mode EXCEPT ![p] = "stop"]
    /\ listed' = [listed EXCEPT ![p] = ToReconcile]
    /\ fresh' = [fresh EXCEPT ![p] = ToReconcile]
    /\ settled' = [settled EXCEPT ![p] = FALSE]
    /\ UNCHANGED <<rowVars, sent, engineVars, direct, faults, losses>>

StopRequest(p) ==
    /\ pc[p] = "idle"
    /\ stops < MaxStops
    /\ stops' = stops + 1
    /\ EnterStop(p)

RepairStop(p) ==
    /\ pc[p] = "idle"
    /\ stopping
    /\ EnterStop(p)
    /\ UNCHANGED stops

JoinStop(p) ==
    /\ pc[p] = "picked"
    /\ Deliverable(job[p])
    /\ stopping
    /\ EnterStop(p)
    /\ UNCHANGED stops

\* The rows are visited in sequence until one stays unresolved.
StopReconcile(p, i) ==
    /\ pc[p] = "stop"
    /\ i \in listed[p] /\ \A j \in listed[p] : i <= j
    /\ job' = [job EXCEPT ![p] = i]
    /\ pc' = [pc EXCEPT ![p] = "message"]
    /\ UNCHANGED <<rowVars, stopping, lock, mode, sent, fresh, listed, settled,
                   engineVars, direct, budgets>>

StopVisited(p) ==
    /\ pc[p] = "stop"
    /\ listed[p] = {}
    /\ Goto(p, "halt")
    /\ UNCHANGED <<rowVars, stopping, engineVars, direct, budgets>>

\* SessionAbort cancels a run under way; it misses one that has not begun.
StopAbort(p) ==
    /\ pc[p] = "halt"
    /\ \/ turn \in Busy /\ turn' \in {"stalled", "error"} /\ turnAged' = FALSE
       \/ turn \notin Busy /\ UNCHANGED <<turn, turnAged>>
    /\ Goto(p, "gauge")
    /\ UNCHANGED <<rowVars, stopping, flight, hist, direct, budgets>>

\* Mutant: one good round is enough.
StopGaugeOnce(p) ==
    LET good == listed[p] = {} /\ ~Leased /\ turn \notin Busy IN
    /\ pc[p] = "gauge"
    /\ pc' = [pc EXCEPT ![p] = IF good THEN "recover" ELSE "wait"]
    /\ settled' = [settled EXCEPT ![p] = good]
    /\ UNCHANGED <<rowVars, stopping, lock, job, mode, sent, fresh, listed,
                   engineVars, direct, budgets>>

\* SessionStatus and GatewayResourceBusy; two good rounds in a row confirm.
StopGauge(p) ==
    LET good == listed[p] = {} /\ ~Leased /\ turn \notin Busy IN
    /\ pc[p] = "gauge"
    /\ pc' = [pc EXCEPT ![p] = IF good /\ settled[p] THEN "recover" ELSE "wait"]
    /\ settled' = [settled EXCEPT ![p] = good]
    /\ UNCHANGED <<rowVars, stopping, lock, job, mode, sent, fresh, listed,
                   engineVars, direct, budgets>>

\* The 250 ms tick.  Timing assumption: a stored prompt begins to run, or is
\* dead, before the tick ends.
StopWait(p) ==
    /\ pc[p] = "wait"
    /\ turn # "pending"
    /\ Goto(p, "stop")
    /\ UNCHANGED <<rowVars, stopping, engineVars, direct, budgets>>

\* The 10 s deadline: the barrier stays up.  (A deadline that strikes between
\* two good rounds is a fault, GiveUp.)
StopTimeout(p) ==
    /\ pc[p] = "wait"
    /\ ~settled[p]
    /\ Return(p)
    /\ UNCHANGED <<rowVars, stopping, engineVars, direct, budgets>>

\* GatewayRecoverChatInputs, one statement over all rows.
Canceled(i) == ~User(i) /\ st[i] # "absent" /\ ~completed[i]
Recovered(i) == User(i) /\ st[i] \in {"queued", "failed"} /\ mid[i] = 0

StopRecover(p) ==
    LET hit == {i \in Inputs : Canceled(i) \/ Recovered(i)} IN
    /\ pc[p] = "recover"
    /\ st' = [i \in Inputs |-> IF Canceled(i) THEN "removed"
                               ELSE IF Recovered(i) THEN "recovered" ELSE st[i]]
    /\ completed' = [i \in Inputs |-> completed[i] \/ Canceled(i)]
    /\ aged' = [i \in Inputs |-> aged[i] /\ i \notin hit]
    /\ fresh' = [q \in Proc |-> fresh[q] \ hit]
    /\ pc' = [pc EXCEPT ![p] = "clear"]
    /\ UNCHANGED <<origin, delivery, mid, att, resume, stopping, lock, job,
                   mode, sent, listed, settled, engineVars, direct, budgets>>

StopClear(p) ==
    /\ pc[p] = "clear"
    /\ stopping' = FALSE
    /\ Return(p)
    /\ UNCHANGED <<rowVars, engineVars, direct, budgets>>

-----------------------------------------------------------------------------
(***************************************************************************)
(* Failures and time.                                                      *)
(***************************************************************************)
\* An error, a timeout or a crash of the gateway ends a handler anywhere; the
\* closed connection releases the lock.  An error inside reconcileChatInput
\* ends only Stop's round over the rows.
GiveUp(p) ==
    /\ pc[p] # "idle"
    /\ faults < MaxFaults
    /\ faults' = faults + 1
    /\ \/ Return(p) /\ UNCHANGED <<st, mid, aged>>
       \/ pc[p] \in ReconcilePCs /\ Unresolved(p)
    /\ UNCHANGED <<origin, delivery, att, resume, completed, stopping,
                   engineVars, direct, stops, losses>>

\* The connection that carries the advisory lock dies; its holder, which does
\* IO on other connections, does not notice.
LoseLock ==
    /\ lock # None
    /\ losses < MaxLosses
    /\ losses' = losses + 1
    /\ lock' = None
    /\ UNCHANGED <<rowVars, stopping, procVars, engineVars, direct, faults,
                   stops>>

\* A minute passes; only rows with a message id are ever asked for their age.
\* Timing assumption (queue.go relies on it): a prompt leaves
\* the gateway within its 20 s context, and the engine stores what it accepted,
\* or never will, before the row is a minute old.
Age(i) ==
    /\ Outstanding(i) \/ (st[i] = "delivered" /\ ~User(i) /\ ~completed[i])
    /\ ~aged[i]
    /\ flight[i] = {}
    /\ \A p \in Proc : ~(pc[p] = "prompt" /\ job[p] = i)
    /\ aged' = [aged EXCEPT ![i] = TRUE]
    /\ UNCHANGED <<st, origin, delivery, mid, att, resume, completed, stopping,
                   lock, procVars, engineVars, direct, budgets>>

-----------------------------------------------------------------------------
(***************************************************************************)
(* The engine, external: modelled from what the gateway relies on.         *)
(***************************************************************************)
\* A message stored during a run joins it; otherwise it starts a turn.
Arrived ==
    /\ turn' = IF turn \in Busy THEN turn ELSE "pending"
    /\ turnAged' = FALSE

Persist(i, k) ==
    /\ k \in flight[i]
    /\ flight' = [flight EXCEPT ![i] = @ \ {k}]
    /\ hist' = [hist EXCEPT ![i] = @ \cup {k}]
    /\ Arrived
    /\ UNCHANGED <<rowVars, stopping, lock, procVars, direct, budgets>>

Drop(i, k) ==
    /\ k \in flight[i]
    /\ flight' = [flight EXCEPT ![i] = @ \ {k}]
    /\ UNCHANGED <<rowVars, stopping, lock, procVars, hist, turn, turnAged,
                   direct, budgets>>

\* begin, ask, answer, finish, or be interrupted
TurnSteps ==
    {<<"pending", "running">>, <<"pending", "stalled">>, <<"running", "asking">>,
     <<"asking", "running">>, <<"asking", "stalled">>, <<"running", "done">>,
     <<"running", "error">>, <<"running", "toolcalls">>, <<"running", "stalled">>}

TurnStep(t) ==
    /\ <<turn, t>> \in TurnSteps
    /\ turn' = t
    /\ turnAged' = FALSE
    /\ UNCHANGED <<rowVars, stopping, lock, procVars, flight, hist, direct,
                   budgets>>

\* Timing assumption: a pending turn begins, or is dead, within the minute.
TurnAge ==
    /\ turn \in {"stalled", "toolcalls"}
    /\ ~turnAged
    /\ turnAged' = TRUE
    /\ UNCHANGED <<rowVars, stopping, lock, procVars, flight, hist, turn,
                   direct, budgets>>

(***************************************************************************)
(* Direct prompts (opencode.go): the lock is held only for the admission   *)
(* check; a shared execution lease covers the call itself.                 *)
(***************************************************************************)
DirectUnchanged == UNCHANGED <<rowVars, stopping, lock, procVars, flight, hist,
                               budgets>>

DirectAdmit(d) ==
    /\ direct[d] = "none"
    /\ lock = None
    /\ ~stopping
    /\ direct' = [direct EXCEPT ![d] = "leased"]
    /\ UNCHANGED <<turn, turnAged>>
    /\ DirectUnchanged

\* prompt_async answers, and the lease ends, before the message is stored.
DirectAcknowledge(d) ==
    /\ direct[d] = "leased"
    /\ direct' = [direct EXCEPT ![d] = "flying"]
    /\ UNCHANGED <<turn, turnAged>>
    /\ DirectUnchanged

DirectPersist(d) ==
    /\ \/ direct[d] = "leased" /\ direct' = [direct EXCEPT ![d] = "served"]
       \/ direct[d] = "flying" /\ direct' = [direct EXCEPT ![d] = "done"]
    /\ Arrived
    /\ DirectUnchanged

\* The synchronous call returns with the end of its turn, or fails before.
DirectEnd(d) ==
    /\ \/ direct[d] \in {"leased", "flying"}
       \/ direct[d] = "served" /\ turn \notin Active
    /\ direct' = [direct EXCEPT ![d] = "done"]
    /\ UNCHANGED <<turn, turnAged>>
    /\ DirectUnchanged

-----------------------------------------------------------------------------
Requests ==
    \E i \in Inputs :
        \/ \E d \in {"queue", "steer"} : Submit(i, d)
        \/ EnqueueBackground(i)
        \/ Edit(i) \/ Steer(i) \/ Retry(i) \/ Remove(i)

Deliver(p) ==
    \/ \E i \in Inputs : Pick(p, i)
    \/ Denied(p)
    \/ AcquireCompletion(p) \/ AcquireReconcile(p) \/ AcquireHead(p)
    \/ AcquireNothing(p)
    \/ ReadStatus(p) \/ ReadHistory(p) \/ ReadLease(p)
    \/ SaveSending(p) \/ SaveStale(p)
    \/ PromptAccepted(p) \/ PromptRejected(p)
    \/ CompleteBackground(p)

Reconcile(p) == ReadMessage(p) \/ CheckClock(p) \/ CheckQuiet(p) \/ Recheck(p)

Stop(p) ==
    \/ StopRequest(p) \/ RepairStop(p) \/ JoinStop(p)
    \/ \E i \in Inputs : StopReconcile(p, i)
    \/ StopVisited(p) \/ StopAbort(p) \/ StopGauge(p) \/ StopWait(p)
    \/ StopTimeout(p) \/ StopRecover(p) \/ StopClear(p)

Engine ==
    \/ \E i \in Inputs : \E k \in flight[i] : Persist(i, k) \/ Drop(i, k)
    \/ \E t \in Turns : TurnStep(t)
    \/ TurnAge

DirectPrompt ==
    \E d \in Direct : DirectAdmit(d) \/ DirectAcknowledge(d) \/ DirectPersist(d)
                      \/ DirectEnd(d)

Next ==
    \/ Requests
    \/ \E p \in Proc : Deliver(p) \/ Reconcile(p) \/ Stop(p) \/ GiveUp(p)
    \/ LoseLock
    \/ \E i \in Inputs : Age(i)
    \/ Engine
    \/ DirectPrompt

Spec == Init /\ [][Next]_vars

(***************************************************************************)
(* Fairness.  Workers tick every second and every HTTP or SQL call ends by *)
(* its context, so each step of a handler is weakly fair.  PostgreSQL      *)
(* grants a contended advisory lock in the order of the requests, so a     *)
(* step that waits for the lock is strongly fair.  Clocks advance, and the *)
(* engine stores or loses what it accepted and ends a run that is not      *)
(* waiting for a person.  Nothing is assumed of people.                    *)
(***************************************************************************)
Waits(p) == AcquireCompletion(p) \/ AcquireReconcile(p) \/ AcquireHead(p)
            \/ AcquireNothing(p) \/ JoinStop(p)

Works(p) ==
    \/ \E i \in Inputs : Pick(p, i)
    \/ ReadStatus(p) \/ ReadHistory(p) \/ ReadLease(p)
    \/ SaveSending(p) \/ SaveStale(p) \/ PromptAccepted(p)
    \/ CompleteBackground(p)
    \/ Reconcile(p)
    \/ \E i \in Inputs : StopReconcile(p, i)
    \/ StopVisited(p) \/ StopAbort(p) \/ StopGauge(p)
    \/ StopRecover(p) \/ StopClear(p)
    \/ StopWait(p) \/ StopTimeout(p)

Fairness ==
    /\ \A p \in Proc : WF_vars(Works(p)) /\ SF_vars(Waits(p))
                       /\ SF_vars(RepairStop(p))
    /\ \A i \in Inputs :
          /\ WF_vars(Age(i))
          /\ WF_vars(\E k \in flight[i] : Persist(i, k) \/ Drop(i, k))
    /\ WF_vars(\E t \in {"running", "stalled"} :
                  turn = "pending" /\ TurnStep(t))
    /\ WF_vars(\E t \in {"done", "error", "toolcalls", "stalled"} :
                  turn = "running" /\ TurnStep(t))
    /\ \A d \in Direct : WF_vars(DirectEnd(d))

FairSpec == Spec /\ Fairness

-----------------------------------------------------------------------------
(***************************************************************************)
(* Safety.                                                                 *)
(***************************************************************************)
\* An input reaches the conversation at most once, however often it is
\* retried, whichever answers were lost, and even if the lock was lost while
\* its holder went on (revision checks and the minute of reconcileChatInput).
AtMostOnce == \A i \in Inputs : \A a, b \in hist[i] : a = b

\* An input its author may edit, remove or send again (UpdateChatInput) is
\* not with the agent: neither stored nor on its way.
Released(i) ==
    /\ User(i)
    /\ st[i] \in {"queued", "failed", "recovered", "removed"}
    /\ mid[i] = 0

NoGhost == \A i \in Inputs : Released(i) => hist[i] = {} /\ flight[i] = {}

\* "delivered" is told to the browser only of a message the engine has stored:
\* the acknowledgement of prompt_async is not enough.
DeliveredIsStored ==
    \A i \in Inputs : st[i] = "delivered" => mid[i] \in hist[i]

\* As long as the admission lock excludes, the head check and the rank of
\* outstanding rows let at most one row of the conversation have a message id
\* whose fate is open.
OneOutstanding ==
    losses = 0 =>
        \A i, j \in Inputs :
            Waiting(i) /\ Outstanding(i) /\ Waiting(j) /\ Outstanding(j) => i = j

\* A follow-up that was not steered goes out only after every earlier message
\* of people was disposed of: one that still waits behind it was taken back
\* and retried by its author.
NoOvertaking ==
    \A i, j \in Inputs :
        /\ i < j /\ User(i) /\ User(j) /\ delivery[j] = "queue"
        /\ hist[j] \cup flight[j] # {}
        /\ st[i] \in {"queued", "sending", "failed"}
        => resume[i]

\* Messages go out one at a time, and in the order they were submitted in also
\* when the lock was lost (GatewayHeadChatInput under the admission lock).
InOrder == OneOutstanding /\ NoOvertaking

\* Everything the engine was given came from a person and through the queue.
OnlyQueued ==
    (\A i \in Inputs : User(i)) /\ (\A d \in Direct : direct[d] = "none")

\* What Stop promises as long as the admission lock excludes, whoever raised
\* the barrier and whatever became of them (settleChatStop).  While the barrier
\* is up no row is admitted.  When it comes down no message of a person is on
\* its way to the engine, no synchronous prompt that passed admission before
\* still holds its execution lease, and no run is under way or about to begin,
\* unless a notification or a prompt beside the queue began it.
StopHolds ==
    [][stopping /\ losses = 0 =>
          /\ \A i \in Inputs : st'[i] = "sending" => st[i] = "sending"
          /\ ~stopping' =>
                /\ \A i \in Inputs : User(i) => flight[i] = {}
                /\ \A d \in Direct : direct[d] \notin {"leased", "served"}
                /\ OnlyQueued => turn \notin Active]_vars

\* A notification that Stop removed after its prompt had left the gateway.
Canceling == \E i \in Inputs : ~User(i) /\ st[i] = "removed" /\ mid[i] # 0

\* Nobody starts a turn but the rows that wait in the queue.
Alone == ~Canceling /\ \A d \in Direct : direct[d] = "none"

\* A follow-up that was not steered is never stored into an unfinished turn, as
\* long as the admission lock excludes and nobody starts turns beside the queue
\* (queue.go: "A queued follow-up must never be injected into an unfinished
\* turn").
NoInjection ==
    [][losses = 0 /\ Alone =>
          \A i \in Inputs :
              hist'[i] # hist[i] /\ delivery[i] = "queue" => turn \notin Active]_vars

\* query.sql: "Background turns must not restart execution after Stop clears
\* the barrier."
NoBackgroundRestart ==
    [][\A i \in Inputs :
          hist'[i] # hist[i] /\ ~User(i) => st[i] # "removed"]_vars

(***************************************************************************)
(* Liveness, under FairSpec.                                               *)
(***************************************************************************)
\* A row does not stay "sending" for ever: its fate is found out unless the
\* agent waits for a person.
SendingResolves ==
    \A i \in Inputs :
        st[i] = "sending" ~> st[i] # "sending" \/ turn = "asking"

\* A raised barrier comes down without another Stop request, even when the
\* handler that raised it crashed.
StopSettles == stopping ~> ~stopping

\* Neither a row nor the barrier is left to wait for somebody who crashed.
QueueSettles == SendingResolves /\ StopSettles

-----------------------------------------------------------------------------
(***************************************************************************)
(* ChatInputs implements ChatMailbox for the messages of people.           *)
(* Background notifications, which Stop may remove while one is on its     *)
(* way, stay outside the promise.                                          *)
(***************************************************************************)
Fate(i) ==
    IF st[i] = "absent" \/ ~User(i) THEN "absent"
    ELSE IF hist[i] # {} THEN "arrived"
    ELSE IF Released(i) /\ st[i] # "queued" THEN "withdrawn"
    ELSE "waiting"

Box == [i \in Inputs |-> Fate(i)]

Mailbox == INSTANCE ChatMailbox WITH box <- Box

\* Every step of the gateway and of the engine is a step of the mailbox, or
\* leaves it alone: an arrived input never leaves, and only a waiting one
\* arrives.
ImplementsMailbox == Mailbox!Spec
=============================================================================
