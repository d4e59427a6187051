---------------------------- MODULE WorkflowRuns ----------------------------
(***************************************************************************)
(* One WorkflowRun, driven by the workflowrun controller through a cached  *)
(* view of the Kubernetes API, by the gateway on behalf of the agent that  *)
(* executes it, and by whoever deletes it.                                 *)
(*                                                                         *)
(* log holds every version of the object the API server stored; Obj is the *)
(* last one.  The controller reads log[seen]: an informer delivers the     *)
(* versions in order, and late.  Its patches carry the resource version    *)
(* they were computed from, so that a patch lands only on the last         *)
(* version.  The gateway reads and writes the API server directly.         *)
(***************************************************************************)
EXTENDS Integers, Sequences

CONSTANTS
    Sessions,        \* ids of the sessions OpenCode can create
    NoSession,
    Nodes,           \* node names of the workflow graph
    Runs,            \* which runs are created: [delivery, scheduled, trigger]
    Deletes,         \* people delete the run, or the conversation
    MaxVersions,     \* versions up to which nodes are reported
    MaxCrashes,      \* restarts of the controller
    MaxFaults        \* calls that fail, or whose answer is lost

ASSUME ConstantsAssumption ==
    /\ Sessions \subseteq Nat
    /\ NoSession \notin Sessions
    /\ Deletes \in BOOLEAN
    /\ Runs \subseteq [delivery : BOOLEAN, scheduled : BOOLEAN, trigger : BOOLEAN]
    /\ {MaxVersions, MaxCrashes, MaxFaults} \subseteq Nat

VARIABLES
    log,        \* versions of the WorkflowRun, oldest first
    seen,       \* version the controller's cache holds
    queued,     \* the run's key is in the controller's work queue
    ctl,        \* the reconciliation in progress
    sessions,   \* OpenCode's sessions
    inflight,   \* sessions with a prompt still on its way
    submitted,  \* prompt requests the controller has sent
    open,       \* the destination of the result still exists
    inbox,      \* results queued in the conversation, by phase
    timedOut,   \* startedAt plus the timeout has passed
    graced,     \* the startup grace has passed since startedAt
    crashes,
    faults      \* calls of the controller that failed or were refused

object == <<log, seen, queued>>
opencode == <<sessions, inflight, submitted>>
world == <<open, inbox, timedOut, graced, crashes, faults>>
vars == <<log, seen, queued, ctl, sessions, inflight, submitted, open, inbox,
          timedOut, graced, crashes, faults>>

-----------------------------------------------------------------------------
(* The object *)

Phases == {"Unknown", "Pending", "Running", "Unacked", "Succeeded", "Failed"}
Ends == {"Unacked", "Succeeded", "Failed"}
Terminal(p) == p \in Ends

Reasons == {"None", "Active", "Unacked", "Succeeded", "Failed", "TimedOut", "GatewayError"}
NodePhases == {"Disabled", "Running", "Unacked", "Succeeded", "Failed"}
NodeStatus == [name : Nodes, phase : NodePhases]

\* delivery: a conversation awaits the result; scheduled: a schedule owns the
\* run; trigger: the run records a trigger that failed to admit it.
\* ready: "None" before the condition is set, "Active" while it is false, and
\* its reason once it is true.  startedAt is set exactly with session.
Objects ==
    [live : BOOLEAN, deleting : BOOLEAN, finalizer : BOOLEAN,
     delivery : BOOLEAN, scheduled : BOOLEAN, trigger : BOOLEAN,
     phase : Phases, session : Sessions \cup {NoSession}, completed : BOOLEAN,
     ready : Reasons, aborted : {"None", "False", "True"}, nodes : Seq(NodeStatus)]

\* ScheduledRun gives a run with a destination its finalizer at creation.
Created(r) ==
    [live |-> TRUE, deleting |-> FALSE, finalizer |-> r.scheduled /\ r.delivery,
     delivery |-> r.delivery, scheduled |-> r.scheduled, trigger |-> r.trigger,
     phase |-> "Unknown", session |-> NoSession, completed |-> FALSE,
     ready |-> "None", aborted |-> "None", nodes |-> <<>>]

Obj == log[Len(log)]
Cached == log[seen]
Fresh == seen = Len(log)

\* A write that changes nothing stores no version.
Store(o) == log' = IF o = Obj THEN log ELSE Append(log, o)

Unacknowledged(nodes) ==
    [i \in DOMAIN nodes |->
        IF nodes[i].phase = "Running" THEN [nodes[i] EXCEPT !.phase = "Unacked"] ELSE nodes[i]]

SetTerminalStatus(o, reason) ==
    [o EXCEPT !.completed = TRUE, !.ready = reason, !.nodes = Unacknowledged(o.nodes)]

Deleted(o) == IF o.finalizer THEN [o EXCEPT !.deleting = TRUE] ELSE [o EXCEPT !.live = FALSE]

-----------------------------------------------------------------------------
(* The reconciliation in progress *)

Places == {"idle", "addFinalizer", "markPending", "create", "admit", "unadmit", "prompt",
           "inspect", "messages", "settle", "fail", "sync", "abort", "confirm", "prune",
           "handoff", "deliver", "finalAbort", "deleteSession", "unfinalize"}

\* pc: the call under way; reason: why the run is being failed or settled;
\* after: where syncTerminalStatus returns to; run: the object as read.
Steps == [pc : Places, reason : Reasons, after : {"done", "retry", "prune", "handoff"},
          run : Objects, sid : Sessions \cup {NoSession}]

At(pc, reason, after, o) ==
    [pc |-> pc, reason |-> reason, after |-> after, run |-> o, sid |-> NoSession]

Rest == At("idle", "None", "done",
           Created([delivery |-> FALSE, scheduled |-> FALSE, trigger |-> FALSE]))
Goto(pc, o) == At(pc, "None", "done", o)
FailWith(reason, o) == At("fail", reason, "done", o)

Done == ctl' = Rest /\ UNCHANGED queued
Requeue == ctl' = Rest /\ queued' = TRUE

\* Mutant: a running run is never timed out.
DecideNoTimeout(o) ==
    IF ~o.live THEN Rest
    ELSE IF ~o.finalizer THEN Goto("addFinalizer", o)
    ELSE IF Terminal(o.phase) THEN At("sync", "None", "prune", o)
    ELSE Goto(IF o.phase = "Unknown" THEN "markPending"
              ELSE IF o.phase = "Pending" THEN "create" ELSE "inspect", o)

\* Reconcile from the coding-workspace check on: what the object calls for.
Decide(o) ==
    CASE ~o.live -> Rest
      [] o.live /\ ~o.finalizer -> Goto("addFinalizer", o)
      [] o.live /\ o.finalizer /\ (Terminal(o.phase) \/ (o.phase = "Unknown" /\ o.completed)) ->
            At("sync", "None", "prune", o)
      [] o.live /\ o.finalizer /\ o.phase = "Unknown" /\ ~o.completed -> Goto("markPending", o)
      [] o.live /\ o.finalizer /\ o.phase \in {"Pending", "Running"} ->
            IF o.session # NoSession /\ timedOut THEN FailWith("TimedOut", o)
            ELSE Goto(IF o.phase = "Pending" THEN "create" ELSE "inspect", o)

\* finalizeRun's first steps.
Finalize(o) ==
    CASE ~o.finalizer -> Rest
      [] o.finalizer /\ o.session = NoSession -> Goto("unfinalize", o)
      [] o.finalizer /\ o.session # NoSession -> Goto("finalAbort", o)

\* Reconcile from the start.
Route(o) ==
    IF ~o.live THEN Rest
    ELSE IF o.deleting THEN Finalize(o)
    ELSE IF o.trigger /\ ~Terminal(o.phase) THEN FailWith("GatewayError", o)
    ELSE IF o.delivery /\ Terminal(o.phase) THEN At("sync", "None", "handoff", o)
    ELSE IF o.delivery THEN Goto("deliver", o)
    ELSE Decide(o)

-----------------------------------------------------------------------------
(* Calls and their outcomes *)

\* A call fails: without effect, or with its effect and the answer lost.
Fault == faults < MaxFaults /\ faults' = faults + 1

\* patchStatus: the cached object is the last version and the patch lands.
Patched(o) == Fresh /\ Obj.live /\ Store(o)

\* patchStatus fails: the cache stays behind through every retry, the object is
\* gone, or the API server does not answer, possibly after storing the patch.
PatchFails(o) ==
    \/ ~Fresh /\ UNCHANGED <<log, faults>>
    \/ Fault /\ (UNCHANGED log \/ Patched(o))

Busy(s) == s # NoSession /\ sessions[s].state = "busy"
Exists(s) == s # NoSession /\ sessions[s].state \in {"idle", "busy"}

\* SessionCreate for a bound run is refused once the run ended or its
\* conversation is being deleted.
MayCreate == Obj.delivery => open /\ Obj.live /\ ~Obj.deleting /\ ~Terminal(Obj.phase)

MayDeliver == open /\ Obj.live /\ ~Obj.deleting

\* Mutant: the result is queued before the run has ended.
DeliveredEarly == IF ~Busy(Obj.session) /\ inbox = {} THEN {Obj.phase} ELSE inbox

\* enqueueWorkflowSession: the result is queued once the run and its session
\* have ended; the unique index keeps the first row.
Delivered ==
    IF Terminal(Obj.phase) /\ Obj.aborted # "False" /\ ~Busy(Obj.session) /\ inbox = {}
    THEN {Obj.phase} ELSE inbox

-----------------------------------------------------------------------------
(* The controller *)

Begin ==
    /\ ctl.pc = "idle"
    /\ queued
    /\ queued' = FALSE
    /\ ctl' = Route(Cached)
    /\ UNCHANGED <<log, seen, opencode, world>>

\* addFinalizer.
AddFinalizer(ok) ==
    LET o == [Obj EXCEPT !.finalizer = TRUE] IN
    /\ ctl.pc = "addFinalizer"
    /\ IF ok
       THEN /\ (Cached.live /\ Cached.finalizer /\ UNCHANGED log) \/ Patched(o)
            /\ UNCHANGED faults
       ELSE PatchFails(o)
    /\ Requeue
    /\ UNCHANGED <<seen, opencode, open, inbox, timedOut, graced, crashes>>

\* markPending writes Pending whatever the phase is by then.
Queued(o) == [o EXCEPT !.phase = "Pending", !.ready = "Active"]

MarkPending(ok) ==
    /\ ctl.pc = "markPending"
    /\ IF ok
       THEN Patched(Queued(Obj)) /\ UNCHANGED faults
       ELSE PatchFails(Queued(Obj))
    /\ Requeue
    /\ UNCHANGED <<seen, opencode, open, inbox, timedOut, graced, crashes>>

\* Ids are abstract: one whose session is gone and that no version of the run
\* recorded serves again for a new session, the least one first.
Unused(s) ==
    /\ ~Exists(s)
    /\ \A i \in DOMAIN log : log[i].session # s

NewSession(s) ==
    /\ Unused(s)
    /\ \A t \in Sessions : Unused(t) => s <= t
    /\ sessions' = [sessions EXCEPT ![s].state = "idle"]

\* startRun up to SessionCreate: any failure on the way fails the run.
CreateSession(ok) ==
    /\ ctl.pc = "create"
    /\ IF ok
       THEN /\ MayCreate
            /\ \E s \in Sessions : NewSession(s) /\ ctl' = [ctl EXCEPT !.pc = "admit", !.sid = s]
            /\ UNCHANGED faults
       ELSE /\ ctl' = FailWith("GatewayError", ctl.run)
            /\ \/ ~MayCreate /\ UNCHANGED <<sessions, faults>>
               \/ Fault /\ UNCHANGED sessions
               \/ Fault /\ MayCreate /\ \E s \in Sessions : NewSession(s)
    /\ UNCHANGED <<object, inflight, submitted, open, inbox, timedOut, graced, crashes>>

Admissible(o) == o.live /\ ~o.deleting /\ o.phase = "Pending"

Admitted(o, s) == [o EXCEPT !.phase = "Running", !.session = s, !.ready = "Active"]

\* startRun persists the admission before it submits any work.
Admit(ok) ==
    LET o == Admitted(Obj, ctl.sid) IN
    /\ ctl.pc = "admit"
    /\ IF ok
       THEN /\ Admissible(Obj)
            /\ Patched(o)
            /\ ctl' = [ctl EXCEPT !.pc = "prompt", !.run = o]
            /\ UNCHANGED faults
       ELSE /\ \/ ~Admissible(Cached) /\ UNCHANGED <<log, faults>>
               \/ Admissible(Cached) /\ PatchFails(o)
            /\ ctl' = [ctl EXCEPT !.pc = "unadmit"]
    /\ UNCHANGED <<seen, queued, opencode, open, inbox, timedOut, graced, crashes>>

\* startRun deletes the session it could not admit, ignores whether that
\* worked, and fails the run.
Unadmit ==
    /\ ctl.pc = "unadmit"
    /\ \/ /\ sessions' = [sessions EXCEPT ![ctl.sid].state = "gone"]
          /\ UNCHANGED faults
       \/ Fault /\ UNCHANGED sessions
    /\ ctl' = FailWith("GatewayError", ctl.run)
    /\ UNCHANGED <<object, inflight, submitted, open, inbox, timedOut, graced, crashes>>

Receive(s) ==
    sessions' = [sessions EXCEPT ![s] = [@ EXCEPT !.state = "busy", !.prompted = TRUE]]

\* Mutant: a prompt whose answer is lost is submitted again.
PromptRetried(ok) ==
    /\ ctl.pc = "prompt"
    /\ submitted' = submitted + 1
    /\ IF ok
       THEN Exists(ctl.sid) /\ Receive(ctl.sid) /\ Requeue /\ UNCHANGED faults
       ELSE /\ Fault
            /\ UNCHANGED <<queued, ctl>>
            /\ UNCHANGED sessions \/ (Exists(ctl.sid) /\ Receive(ctl.sid))
    /\ UNCHANGED <<log, seen, inflight, open, inbox, timedOut, graced, crashes>>

\* Whether the prompt arrived, or will, is unknown.
Uncertain(s) ==
    /\ Fault
    /\ \/ UNCHANGED <<sessions, inflight>>
       \/ inflight' = inflight \cup {s} /\ UNCHANGED sessions
       \/ Exists(s) /\ Receive(s) /\ UNCHANGED inflight

\* startRun submits the prompt once.  After a lost answer the session is left
\* to speak for itself; any status but 204 fails the run, the proxy's own among
\* them, which do not tell whether the prompt arrived.
Prompt(ok) ==
    /\ ctl.pc = "prompt"
    /\ submitted' = submitted + 1
    /\ IF ok
       THEN /\ Exists(ctl.sid) /\ Receive(ctl.sid)
            /\ Requeue
            /\ UNCHANGED <<inflight, faults>>
       ELSE \/ /\ ~Exists(ctl.sid)
               /\ ctl' = FailWith("GatewayError", ctl.run)
               /\ UNCHANGED <<queued, sessions, inflight, faults>>
            \/ /\ Uncertain(ctl.sid)
               /\ Requeue \/ (ctl' = FailWith("GatewayError", ctl.run) /\ UNCHANGED queued)
    /\ UNCHANGED <<log, seen, open, inbox, timedOut, graced, crashes>>

\* reconcileRunning asks for the session's status first.
Inspect(ok) ==
    /\ ctl.pc = "inspect"
    /\ IF ok
       THEN /\ IF Busy(ctl.run.session) THEN Requeue
               ELSE ctl' = [ctl EXCEPT !.pc = "messages"] /\ UNCHANGED queued
            /\ UNCHANGED faults
       ELSE Fault /\ Requeue
    /\ UNCHANGED <<log, seen, opencode, open, inbox, timedOut, graced, crashes>>

\* sessionTerminalMessage: an answer without messages, which any status but
\* 200 gives, reads as a session that did not fail.
ReadMessages(ok) ==
    /\ ctl.pc = "messages"
    /\ IF ok
       THEN /\ \E answered \in BOOLEAN :
                  LET failed == answered /\ sessions[ctl.run.session].outcome = "error" IN
                  IF ~failed /\ ~graced THEN Requeue
                  ELSE /\ ctl' = [ctl EXCEPT !.pc = "settle",
                                             !.reason = IF failed THEN "Failed" ELSE "Unacked"]
                       /\ UNCHANGED queued
            /\ UNCHANGED faults
       ELSE Fault /\ Requeue
    /\ UNCHANGED <<log, seen, opencode, open, inbox, timedOut, graced, crashes>>

Settled(o, reason) ==
    IF Terminal(o.phase) \/ o.completed THEN o
    ELSE SetTerminalStatus([o EXCEPT !.phase = reason], reason)

\* reconcileRunning's patch, unless the agent reported meanwhile.
Settle(ok) ==
    LET o == Settled(Obj, ctl.reason) IN
    /\ ctl.pc = "settle"
    /\ IF ok
       THEN Patched(o) /\ Done /\ UNCHANGED faults
       ELSE PatchFails(o) /\ Requeue
    /\ UNCHANGED <<seen, opencode, open, inbox, timedOut, graced, crashes>>

Failed(o, reason) ==
    IF Terminal(o.phase) \/ o.completed THEN o
    ELSE [SetTerminalStatus([o EXCEPT !.phase = "Failed"], reason)
            EXCEPT !.aborted = IF o.session # NoSession THEN "False" ELSE @]

\* failRun records the failure together with the intent to cancel.
FailRun(ok) ==
    LET o == Failed(Obj, ctl.reason) IN
    /\ ctl.pc = "fail"
    /\ IF ok
       THEN /\ Patched(o)
            /\ ctl' = At("sync", "None", ctl.after, o)
            /\ UNCHANGED <<queued, faults>>
       ELSE PatchFails(o) /\ Requeue
    /\ UNCHANGED <<seen, opencode, open, inbox, timedOut, graced, crashes>>

Synced(o) ==
    SetTerminalStatus(o,
        CASE o.phase = "Failed" -> IF o.ready \in {"None", "Active"} THEN "Failed" ELSE o.ready
          [] o.phase = "Unacked" -> "Unacked"
          [] o.phase \notin {"Failed", "Unacked"} -> "Succeeded")

\* syncTerminalStatus returns to its caller.
Return(after, o) ==
    CASE after = "done" -> Done
      [] after = "retry" -> Requeue
      [] after = "prune" -> ctl' = Goto("prune", o) /\ UNCHANGED queued
      [] after = "handoff" ->
            /\ ctl' = Goto(IF o.session = NoSession THEN "deliver" ELSE "handoff", o)
            /\ UNCHANGED queued

\* syncTerminalStatus up to the cancellation.
SyncTerminalStatus(ok) ==
    LET o == Synced(Obj) IN
    /\ ctl.pc = "sync"
    /\ IF ok
       THEN /\ Patched(o)
            /\ IF o.aborted = "False"
               THEN ctl' = [ctl EXCEPT !.pc = "abort", !.run = o] /\ UNCHANGED queued
               ELSE Return(ctl.after, o)
            /\ UNCHANGED faults
       ELSE PatchFails(o) /\ Requeue
    /\ UNCHANGED <<seen, opencode, open, inbox, timedOut, graced, crashes>>

Stopped(s) ==
    IF Busy(s) THEN [sessions EXCEPT ![s] = [@ EXCEPT !.state = "idle", !.outcome = "error"]]
    ELSE sessions

\* Mutant: an accepted abort is taken for a stopped session.
AbortRunUnchecked(ok) ==
    IF ok THEN (UNCHANGED sessions \/ sessions' = Stopped(ctl.run.session)) /\ UNCHANGED faults
    ELSE Fault /\ UNCHANGED sessions

\* abortRun: confirmed when the session is unknown, or stopped by the time its
\* status is read; otherwise the cancellation is still pending.
AbortRun(ok) ==
    IF ok THEN sessions' = Stopped(ctl.run.session) /\ UNCHANGED faults
    ELSE Fault /\ (UNCHANGED sessions \/ sessions' = Stopped(ctl.run.session))

\* A cancellation that fails leaves its condition false and the error requeues
\* the run.
AbortSession(ok) ==
    /\ ctl.pc = "abort"
    /\ AbortRun(ok)
    /\ IF ok THEN ctl' = [ctl EXCEPT !.pc = "confirm"] /\ UNCHANGED queued ELSE Requeue
    /\ UNCHANGED <<log, seen, inflight, submitted, open, inbox, timedOut, graced, crashes>>

\* syncTerminalStatus records the confirmed cancellation.
ConfirmAbort(ok) ==
    LET o == [Obj EXCEPT !.aborted = "True"] IN
    /\ ctl.pc = "confirm"
    /\ IF ok
       THEN Patched(o) /\ Return(ctl.after, o) /\ UNCHANGED faults
       ELSE PatchFails(o) /\ Requeue
    /\ UNCHANGED <<seen, opencode, open, inbox, timedOut, graced, crashes>>

\* pruneOrphanRuns: an ended run that no schedule owns is deleted once its
\* retention has passed.
PruneOrphanRuns ==
    /\ ctl.pc = "prune"
    /\ \/ UNCHANGED log
       \/ ~Obj.scheduled /\ Obj.live /\ Store(Deleted(Obj))
    /\ Done
    /\ UNCHANGED <<seen, opencode, world>>

\* A run that ended is handed over only once its session is idle.
CheckIdle(ok) ==
    /\ ctl.pc = "handoff"
    /\ IF ok
       THEN /\ IF Busy(ctl.run.session) THEN Requeue
               ELSE ctl' = [ctl EXCEPT !.pc = "deliver"] /\ UNCHANGED queued
            /\ UNCHANGED faults
       ELSE Fault /\ Requeue
    /\ UNCHANGED <<log, seen, opencode, open, inbox, timedOut, graced, crashes>>

\* DeliverWorkflowSession, answered or refused, and what Reconcile makes of it.
Deliver(ok) ==
    /\ ctl.pc = "deliver"
    /\ IF ok
       THEN \/ /\ MayDeliver
               /\ inbox' = Delivered
               /\ ctl' = Decide(Cached)
               /\ UNCHANGED faults
            \/ /\ ~MayDeliver
               /\ ctl' = IF Terminal(ctl.run.phase) THEN Decide(Cached)
                         ELSE FailWith("GatewayError", ctl.run)
               /\ UNCHANGED <<inbox, faults>>
       ELSE /\ Fault
            /\ UNCHANGED inbox \/ (MayDeliver /\ inbox' = Delivered)
            /\ ctl' = IF ctl.run.session # NoSession /\ timedOut /\ ~Terminal(ctl.run.phase)
                      THEN At("fail", "TimedOut", "retry", ctl.run) ELSE Rest
    /\ queued' = (queued \/ (~ok /\ ctl'.pc = "idle"))
    /\ UNCHANGED <<log, seen, opencode, open, timedOut, graced, crashes>>

\* finalizeRun stops the session before anything else.
FinalAbort(ok) ==
    /\ ctl.pc = "finalAbort"
    /\ AbortRun(ok)
    /\ IF ok
       THEN /\ ctl' = [ctl EXCEPT !.pc = IF ctl.run.delivery THEN "unfinalize" ELSE "deleteSession"]
            /\ UNCHANGED queued
       ELSE Requeue
    /\ UNCHANGED <<log, seen, inflight, submitted, open, inbox, timedOut, graced, crashes>>

DeleteSession(ok) ==
    LET gone == [sessions EXCEPT ![ctl.run.session].state = "gone"] IN
    /\ ctl.pc = "deleteSession"
    /\ IF ok
       THEN /\ sessions' = gone
            /\ ctl' = [ctl EXCEPT !.pc = "unfinalize"]
            /\ UNCHANGED <<queued, faults>>
       ELSE /\ Fault
            /\ UNCHANGED sessions \/ sessions' = gone
            /\ Requeue
    /\ UNCHANGED <<log, seen, inflight, submitted, open, inbox, timedOut, graced, crashes>>

\* finalizeRun lets the object go.
Unfinalize(ok) ==
    LET o == [Obj EXCEPT !.finalizer = FALSE, !.live = FALSE] IN
    /\ ctl.pc = "unfinalize"
    /\ IF ok
       THEN ((~Cached.live /\ UNCHANGED log) \/ Patched(o)) /\ Done /\ UNCHANGED faults
       ELSE PatchFails(o) /\ Requeue
    /\ UNCHANGED <<seen, opencode, open, inbox, timedOut, graced, crashes>>

-----------------------------------------------------------------------------
(* Everybody else *)

\* Mutant: the cache runs ahead of the API server.
CacheSyncAhead ==
    /\ seen' = seen + 1
    /\ queued' = TRUE
    /\ UNCHANGED <<log, ctl, opencode, world>>

\* The informer delivers the next version and enqueues the run.
CacheSync ==
    /\ seen < Len(log)
    /\ seen' = seen + 1
    /\ queued' = TRUE
    /\ UNCHANGED <<log, ctl, opencode, world>>

\* The controller restarts: its cache is listed anew and every run is enqueued.
Crash ==
    /\ crashes < MaxCrashes
    /\ crashes' = crashes + 1
    /\ ctl' = Rest
    /\ seen' = Len(log)
    /\ queued' = TRUE
    /\ UNCHANGED <<log, opencode, open, inbox, timedOut, graced, faults>>

\* A prompt whose request failed arrives after all, or never.
PromptArrives(s) ==
    /\ s \in inflight
    /\ inflight' = inflight \ {s}
    /\ \/ /\ Exists(s)
          /\ sessions' = [sessions EXCEPT ![s] =
                             [@ EXCEPT !.state = "busy", !.prompted = TRUE, !.late = TRUE]]
       \/ UNCHANGED sessions
    /\ UNCHANGED <<object, ctl, submitted, world>>

\* The agent stops: normally, with an error, or without a last message.
SessionEnds(s, outcome) ==
    /\ Busy(s)
    /\ sessions' = [sessions EXCEPT ![s] = [@ EXCEPT !.state = "idle", !.outcome = outcome]]
    /\ UNCHANGED <<object, ctl, inflight, submitted, world>>

GatewayPatch(o) ==
    /\ Obj.live
    /\ Obj.phase = "Running"
    /\ Store(o)
    /\ UNCHANGED <<seen, queued, ctl, opencode, world>>

\* PatchRunStatus on behalf of an agent that was prompted; a finished run, or
\* one that is not running, is left alone.
PatchRunStatus(s, phase) ==
    /\ sessions[s].prompted
    /\ GatewayPatch([Obj EXCEPT !.phase = phase, !.completed = TRUE,
                              !.nodes = Unacknowledged(Obj.nodes)])

\* applyNodeStatusPatch; same says that the message is the recorded one too.
ApplyNodeStatusPatch(nodes, n, phase, same) ==
    LET known == \E i \in DOMAIN nodes : nodes[i].name = n
        list == IF known THEN nodes ELSE Append(nodes, [name |-> n, phase |-> "Disabled"])
        t == CHOOSE i \in DOMAIN list : list[i].name = n
        next == [i \in DOMAIN list |->
                    IF phase = "Running" /\ i < t /\ list[i].phase = "Running"
                    THEN [list[i] EXCEPT !.phase = "Unacked"] ELSE list[i]]
        progressed == \E i \in DOMAIN list : i > t /\ list[i].phase # "Disabled"
        allowed == progressed \/ list[t].phase = (IF phase = "Running" THEN "Disabled" ELSE "Running")
    IN  IF list[t].phase = phase /\ same THEN next
        ELSE IF allowed THEN [next EXCEPT ![t].phase = phase]
        ELSE nodes

\* PatchRunNodeStatus.
PatchRunNodeStatus(s, n, phase) ==
    /\ sessions[s].prompted
    /\ Len(log) < MaxVersions
    /\ \E same \in BOOLEAN :
          GatewayPatch([Obj EXCEPT !.nodes = ApplyNodeStatusPatch(Obj.nodes, n, phase, same)])

DeleteRun ==
    /\ Obj.live
    /\ Store(Deleted(Obj))
    /\ UNCHANGED <<seen, queued, ctl, opencode, world>>

\* Somebody deletes the run, or the clean-up of its conversation does.
DeleteWorkflowRun == Deletes /\ DeleteRun

\* The schedule keeps a bounded history: deleteRunsAfterLimit.
PruneScheduledRun ==
    /\ Obj.scheduled
    /\ Obj.phase \in {"Succeeded", "Failed"}
    /\ DeleteRun

\* The conversation is being deleted: no further delivery.
CloseDestination ==
    /\ Deletes
    /\ Obj.delivery
    /\ open
    /\ open' = FALSE
    /\ UNCHANGED <<object, ctl, opencode, inbox, timedOut, graced, crashes, faults>>

\* cleanChat deletes the conversation with its descendants, the run's sessions.
CleanChat ==
    /\ ~open
    /\ sessions' = [s \in Sessions |->
          IF Exists(s) THEN [sessions[s] EXCEPT !.state = "gone"] ELSE sessions[s]]
    /\ UNCHANGED <<object, ctl, inflight, submitted, world>>

Started == Obj.session # NoSession

TimeoutPasses ==
    /\ Started /\ ~timedOut
    /\ timedOut' = TRUE
    /\ UNCHANGED <<object, ctl, opencode, open, inbox, graced, crashes, faults>>

GracePasses ==
    /\ Started /\ ~graced
    /\ graced' = TRUE
    /\ UNCHANGED <<object, ctl, opencode, open, inbox, timedOut, crashes, faults>>

-----------------------------------------------------------------------------

Init ==
    /\ \E r \in Runs : log = <<Created(r)>>
    /\ seen = 1
    /\ queued = TRUE
    /\ ctl = Rest
    /\ sessions = [s \in Sessions |-> [state |-> "absent", prompted |-> FALSE, late |-> FALSE,
                                    outcome |-> "none"]]
    /\ inflight = {}
    /\ submitted = 0
    /\ open = TRUE
    /\ inbox = {}
    /\ timedOut = FALSE
    /\ graced = FALSE
    /\ crashes = 0
    /\ faults = 0

\* Steps of the controller whose calls succeed.
Works(ok) ==
    \/ AddFinalizer(ok) \/ MarkPending(ok) \/ CreateSession(ok) \/ Admit(ok) \/ Prompt(ok)
    \/ Inspect(ok) \/ ReadMessages(ok) \/ Settle(ok) \/ FailRun(ok)
    \/ SyncTerminalStatus(ok) \/ AbortSession(ok) \/ ConfirmAbort(ok)
    \/ CheckIdle(ok) \/ Deliver(ok)
    \/ FinalAbort(ok) \/ DeleteSession(ok) \/ Unfinalize(ok)

Controller == Begin \/ Unadmit \/ PruneOrphanRuns \/ \E ok \in BOOLEAN : Works(ok)

Agent(s) ==
    \/ PromptArrives(s)
    \/ \E outcome \in {"none", "ok", "error"} : SessionEnds(s, outcome)
    \/ \E phase \in {"Succeeded", "Failed"} : PatchRunStatus(s, phase)
    \/ \E n \in Nodes, phase \in {"Running", "Succeeded", "Failed"} : PatchRunNodeStatus(s, n, phase)

Next ==
    \/ Controller
    \/ CacheSync \/ Crash
    \/ \E s \in Sessions : Agent(s)
    \/ DeleteWorkflowRun \/ PruneScheduledRun \/ CloseDestination \/ CleanChat
    \/ TimeoutPasses \/ GracePasses

Spec == Init /\ [][Next]_vars

-----------------------------------------------------------------------------
(* Properties *)

SessionStates == [state : {"absent", "idle", "busy", "gone"}, prompted : BOOLEAN, late : BOOLEAN,
                  outcome : {"none", "ok", "error"}]

\* The state the controller, the API server and OpenCode keep is well formed.
TypeOK ==
    /\ log \in Seq(Objects) /\ seen \in 1 .. Len(log)
    /\ queued \in BOOLEAN
    /\ ctl \in Steps
    /\ sessions \in [Sessions -> SessionStates]
    /\ inflight \subseteq Sessions
    /\ submitted \in Nat
    /\ open \in BOOLEAN /\ inbox \subseteq Ends
    /\ timedOut \in BOOLEAN /\ graced \in BOOLEAN
    /\ crashes \in Nat /\ faults \in Nat

\* A prompt is submitted at most once for a run, and only to the session that
\* was admitted, whatever was retried, restarted or read stale: repeating it
\* would repeat live tool effects.
PromptOnce ==
    /\ submitted <= 1
    /\ \A s \in Sessions : sessions[s].prompted \/ s \in inflight => s = Obj.session

\* A run that ended keeps its phase: neither the controller nor the agent
\* overwrites the end the other recorded.
TerminalFinal == [][Terminal(Obj.phase) => Obj'.phase = Obj.phase]_log

\* A cancellation recorded as confirmed, and a run released by its finalizer,
\* leave no session executing, except for a prompt that arrived after its
\* request had failed; a run that no conversation owns is released only when
\* its session is deleted; and no node of an ended run is shown as running.
NothingRunsOn ==
    /\ \A s \in Sessions :
          Busy(s) /\ ~sessions[s].late => Obj.live /\ (Obj.session = s => Obj.aborted # "True")
    /\ ~Obj.live /\ Obj.session # NoSession /\ ~Obj.delivery => sessions[Obj.session].state = "gone"
    /\ Terminal(Obj.phase) => \A i \in DOMAIN Obj.nodes : Obj.nodes[i].phase # "Running"

Result == IF inbox = {} THEN "None" ELSE CHOOSE p \in inbox : TRUE

\* The run implements the lifecycle its users rely on.
Lifecycle ==
    INSTANCE WorkflowLifecycle WITH
        phase <- Obj.phase, session <- Obj.session, prompted <- submitted > 0, result <- Result

ImplementsLifecycle == Lifecycle!Spec

\* A reconciliation ends within its timeout, failed calls are retried until the
\* outage is over, the informer catches up, and both deadlines pass.  An agent
\* that reported the end of its run stops; until then it may run for ever.
Fairness ==
    /\ WF_vars(Controller)
    /\ WF_vars(CacheSync)
    /\ WF_vars(TimeoutPasses)
    /\ WF_vars(GracePasses)
    /\ \A s \in Sessions : WF_vars(PromptArrives(s))
    /\ \A s \in Sessions : WF_vars(Terminal(Obj.phase) /\ SessionEnds(s, "ok"))

FairSpec == Spec /\ Fairness

\* A run fails with reason GatewayError only after a call of the controller
\* failed: "WorkflowRunReasonGatewayError indicates the gateway call failed."
GatewayErrorReported == Obj.ready = "GatewayError" => faults > 0 \/ Obj.trigger

\* Every run ends or is deleted, a failed run's session is cancelled, and a
\* deleted run is released.
RunEnds == <>(Terminal(Obj.phase) \/ Obj.deleting \/ ~Obj.live)
AbortCompletes == (Obj.aborted = "False") ~> (Obj.aborted = "True" \/ ~Obj.live)
DeletionCompletes == Obj.deleting ~> ~Obj.live

\* The result of an ended run reaches the conversation that awaits it, unless
\* either is deleted or the prompt arrived after its request had failed.
ResultArrives ==
    Obj.delivery /\ Terminal(Obj.phase) ~>
        \/ inbox # {} \/ ~open \/ Obj.deleting \/ ~Obj.live
        \/ \E s \in Sessions : sessions[s].late

\* Whatever fails, restarts or is deleted, a run's life is brought to its end.
RunSettles == RunEnds /\ AbortCompletes /\ DeletionCompletes /\ ResultArrives
=============================================================================
