------------------------- MODULE WorkflowRunsProofs -------------------------
(***************************************************************************)
(* Proofs about WorkflowRuns, for any number of sessions, nodes, restarts  *)
(* and failed calls: a run is prompted once, its end is final, and it      *)
(* implements WorkflowLifecycle.                                           *)
(*                                                                         *)
(* The hard part is the cache.  markPending writes whatever the phase has  *)
(* become; the invariant says why that is sound: when a reconciliation     *)
(* starts from a version that is still Unknown, the run is not yet past    *)
(* Pending, or it was failed for a reason that the reconciliation meets    *)
(* again before it gets to markPending.                                    *)
(*                                                                         *)
(* A second invariant, StopInv, is about what runs on: the run holds its   *)
(* finalizer while it has a session and lets go of it only when the        *)
(* session is quiet, and an old version of the run, however late, still    *)
(* says the truth about the session that is to be cancelled.               *)
(***************************************************************************)
EXTENDS WorkflowRuns, TLAPS

Early == {"Unknown", "Pending"}

Rank(p) == IF p = "Unknown" THEN 0 ELSE IF p = "Pending" THEN 1 ELSE IF p = "Running" THEN 2 ELSE 3

\* A version that may follow the last one.
Advances(o) ==
    /\ o \in Objects
    /\ o.trigger = Obj.trigger /\ o.delivery = Obj.delivery
    /\ (o.live => Obj.live) /\ (Obj.deleting => o.deleting)
    /\ \/ o.phase = Obj.phase /\ o.session = Obj.session
       \/ Obj.phase = "Unknown" /\ o.phase = "Pending" /\ o.session = Obj.session
       \/ Obj.phase = "Pending" /\ o.phase = "Running" /\ o.session \in Sessions
       \/ /\ Obj.phase \notin Ends /\ o.phase \in Ends /\ (o.phase # "Failed" => Obj.phase = "Running")
          /\ o.session = Obj.session

Moved == log' = log \/ \E o : Advances(o) /\ log' = Append(log, o)

\* Why a run may have been failed before it was queued.
Refused == Obj.trigger \/ (Obj.delivery /\ ~MayDeliver)

LogOK ==
    /\ log # <<>>
    /\ \A i \in 1 .. Len(log) :
          /\ log[i].trigger = Obj.trigger /\ log[i].delivery = Obj.delivery
          /\ log[i].session # NoSession => Rank(log[i].phase) >= 2
    /\ \A i, j \in 1 .. Len(log) : i <= j => Rank(log[i].phase) <= Rank(log[j].phase)

\* A run without a session was not prompted, and nobody but its session was.
SessionOK ==
    /\ submitted \in {0, 1}
    /\ \A s \in Sessions : sessions[s].prompted \/ s \in inflight => s = Obj.session
    /\ Obj.session = NoSession => submitted = 0

\* What the reconciliation in progress may rely on.
CtlOK ==
    /\ ctl.run.session # NoSession => Rank(Obj.phase) >= 2
    /\ ctl.pc = "markPending" => Obj.phase \in Early
    /\ ctl.pc \in {"create", "admit", "unadmit"} => Rank(Obj.phase) >= 1
    /\ ctl.pc \in {"admit", "unadmit", "prompt"} => ctl.sid \in Sessions
    /\ ctl.pc = "prompt" =>
          /\ Obj.phase = "Running" /\ submitted = 0 /\ ctl.sid = Obj.session
          /\ inflight = {} /\ \A s \in Sessions : ~sessions[s].prompted
    /\ ctl.pc \in {"inspect", "messages", "settle"} => Rank(Obj.phase) >= 2
    /\ ctl.pc = "settle" => ctl.reason \in {"Failed", "Unacked"}
    /\ ctl.pc = "fail" => ctl.after # "handoff" /\ (Obj.phase = "Unknown" => Refused)
    /\ ctl.pc = "handoff" \/ (ctl.pc \in {"sync", "abort", "confirm"} /\ ctl.after = "handoff") =>
          Obj.delivery /\ Rank(Cached.phase) = 3
    /\ ctl.pc = "deliver" =>
          Obj.delivery /\ (Obj.trigger \/ Terminal(ctl.run.phase) => Rank(Cached.phase) = 3)
    /\ ctl.pc \in {"finalAbort", "deleteSession"} => ctl.run.session \in Sessions

\* What a cache that lags may still show.
LagOK == Obj.phase \notin Early /\ Cached.phase = "Unknown" => Refused

IInv == TypeOK /\ LogOK /\ SessionOK /\ CtlOK /\ LagOK

-----------------------------------------------------------------------------
(* Objects *)

\* Nodes of a run keep their type when they are closed.
LEMMA NodesType ==
    ASSUME NEW nodes \in Seq(NodeStatus)
    PROVE  Unacknowledged(nodes) \in Seq(NodeStatus)
<1> DEFINE u == Unacknowledged(nodes)
<1>1. DOMAIN nodes = 1 .. Len(nodes) /\ Len(nodes) \in Nat /\ \A i \in DOMAIN nodes : nodes[i] \in NodeStatus
  OBVIOUS
<1>2. ASSUME NEW n \in NodeStatus PROVE [n EXCEPT !.phase = "Unacked"] \in NodeStatus
  BY DEF NodeStatus, NodePhases
<1>3. u \in [1 .. Len(nodes) -> NodeStatus]
  BY <1>1, <1>2 DEF Unacknowledged
<1> HIDE DEF u
<1>4. u \in Seq(NodeStatus)
  BY <1>1, <1>3
<1> QED BY <1>4 DEF u

\* The fields of an object.
LEMMA Fields ==
    ASSUME NEW o \in Objects
    PROVE  /\ o.live \in BOOLEAN /\ o.deleting \in BOOLEAN /\ o.finalizer \in BOOLEAN
           /\ o.delivery \in BOOLEAN /\ o.scheduled \in BOOLEAN /\ o.trigger \in BOOLEAN
           /\ o.phase \in Phases /\ o.session \in Sessions \cup {NoSession} /\ o.completed \in BOOLEAN
           /\ o.ready \in Reasons /\ o.aborted \in {"None", "False", "True"} /\ o.nodes \in Seq(NodeStatus)
BY DEF Objects

\* Two objects agree on what the controller never changes.
Same(o, p) ==
    /\ o.trigger = p.trigger /\ o.delivery = p.delivery /\ o.live = p.live /\ o.deleting = p.deleting
    /\ o.session = p.session

\* Recording an end.
LEMMA TerminalType ==
    ASSUME NEW o \in Objects, NEW reason \in Reasons
    PROVE  /\ SetTerminalStatus(o, reason) \in Objects
           /\ SetTerminalStatus(o, reason).phase = o.phase
           /\ Same(SetTerminalStatus(o, reason), o)
<1> DEFINE n == Unacknowledged(o.nodes)
           c == [o EXCEPT !.completed = TRUE]
           r == [c EXCEPT !.ready = reason]
<1>1. n \in Seq(NodeStatus)
  BY Fields, NodesType
<1>2. c \in Objects /\ c.phase = o.phase /\ Same(c, o)
  BY DEF Objects, Same
<1>3. SetTerminalStatus(o, reason) = [r EXCEPT !.nodes = n]
  BY DEF SetTerminalStatus
<1> HIDE DEF n, c
<1>4. r \in Objects /\ r.phase = o.phase /\ Same(r, o)
  BY <1>2 DEF Objects, Same
<1> HIDE DEF r
<1>5. /\ [r EXCEPT !.nodes = n] \in Objects /\ [r EXCEPT !.nodes = n].phase = o.phase
      /\ Same([r EXCEPT !.nodes = n], o)
  BY <1>1, <1>4 DEF Objects, Same
<1> QED BY <1>3, <1>5

\* Changing only the phase.
LEMMA PhaseType ==
    ASSUME NEW o \in Objects, NEW p \in Phases
    PROVE  /\ [o EXCEPT !.phase = p] \in Objects /\ [o EXCEPT !.phase = p].phase = p
           /\ Same([o EXCEPT !.phase = p], o)
BY DEF Objects, Same

\* Settling a run: it keeps its end, or gets the given one.
LEMMA SettledType ==
    ASSUME NEW o \in Objects, NEW reason \in {"Failed", "Unacked"}
    PROVE  /\ Settled(o, reason) \in Objects /\ Same(Settled(o, reason), o)
           /\ Settled(o, reason).phase = IF Terminal(o.phase) \/ o.completed THEN o.phase ELSE reason
<1>1. reason \in Reasons /\ reason \in Phases
  BY DEF Reasons, Phases
<1> DEFINE p == [o EXCEPT !.phase = reason]
<1>2. p \in Objects /\ p.phase = reason /\ Same(p, o)
  BY <1>1, PhaseType
<1>3. Settled(o, reason) = IF Terminal(o.phase) \/ o.completed THEN o ELSE SetTerminalStatus(p, reason)
  BY DEF Settled
<1> HIDE DEF p
<1> QED BY <1>1, <1>2, <1>3, TerminalType DEF Same

\* Failing a run: it keeps its end, or has failed.
LEMMA FailedType ==
    ASSUME NEW o \in Objects, NEW reason \in Reasons
    PROVE  /\ Failed(o, reason) \in Objects /\ Same(Failed(o, reason), o)
           /\ Failed(o, reason).phase = IF Terminal(o.phase) \/ o.completed THEN o.phase ELSE "Failed"
<1> DEFINE p == [o EXCEPT !.phase = "Failed"]
           q == SetTerminalStatus(p, reason)
           a == IF o.session # NoSession THEN "False" ELSE q.aborted
<1>1. p \in Objects /\ p.phase = "Failed" /\ Same(p, o)
  BY PhaseType DEF Phases
<1>2. Failed(o, reason) = IF Terminal(o.phase) \/ o.completed THEN o ELSE [q EXCEPT !.aborted = a]
  BY DEF Failed
<1> HIDE DEF p
<1>3. q \in Objects /\ q.phase = "Failed" /\ Same(q, o)
  BY <1>1, TerminalType DEF Same
<1> HIDE DEF q
<1>4. a \in {"None", "False", "True"}
  BY <1>3, Fields
<1> HIDE DEF a
<1>5. [q EXCEPT !.aborted = a] \in Objects /\ [q EXCEPT !.aborted = a].phase = "Failed"
      /\ Same([q EXCEPT !.aborted = a], o)
  BY <1>3, <1>4 DEF Objects, Same
<1> QED BY <1>2, <1>5 DEF Same

\* Repairing the status of an ended run.
LEMMA SyncedType ==
    ASSUME NEW o \in Objects
    PROVE  Synced(o) \in Objects /\ Same(Synced(o), o) /\ Synced(o).phase = o.phase
<1> DEFINE r == CASE o.phase = "Failed" -> IF o.ready \in {"None", "Active"} THEN "Failed" ELSE o.ready
                  [] o.phase = "Unacked" -> "Unacked"
                  [] o.phase \notin {"Failed", "Unacked"} -> "Succeeded"
<1>1. r \in Reasons
  <2>1. CASE o.phase = "Failed"
    BY <2>1, Fields DEF Reasons
  <2>2. CASE o.phase = "Unacked"
    BY <2>2 DEF Reasons
  <2>3. CASE o.phase \notin {"Failed", "Unacked"}
    BY <2>3 DEF Reasons
  <2> QED BY <2>1, <2>2, <2>3
<1>2. Synced(o) = SetTerminalStatus(o, r)
  BY DEF Synced
<1> HIDE DEF r
<1> QED BY <1>1, <1>2, TerminalType

\* Queueing a run.
LEMMA QueuedType ==
    ASSUME NEW o \in Objects
    PROVE  Queued(o) \in Objects /\ Same(Queued(o), o) /\ Queued(o).phase = "Pending"
BY DEF Queued, Objects, Phases, Reasons, Same

\* Admitting a run.
LEMMA AdmittedType ==
    ASSUME NEW o \in Objects, NEW s \in Sessions
    PROVE  /\ Admitted(o, s) \in Objects /\ Admitted(o, s).phase = "Running" /\ Admitted(o, s).session = s
           /\ Admitted(o, s).trigger = o.trigger /\ Admitted(o, s).delivery = o.delivery
           /\ Admitted(o, s).live = o.live /\ Admitted(o, s).deleting = o.deleting
BY DEF Admitted, Objects, Phases, Reasons

\* Deleting a run.
LEMMA DeletedType ==
    ASSUME NEW o \in Objects
    PROVE  /\ Deleted(o) \in Objects /\ Deleted(o).phase = o.phase /\ Deleted(o).session = o.session
           /\ Deleted(o).trigger = o.trigger /\ Deleted(o).delivery = o.delivery
           /\ (Deleted(o).live => o.live) /\ (o.deleting => Deleted(o).deleting)
BY DEF Deleted, Objects

\* The initial object, and the controller at rest.
LEMMA CreatedType ==
    ASSUME NEW d \in BOOLEAN, NEW s \in BOOLEAN, NEW t \in BOOLEAN
    PROVE  /\ Created([delivery |-> d, scheduled |-> s, trigger |-> t]) \in Objects
           /\ Created([delivery |-> d, scheduled |-> s, trigger |-> t]).phase = "Unknown"
           /\ Created([delivery |-> d, scheduled |-> s, trigger |-> t]).session = NoSession
BY DEF Created, Objects, Phases, Reasons

\* A place in the reconciliation.
LEMMA AtType ==
    ASSUME NEW pc \in Places, NEW reason \in Reasons, NEW after \in {"done", "retry", "prune", "handoff"},
           NEW o \in Objects
    PROVE  /\ At(pc, reason, after, o) \in Steps /\ At(pc, reason, after, o).pc = pc
           /\ At(pc, reason, after, o).reason = reason /\ At(pc, reason, after, o).after = after
           /\ At(pc, reason, after, o).run = o
BY DEF At, Steps

\* The controller at rest.
LEMMA RestType == Rest \in Steps /\ Rest.pc = "idle" /\ Rest.run.session = NoSession
<1> DEFINE c == Created([delivery |-> FALSE, scheduled |-> FALSE, trigger |-> FALSE])
<1>1. c \in Objects /\ c.session = NoSession
  BY CreatedType
<1>2. Rest = At("idle", "None", "done", c)
  BY DEF Rest
<1>3. "idle" \in Places /\ "None" \in Reasons
  BY DEF Places, Reasons
<1> HIDE DEF c
<1>4. At("idle", "None", "done", c) \in Steps /\ At("idle", "None", "done", c).pc = "idle"
      /\ At("idle", "None", "done", c).run = c
  BY <1>1, <1>3, AtType
<1> QED BY <1>1, <1>2, <1>4

\* What the versions of the run look like.
LEMMA Facts ==
    ASSUME IInv
    PROVE  /\ log \in Seq(Objects) /\ Len(log) \in Nat /\ Len(log) >= 1 /\ seen \in 1 .. Len(log)
           /\ Obj \in Objects /\ Cached \in Objects
           /\ \A i \in 1 .. Len(log) : log[i] \in Objects
           /\ Rank(Cached.phase) <= Rank(Obj.phase)
           /\ Cached.trigger = Obj.trigger /\ Cached.delivery = Obj.delivery
           /\ Cached.session # NoSession => Rank(Cached.phase) >= 2
           /\ Obj.session # NoSession => Rank(Obj.phase) >= 2
           /\ Fresh => Cached = Obj
<1>1. log \in Seq(Objects) /\ log # <<>> /\ seen \in 1 .. Len(log)
  BY DEF IInv, TypeOK, LogOK
<1>2. Len(log) \in Nat /\ Len(log) >= 1 /\ Len(log) \in 1 .. Len(log) /\ seen <= Len(log)
  BY <1>1
<1>3. \A i \in 1 .. Len(log) : log[i] \in Objects
  BY <1>1
<1>4. Obj \in Objects /\ Cached \in Objects
  BY <1>1, <1>2, <1>3 DEF Obj, Cached
<1>5. /\ Rank(Cached.phase) <= Rank(Obj.phase)
      /\ Cached.trigger = Obj.trigger /\ Cached.delivery = Obj.delivery
      /\ Cached.session # NoSession => Rank(Cached.phase) >= 2
      /\ Obj.session # NoSession => Rank(Obj.phase) >= 2
  BY <1>1, <1>2 DEF IInv, LogOK, Obj, Cached
<1> QED BY <1>1, <1>2, <1>3, <1>4, <1>5 DEF Fresh, Obj, Cached

\* The ranks of phases.
LEMMA Ranks ==
    ASSUME NEW p \in Phases
    PROVE  /\ Rank(p) \in Nat /\ Rank(p) <= 3
           /\ (Rank(p) = 0 <=> p = "Unknown") /\ (Rank(p) = 1 <=> p = "Pending")
           /\ (Rank(p) = 2 <=> p = "Running") /\ (Rank(p) = 3 <=> p \in Ends)
           /\ (p \in Early <=> Rank(p) <= 1) /\ (Terminal(p) <=> Rank(p) = 3)
BY DEF Phases, Ends, Early, Terminal, Rank

\* A version that follows does not go back.
LEMMA AdvancesRank ==
    ASSUME IInv, NEW o, Advances(o)
    PROVE  /\ Rank(Obj.phase) <= Rank(o.phase)
           /\ o.session # NoSession => Rank(o.phase) >= 2
           /\ Obj.session # NoSession => o.session = Obj.session
           /\ o.session # Obj.session => Obj.phase = "Pending" /\ o.phase = "Running" /\ Obj.session = NoSession
           /\ (Terminal(Obj.phase) => o.phase = Obj.phase)
<1>1. Obj \in Objects /\ o \in Objects /\ (Obj.session # NoSession => Rank(Obj.phase) >= 2)
  BY Facts DEF Advances
<1>2. Obj.phase \in Phases /\ o.phase \in Phases
  BY <1>1, Fields
<1> QED BY <1>1, <1>2 DEF Advances, Rank, Ends, Phases, Terminal

\* The log after a step that moved the run or left it alone.
LEMMA LogStep ==
    ASSUME IInv, Moved
    PROVE  /\ log' \in Seq(Objects) /\ LogOK' /\ Len(log) <= Len(log')
           /\ Obj' \in Objects /\ Rank(Obj.phase) <= Rank(Obj'.phase)
           /\ Obj'.trigger = Obj.trigger /\ Obj'.delivery = Obj.delivery
           /\ (Obj'.live => Obj.live) /\ (Obj.deleting => Obj'.deleting)
           /\ log' = log => Obj' = Obj
           /\ \A i \in 1 .. Len(log) : log'[i] = log[i]
           /\ Obj.session # NoSession => Obj'.session = Obj.session
           /\ Obj'.session # Obj.session => Obj.phase = "Pending" /\ Obj'.phase = "Running"
           /\ (Terminal(Obj.phase) => Obj'.phase = Obj.phase)
           /\ \A o : Advances(o) /\ log' = Append(log, o) => Obj' = o
<1>1. CASE log' = log
  <2>0. ASSUME NEW o, log' = Append(log, o) PROVE FALSE
    BY <1>1, <2>0, Facts
  <2>1. Obj' = Obj
    BY <1>1 DEF Obj
  <2>2. LogOK'
    BY <1>1, <2>1 DEF IInv, LogOK
  <2>3. Rank(Obj.phase) <= Rank(Obj.phase)
    BY DEF Rank
  <2> QED BY <1>1, <2>0, <2>1, <2>2, <2>3, Facts
<1>2. ASSUME NEW o, Advances(o), log' = Append(log, o)
      PROVE  /\ log' \in Seq(Objects) /\ LogOK' /\ Len(log') = Len(log) + 1
             /\ Obj' = o /\ \A i \in 1 .. Len(log) : log'[i] = log[i]
  <2>1. o \in Objects
    BY <1>2 DEF Advances
  <2>2. log \in Seq(Objects) /\ Len(log) \in Nat /\ Len(log) >= 1
    BY Facts
  <2>3. /\ log' \in Seq(Objects) /\ Len(log') = Len(log) + 1 /\ log'[Len(log) + 1] = o
        /\ \A i \in 1 .. Len(log) : log'[i] = log[i]
    BY <1>2, <2>1, <2>2
  <2>4. Obj' = o
    BY <2>3 DEF Obj
  <2>5. /\ Rank(Obj.phase) <= Rank(o.phase) /\ (o.session # NoSession => Rank(o.phase) >= 2)
        /\ o.trigger = Obj.trigger /\ o.delivery = Obj.delivery
    BY <1>2, AdvancesRank DEF Advances
  <2>6. ASSUME NEW i \in 1 .. Len(log')
        PROVE  /\ log'[i].trigger = o.trigger /\ log'[i].delivery = o.delivery
               /\ log'[i].session # NoSession => Rank(log'[i].phase) >= 2
    <3>1. CASE i \in 1 .. Len(log)
      BY <2>3, <2>5, <3>1 DEF IInv, LogOK
    <3>2. CASE i = Len(log) + 1
      BY <2>3, <2>5, <3>2
    <3> QED BY <2>2, <2>3, <3>1, <3>2
  <2>7. ASSUME NEW i \in 1 .. Len(log'), NEW j \in 1 .. Len(log'), i <= j
        PROVE  Rank(log'[i].phase) <= Rank(log'[j].phase)
    <3>1. CASE j \in 1 .. Len(log)
      <4>1. i \in 1 .. Len(log)
        BY <2>2, <2>7, <3>1
      <4> QED BY <2>3, <2>7, <3>1, <4>1 DEF IInv, LogOK
    <3>2. CASE j = Len(log) + 1 /\ i \in 1 .. Len(log)
      <4>1. Len(log) \in 1 .. Len(log) /\ i <= Len(log) /\ log'[i] = log[i] /\ log'[j] = o
        BY <2>2, <2>3, <3>2
      <4>2. Rank(log[i].phase) <= Rank(Obj.phase)
        BY <3>2, <4>1 DEF IInv, LogOK, Obj
      <4>3. Rank(log[i].phase) \in Int /\ Rank(Obj.phase) \in Int /\ Rank(o.phase) \in Int
        BY DEF Rank
      <4> QED BY <2>5, <4>1, <4>2, <4>3
    <3>3. CASE j = Len(log) + 1 /\ i = Len(log) + 1
      BY <3>3 DEF Rank
    <3> QED BY <2>2, <2>3, <3>1, <3>2, <3>3
  <2>8. LogOK'
    <3>1. log' # <<>>
      BY <2>2, <2>3
    <3> QED BY <2>4, <2>6, <2>7, <3>1 DEF LogOK
  <2> QED BY <2>3, <2>4, <2>8
<1>3. ASSUME NEW o, Advances(o), log' = Append(log, o)
      PROVE  /\ log' \in Seq(Objects) /\ LogOK' /\ Len(log) <= Len(log')
             /\ Obj' \in Objects /\ Rank(Obj.phase) <= Rank(Obj'.phase)
             /\ Obj'.trigger = Obj.trigger /\ Obj'.delivery = Obj.delivery
             /\ (Obj'.live => Obj.live) /\ (Obj.deleting => Obj'.deleting)
             /\ log' # log
             /\ \A i \in 1 .. Len(log) : log'[i] = log[i]
             /\ Obj.session # NoSession => Obj'.session = Obj.session
             /\ Obj'.session # Obj.session => Obj.phase = "Pending" /\ Obj'.phase = "Running"
             /\ (Terminal(Obj.phase) => Obj'.phase = Obj.phase)
             /\ Obj' = o
  <2>1. /\ log' \in Seq(Objects) /\ LogOK' /\ Len(log') = Len(log) + 1
        /\ Obj' = o /\ \A i \in 1 .. Len(log) : log'[i] = log[i]
    BY <1>2, <1>3
  <2>2. Len(log) <= Len(log') /\ log' # log
    BY <2>1, Facts
  <2> QED BY <1>3, <2>1, <2>2, AdvancesRank DEF Advances
<1>4. \A o : Advances(o) /\ log' = Append(log, o) => Obj' = o
  BY <1>3
<1>5. CASE \E o : Advances(o) /\ log' = Append(log, o)
  <2>1. PICK o : Advances(o) /\ log' = Append(log, o)
    BY <1>5
  <2> QED BY <1>3, <1>4, <2>1
<1> QED BY <1>1, <1>5 DEF Moved

-----------------------------------------------------------------------------
(* The parts of the invariant, one at a time *)

\* A refusal is for good.
LEMMA RefusedStays ==
    ASSUME IInv, Moved, open' => open, Refused
    PROVE  Refused'
BY LogStep DEF Refused, MayDeliver

\* The cache only moves on.
LEMMA CacheStep ==
    ASSUME IInv, Moved, seen' \in 1 .. Len(log'), \/ seen' = seen
                                                  \/ log' = log /\ seen' >= seen
    PROVE  Cached' \in Objects /\ Rank(Cached.phase) <= Rank(Cached'.phase)
<1>1. seen \in 1 .. Len(log) /\ seen' \in 1 .. Len(log) /\ seen <= seen' /\ log'[seen'] = log[seen']
  BY Facts, LogStep
<1> QED BY <1>1, Facts DEF IInv, LogOK, Cached

\* A lagging cache stays explained when the run leaves its early phases only
\* by a patch on what the cache holds.
LEMMA LagStep ==
    ASSUME IInv, Moved, open' => open,
           seen' \in 1 .. Len(log'), \/ seen' = seen
                                     \/ log' = log /\ seen' >= seen,
           Obj.phase \in Early /\ Obj'.phase \notin Early => Fresh /\ (Obj.phase = "Unknown" => Refused)
    PROVE  LagOK'
<1> SUFFICES ASSUME Obj'.phase \notin Early, Cached'.phase = "Unknown" PROVE Refused'
  BY DEF LagOK
<1>1. Cached.phase = "Unknown"
  <2>1. Rank(Cached.phase) <= Rank(Cached'.phase) /\ Cached.phase \in Phases
    BY CacheStep, Facts, Fields
  <2>2. Rank(Cached'.phase) = 0
    BY DEF Rank
  <2>3. Rank(Cached.phase) \in Nat
    BY <2>1, Ranks
  <2> QED BY <2>1, <2>2, <2>3, Ranks
<1>2. Refused
  <2>1. CASE Obj.phase \notin Early
    BY <1>1, <2>1 DEF IInv, LagOK
  <2>2. CASE Obj.phase \in Early
    BY <1>1, <2>2, Facts
  <2> QED BY <2>1, <2>2
<1> QED BY <1>2, RefusedStays

\* Sessions that get their prompt are the run's.
LEMMA SessionStep ==
    ASSUME IInv, Moved, submitted' = submitted, inflight' \subseteq inflight,
           \A s \in Sessions : sessions'[s].prompted => sessions[s].prompted \/ s \in inflight
    PROVE  SessionOK'
<1>1. ASSUME NEW s \in Sessions, sessions'[s].prompted \/ s \in inflight' PROVE s = Obj'.session
  <2>1. s = Obj.session
    BY <1>1 DEF IInv, SessionOK
  <2>2. s # NoSession
    BY ConstantsAssumption
  <2> QED BY <2>1, <2>2, LogStep
<1>2. Obj'.session = NoSession => submitted' = 0
  BY LogStep DEF IInv, SessionOK
<1> QED BY <1>1, <1>2 DEF IInv, SessionOK

\* The reconciliation in progress keeps what it relies on while others act.
LEMMA CtlKept ==
    ASSUME IInv, Moved, UNCHANGED <<ctl, submitted>>, open' => open,
           seen' \in 1 .. Len(log'), \/ seen' = seen
                                     \/ log' = log /\ seen' >= seen,
           inflight' \subseteq inflight,
           \A s \in Sessions : sessions'[s].prompted => sessions[s].prompted \/ s \in inflight,
           Obj'.phase # Obj.phase => Obj.phase = "Running" /\ \E s \in Sessions : sessions[s].prompted
    PROVE  CtlOK'
<1>1. /\ Rank(Obj.phase) <= Rank(Obj'.phase) /\ Obj'.delivery = Obj.delivery /\ Obj'.trigger = Obj.trigger
      /\ Obj'.session # Obj.session => Obj.phase = "Pending" /\ Obj'.phase = "Running"
  BY LogStep
<1>2. Rank(Cached.phase) <= Rank(Cached'.phase)
  BY CacheStep
<1>3. /\ Rank(Obj.phase) \in Int /\ Rank(Obj'.phase) \in Int
      /\ Rank(Cached.phase) \in Int /\ Rank(Cached'.phase) \in Int /\ Rank(Cached'.phase) <= 3
  BY DEF Rank
<1>4. Refused => Refused'
  BY RefusedStays
<1>5. /\ ctl.run.session # NoSession => Rank(Obj'.phase) >= 2
      /\ ctl.pc \in {"create", "admit", "unadmit"} => Rank(Obj'.phase) >= 1
      /\ ctl.pc \in {"inspect", "messages", "settle"} => Rank(Obj'.phase) >= 2
  BY <1>1, <1>3 DEF IInv, CtlOK
<1>6. ctl.pc = "markPending" => Obj'.phase \in Early
  BY DEF IInv, CtlOK, Early
<1>7. ctl.pc = "prompt" =>
          /\ Obj'.phase = "Running" /\ submitted' = 0 /\ ctl.sid = Obj'.session
          /\ inflight' = {} /\ \A s \in Sessions : ~sessions'[s].prompted
  BY <1>1 DEF IInv, CtlOK
<1>8. ctl.pc = "fail" => ctl.after # "handoff" /\ (Obj'.phase = "Unknown" => Refused')
  <2>1. Obj'.phase = "Unknown" => Obj.phase = "Unknown"
    BY <1>1, <1>3 DEF Rank
  <2> QED BY <1>4, <2>1 DEF IInv, CtlOK
<1>9. ctl.pc = "handoff" \/ (ctl.pc \in {"sync", "abort", "confirm"} /\ ctl.after = "handoff") =>
          Obj'.delivery /\ Rank(Cached'.phase) = 3
  BY <1>1, <1>2, <1>3 DEF IInv, CtlOK
<1>10. ctl.pc = "deliver" =>
          Obj'.delivery /\ (Obj'.trigger \/ Terminal(ctl.run.phase) => Rank(Cached'.phase) = 3)
  BY <1>1, <1>2, <1>3 DEF IInv, CtlOK
<1>11. /\ ctl.pc \in {"admit", "unadmit", "prompt"} => ctl.sid \in Sessions
       /\ ctl.pc = "settle" => ctl.reason \in {"Failed", "Unacked"}
       /\ ctl.pc \in {"finalAbort", "deleteSession"} => ctl.run.session \in Sessions
  BY DEF IInv, CtlOK
<1> QED BY <1>5, <1>6, <1>7, <1>8, <1>9, <1>10, <1>11 DEF CtlOK

\* A reconciliation that is over relies on nothing.
LEMMA CtlRest == ASSUME ctl' = Rest PROVE CtlOK'
<1>1. ctl'.pc = "idle" /\ ctl'.run.session = NoSession
  BY RestType
<1> QED BY <1>1 DEF CtlOK

-----------------------------------------------------------------------------
(* Steps *)

\* What a step does to the run, as its users see it.
Effect ==
    \/ Moved /\ UNCHANGED <<submitted, inbox>>
    \/ log' = log /\ inbox' = inbox /\ submitted = 0 /\ submitted' = 1 /\ Obj.phase = "Running"
    \/ log' = log /\ submitted' = submitted /\ inbox' = Delivered

\* What no step does to the rest of the state.
Frame ==
    /\ queued' \in BOOLEAN /\ timedOut' \in BOOLEAN /\ graced' \in BOOLEAN
    /\ open' \in BOOLEAN /\ (open' => open)
    /\ crashes' \in Nat /\ faults' \in Nat
    /\ seen' \in 1 .. Len(log') /\ (seen' = seen \/ (log' = log /\ seen' >= seen))

\* Nobody is prompted but by a prompt that was on its way.
Unprompted ==
    /\ sessions' \in [Sessions -> SessionStates]
    /\ inflight' \subseteq inflight
    /\ submitted' = submitted
    /\ \A s \in Sessions : sessions'[s].prompted => sessions[s].prompted \/ s \in inflight

LeavesEarly == Obj.phase \in Early /\ Obj'.phase \notin Early => Fresh /\ (Obj.phase = "Unknown" => Refused)

\* The invariant after a step that prompts nobody.
LEMMA StepInv ==
    ASSUME IInv, Moved, Frame, Unprompted, LeavesEarly, inbox' \subseteq Ends, ctl' \in Steps, CtlOK'
    PROVE  IInv'
<1>1. log' \in Seq(Objects) /\ LogOK'
  BY LogStep
<1>2. SessionOK'
  BY SessionStep DEF Unprompted
<1>3. LagOK'
  BY LagStep DEF Frame, LeavesEarly
<1>4. inflight' \subseteq Sessions /\ submitted' \in Nat
  BY DEF IInv, TypeOK, Unprompted
<1>5. TypeOK'
  BY <1>1, <1>4 DEF TypeOK, Frame, Unprompted
<1> QED BY <1>1, <1>2, <1>3, <1>5 DEF IInv

\* The invariant after a step of anybody but the controller.
LEMMA EnvInv ==
    ASSUME IInv, Moved, Frame, Unprompted, inbox' = inbox, ctl' = ctl,
           Obj'.phase # Obj.phase => Obj.phase = "Running" /\ \E s \in Sessions : sessions[s].prompted
    PROVE  IInv' /\ Effect
<1>1. CtlOK'
  BY CtlKept DEF Frame, Unprompted
<1>2. LeavesEarly
  BY DEF LeavesEarly, Early
<1>3. inbox' \subseteq Ends /\ ctl' \in Steps
  BY DEF IInv, TypeOK
<1> QED BY <1>1, <1>2, <1>3, StepInv DEF Effect, Unprompted

\* A write that may follow the last version, or that changes nothing.
LEMMA StoreStep ==
    ASSUME IInv, NEW o, Advances(o), Store(o)
    PROVE  Moved /\ Obj' = o
<1>1. CASE o = Obj
  <2>1. log' = log
    BY <1>1 DEF Store
  <2> QED BY <1>1, <2>1 DEF Moved, Obj
<1>2. CASE o # Obj
  <2>1. log' = Append(log, o)
    BY <1>2 DEF Store
  <2>2. Moved
    BY <2>1 DEF Moved
  <2> QED BY <2>1, <2>2, LogStep
<1> QED BY <1>1, <1>2

\* A patch that fails may still have landed.
LEMMA FailsStep ==
    ASSUME IInv, NEW o, Fresh => Advances(o), PatchFails(o)
    PROVE  Moved /\ faults' \in Nat /\ (Obj' = Obj \/ (Fresh /\ Obj' = o))
<1>1. CASE ~Fresh /\ UNCHANGED <<log, faults>>
  BY <1>1 DEF Moved, Obj, IInv, TypeOK
<1>2. CASE Fault /\ (UNCHANGED log \/ Patched(o))
  <2>1. faults' \in Nat
    BY <1>2 DEF Fault, IInv, TypeOK
  <2>2. CASE UNCHANGED log
    BY <2>1, <2>2 DEF Moved, Obj
  <2>3. CASE Patched(o)
    BY <2>1, <2>3, StoreStep DEF Patched
  <2> QED BY <1>2, <2>2, <2>3
<1> QED BY <1>1, <1>2 DEF PatchFails

\* The last version stays where it is.
LEMMA Still ==
    ASSUME IInv, log' = log
    PROVE  /\ Moved /\ Obj' = Obj /\ seen \in 1 .. Len(log')
           /\ (seen' = seen => Cached' = Cached)
BY Facts DEF Moved, Obj, Cached

\* The cache stays where it is.
LEMMA CacheStill ==
    ASSUME IInv, Moved, seen' = seen
    PROVE  Cached' = Cached /\ seen' \in 1 .. Len(log') /\ seen \in 1 .. Len(log')
<1>1. seen \in 1 .. Len(log) /\ log'[seen] = log[seen] /\ Len(log) <= Len(log')
      /\ Len(log) \in Nat /\ Len(log') \in Nat
  BY Facts, LogStep
<1> QED BY <1>1 DEF Cached

\* Writes of the same phase and session.
LEMMA SameAdvances ==
    ASSUME IInv, NEW o \in Objects, Same(o, Obj), o.phase = Obj.phase
    PROVE  Advances(o)
BY DEF Advances, Same

\* Sessions when one of them changes.
LEMMA SessionUpdate ==
    ASSUME TypeOK, NEW s \in Sessions, NEW r \in SessionStates, sessions' = [sessions EXCEPT ![s] = r]
    PROVE  /\ sessions' \in [Sessions -> SessionStates] /\ sessions'[s] = r
           /\ \A t \in Sessions : t # s => sessions'[t] = sessions[t]
BY DEF TypeOK

\* Sessions when the state of one of them changes.
LEMMA StateUpdate ==
    ASSUME TypeOK, NEW s \in Sessions, NEW v \in {"absent", "idle", "busy", "gone"},
           sessions' = [sessions EXCEPT ![s].state = v]
    PROVE  /\ sessions' \in [Sessions -> SessionStates]
           /\ \A t \in Sessions : sessions'[t].prompted = sessions[t].prompted
<1> DEFINE r == [sessions[s] EXCEPT !.state = v]
<1>1. sessions[s] \in SessionStates
  BY DEF TypeOK
<1>2. r \in SessionStates /\ r.prompted = sessions[s].prompted
  BY <1>1 DEF SessionStates
<1>3. sessions' = [sessions EXCEPT ![s] = r]
  OBVIOUS
<1> HIDE DEF r
<1> QED BY <1>2, <1>3, SessionUpdate

\* Sessions when one of them is stopped.
LEMMA StoppedUpdate ==
    ASSUME TypeOK, NEW s \in Sessions \cup {NoSession}, sessions' = Stopped(s)
    PROVE  /\ sessions' \in [Sessions -> SessionStates]
           /\ \A t \in Sessions : sessions'[t].prompted = sessions[t].prompted
<1>1. CASE ~Busy(s)
  <2>1. sessions' = sessions
    BY <1>1 DEF Stopped
  <2> QED BY <2>1 DEF TypeOK
<1>2. CASE Busy(s)
  <2> DEFINE r == [sessions[s] EXCEPT !.state = "idle", !.outcome = "error"]
  <2>0. s \in Sessions
    BY <1>2 DEF Busy
  <2>1. sessions[s] \in SessionStates
    BY <2>0 DEF TypeOK
  <2>2. r \in SessionStates /\ r.prompted = sessions[s].prompted
    BY <2>1 DEF SessionStates
  <2>3. sessions' = [sessions EXCEPT ![s] = r]
    BY <1>2 DEF Stopped
  <2> HIDE DEF r
  <2> QED BY <2>0, <2>2, <2>3, SessionUpdate
<1> QED BY <1>1, <1>2

-----------------------------------------------------------------------------
(* Everybody but the controller *)

\* Reported nodes keep their type.
LEMMA PatchType ==
    ASSUME NEW nodes \in Seq(NodeStatus), NEW n \in Nodes, NEW phase \in {"Running", "Succeeded", "Failed"},
           NEW same \in BOOLEAN
    PROVE  ApplyNodeStatusPatch(nodes, n, phase, same) \in Seq(NodeStatus)
<1> DEFINE known == \E i \in DOMAIN nodes : nodes[i].name = n
           list == IF known THEN nodes ELSE Append(nodes, [name |-> n, phase |-> "Disabled"])
           t == CHOOSE i \in DOMAIN list : list[i].name = n
           next == [i \in DOMAIN list |->
                       IF phase = "Running" /\ i < t /\ list[i].phase = "Running"
                       THEN [list[i] EXCEPT !.phase = "Unacked"] ELSE list[i]]
           progressed == \E i \in DOMAIN list : i > t /\ list[i].phase # "Disabled"
           allowed == progressed \/ list[t].phase = (IF phase = "Running" THEN "Disabled" ELSE "Running")
<1>1. ApplyNodeStatusPatch(nodes, n, phase, same) =
          IF list[t].phase = phase /\ same THEN next
          ELSE IF allowed THEN [next EXCEPT ![t].phase = phase]
          ELSE nodes
  BY DEF ApplyNodeStatusPatch
<1>2. [name |-> n, phase |-> "Disabled"] \in NodeStatus
  BY DEF NodeStatus, NodePhases
<1>3. list \in Seq(NodeStatus)
  BY <1>2
<1> HIDE DEF known, list, t, progressed, allowed
<1>4. DOMAIN list = 1 .. Len(list) /\ Len(list) \in Nat /\ \A i \in DOMAIN list : list[i] \in NodeStatus
  BY <1>3
<1>5. ASSUME NEW m \in NodeStatus, NEW v \in NodePhases PROVE [m EXCEPT !.phase = v] \in NodeStatus
  BY DEF NodeStatus
<1>6. "Unacked" \in NodePhases /\ phase \in NodePhases
  BY DEF NodePhases
<1>7. next \in [1 .. Len(list) -> NodeStatus]
  BY <1>4, <1>5, <1>6
<1> HIDE DEF next
<1>8. [next EXCEPT ![t].phase = phase] \in [1 .. Len(list) -> NodeStatus]
  <2>1. CASE t \in 1 .. Len(list)
    <3>1. [next[t] EXCEPT !.phase = phase] \in NodeStatus
      BY <1>5, <1>6, <1>7, <2>1
    <3> DEFINE m == [next[t] EXCEPT !.phase = phase]
    <3>2. [next EXCEPT ![t].phase = phase] = [next EXCEPT ![t] = m]
      OBVIOUS
    <3> HIDE DEF m
    <3> QED BY <1>7, <3>1, <3>2 DEF m
  <2>2. CASE t \notin 1 .. Len(list)
    <3>1. [next EXCEPT ![t].phase = phase] = next
      BY <1>7, <2>2
    <3> QED BY <1>7, <3>1
  <2> QED BY <2>1, <2>2
<1>9. next \in Seq(NodeStatus) /\ [next EXCEPT ![t].phase = phase] \in Seq(NodeStatus)
  BY <1>4, <1>7, <1>8
<1> QED BY <1>1, <1>9

\* Nothing but the last version changes when the object is written.
LEMMA WriteFrame ==
    ASSUME IInv, Moved, UNCHANGED <<seen, queued, opencode, world>>
    PROVE  Frame /\ Unprompted /\ inbox' = inbox
<1>1. UNCHANGED <<seen, queued, sessions, inflight, submitted, open, inbox, timedOut, graced, crashes, faults>>
  BY DEF opencode, world
<1>2. seen' \in 1 .. Len(log')
  BY <1>1, CacheStill
<1>3. Frame
  BY <1>1, <1>2 DEF Frame, IInv, TypeOK
<1> QED BY <1>1, <1>3 DEF Unprompted, IInv, TypeOK

\* The gateway writes a running run.
LEMMA GatewayInv ==
    ASSUME IInv, NEW o, Advances(o), GatewayPatch(o), \E s \in Sessions : sessions[s].prompted
    PROVE  IInv' /\ Effect
<1>1. Moved /\ Obj.phase = "Running"
  BY StoreStep DEF GatewayPatch
<1>2. Frame /\ Unprompted /\ inbox' = inbox /\ ctl' = ctl
  BY <1>1, WriteFrame DEF GatewayPatch
<1> QED BY <1>1, <1>2, EnvInv

\* The agent reports.
LEMMA ReportInv ==
    ASSUME IInv, NEW s \in Sessions, NEW phase \in {"Succeeded", "Failed"}, PatchRunStatus(s, phase)
    PROVE  IInv' /\ Effect
<1> DEFINE n == Unacknowledged(Obj.nodes)
           o == [Obj EXCEPT !.phase = phase, !.completed = TRUE, !.nodes = n]
<1>1. Obj \in Objects /\ n \in Seq(NodeStatus)
  BY Facts, Fields, NodesType
<1>2. GatewayPatch(o) /\ sessions[s].prompted
  BY DEF PatchRunStatus
<1> HIDE DEF n
<1>3. phase \in Phases
  BY DEF Phases
<1>4. o \in Objects
  BY <1>1, <1>3 DEF Objects
<1>5. o.phase = phase /\ Same(o, Obj)
  BY <1>1 DEF Objects, Same
<1> HIDE DEF o
<1>6. Obj.phase = "Running"
  BY <1>2 DEF GatewayPatch
<1>7. Advances(o)
  BY <1>4, <1>5, <1>6 DEF Advances, Same, Ends
<1> QED BY <1>2, <1>7, GatewayInv

\* The agent reports a node.
LEMMA NodeInv ==
    ASSUME IInv, NEW s \in Sessions, NEW n \in Nodes, NEW phase \in {"Running", "Succeeded", "Failed"},
           PatchRunNodeStatus(s, n, phase)
    PROVE  IInv' /\ Effect
<1>1. PICK same \in BOOLEAN :
          GatewayPatch([Obj EXCEPT !.nodes = ApplyNodeStatusPatch(Obj.nodes, n, phase, same)])
  BY DEF PatchRunNodeStatus
<1> DEFINE l == ApplyNodeStatusPatch(Obj.nodes, n, phase, same)
           o == [Obj EXCEPT !.nodes = l]
<1>2. Obj \in Objects /\ l \in Seq(NodeStatus)
  BY Facts, Fields, PatchType
<1>3. GatewayPatch(o) /\ sessions[s].prompted
  BY <1>1 DEF PatchRunNodeStatus
<1> HIDE DEF l
<1>4. o \in Objects /\ o.phase = Obj.phase /\ Same(o, Obj)
  BY <1>2 DEF Objects, Same
<1> HIDE DEF o
<1> QED BY <1>3, <1>4, SameAdvances, GatewayInv

\* Somebody deletes the run.
LEMMA DeleteInv == ASSUME IInv, DeleteRun PROVE IInv' /\ Effect
<1>1. Obj \in Objects
  BY Facts
<1>2. Advances(Deleted(Obj))
  BY <1>1, DeletedType DEF Advances
<1>3. Moved /\ Obj' = Deleted(Obj)
  BY <1>2, StoreStep DEF DeleteRun
<1>4. Frame /\ Unprompted /\ inbox' = inbox /\ ctl' = ctl
  BY <1>3, WriteFrame DEF DeleteRun
<1>5. Obj'.phase = Obj.phase
  BY <1>1, <1>3, DeletedType
<1> QED BY <1>3, <1>4, <1>5, EnvInv

\* OpenCode, the cache, the conversation and the clock.
LEMMA OtherInv ==
    ASSUME IInv, \/ CacheSync \/ CloseDestination \/ CleanChat \/ TimeoutPasses \/ GracePasses
                 \/ \E s \in Sessions : PromptArrives(s)
                 \/ \E s \in Sessions : \E outcome \in {"none", "ok", "error"} : SessionEnds(s, outcome)
    PROVE  IInv' /\ Effect
<1>1. log' = log /\ inbox' = inbox /\ ctl' = ctl /\ submitted' = submitted /\ crashes' = crashes
      /\ faults' = faults
  BY DEF CacheSync, CloseDestination, CleanChat, TimeoutPasses, GracePasses, PromptArrives, SessionEnds,
         object, opencode, world
<1>2. Moved /\ Obj' = Obj
  BY <1>1, Still
<1>3. Frame
  <2>1. CASE CacheSync
    BY <1>1, <2>1, Facts DEF CacheSync, opencode, world, Frame, IInv, TypeOK
  <2>2. CASE ~CacheSync
    <3>1. seen' = seen /\ queued' = queued
      BY <2>2 DEF CloseDestination, CleanChat, TimeoutPasses, GracePasses, PromptArrives, SessionEnds,
                  object
    <3>2. (open' = open \/ open' = FALSE) /\ (timedOut' = timedOut \/ timedOut' = TRUE)
          /\ (graced' = graced \/ graced' = TRUE)
      BY <2>2 DEF CloseDestination, CleanChat, TimeoutPasses, GracePasses, PromptArrives, SessionEnds,
                  world
    <3>3. open \in BOOLEAN /\ timedOut \in BOOLEAN /\ graced \in BOOLEAN /\ queued \in BOOLEAN
          /\ crashes \in Nat /\ faults \in Nat /\ seen \in 1 .. Len(log)
      BY DEF IInv, TypeOK
    <3>4. open' \in BOOLEAN /\ (open' => open) /\ timedOut' \in BOOLEAN /\ graced' \in BOOLEAN
      <4>1. open' \in BOOLEAN
        BY <3>2, <3>3
      <4>2. open' => open
        BY <3>2
      <4>3. timedOut' \in BOOLEAN
        BY <3>2, <3>3
      <4>4. graced' \in BOOLEAN
        BY <3>2, <3>3
      <4> QED BY <4>1, <4>2, <4>3, <4>4
    <3> QED BY <1>1, <3>1, <3>3, <3>4 DEF Frame
  <2> QED BY <2>1, <2>2
<1>4. Unprompted
  <2>0. TypeOK
    BY DEF IInv
  <2>1. CASE UNCHANGED <<sessions, inflight>>
    BY <1>1, <2>0, <2>1 DEF Unprompted, TypeOK
  <2>2. CASE CleanChat
    <3>1. inflight' = inflight
      BY <2>2 DEF CleanChat
    <3>2. ASSUME NEW r \in SessionStates
          PROVE  [r EXCEPT !.state = "gone"] \in SessionStates /\ [r EXCEPT !.state = "gone"].prompted = r.prompted
      BY DEF SessionStates
    <3>3. \A t \in Sessions : sessions[t] \in SessionStates
      BY <2>0 DEF TypeOK
    <3>4. sessions' = [t \in Sessions |->
             IF Exists(t) THEN [sessions[t] EXCEPT !.state = "gone"] ELSE sessions[t]]
      BY <2>2 DEF CleanChat
    <3>5. sessions' \in [Sessions -> SessionStates]
      BY <3>2, <3>3, <3>4
    <3>6. \A t \in Sessions : sessions'[t].prompted = sessions[t].prompted
      BY <3>2, <3>3, <3>4
    <3> QED BY <1>1, <3>1, <3>5, <3>6 DEF Unprompted
  <2>3. ASSUME NEW s \in Sessions, PromptArrives(s) PROVE Unprompted
    <3> DEFINE r == [sessions[s] EXCEPT !.state = "busy", !.prompted = TRUE, !.late = TRUE]
    <3>1. inflight' \subseteq inflight /\ s \in inflight /\ sessions[s] \in SessionStates
      BY <2>0, <2>3 DEF PromptArrives, TypeOK
    <3>2. sessions' = sessions \/ sessions' = [sessions EXCEPT ![s] = r]
      BY <2>3 DEF PromptArrives
    <3>3. r \in SessionStates
      BY <3>1 DEF SessionStates
    <3> HIDE DEF r
    <3> QED BY <1>1, <2>0, <3>1, <3>2, <3>3, SessionUpdate DEF Unprompted, TypeOK
  <2>4. ASSUME NEW s \in Sessions, NEW outcome \in {"none", "ok", "error"}, SessionEnds(s, outcome)
        PROVE  Unprompted
    <3> DEFINE r == [sessions[s] EXCEPT !.state = "idle", !.outcome = outcome]
    <3>1. inflight' = inflight /\ sessions[s] \in SessionStates
      BY <2>0, <2>4 DEF SessionEnds, TypeOK
    <3>2. sessions' = [sessions EXCEPT ![s] = r]
      BY <2>4 DEF SessionEnds
    <3>3. r \in SessionStates /\ r.prompted = sessions[s].prompted
      BY <3>1 DEF SessionStates
    <3> HIDE DEF r
    <3> QED BY <1>1, <2>0, <3>1, <3>2, <3>3, SessionUpdate DEF Unprompted
  <2> QED BY <2>1, <2>2, <2>3, <2>4
          DEF CacheSync, CloseDestination, TimeoutPasses, GracePasses, opencode
<1> QED BY <1>1, <1>2, <1>3, <1>4, EnvInv

-----------------------------------------------------------------------------
(* The controller *)

\* What every call of the controller but a prompt and a delivery leaves alone.
Call ==
    /\ UNCHANGED <<seen, inflight, submitted, open, inbox, timedOut, graced, crashes>>
    /\ faults' \in Nat
    /\ sessions' \in [Sessions -> SessionStates]
    /\ \A t \in Sessions : sessions'[t].prompted = sessions[t].prompted

\* The invariant after such a call.
LEMMA CallInv ==
    ASSUME IInv, Moved, Call, LeavesEarly, queued' \in BOOLEAN, ctl' \in Steps, CtlOK'
    PROVE  IInv' /\ Effect
<1>1. seen' \in 1 .. Len(log')
  BY CacheStill DEF Call
<1>2. Frame
  BY <1>1 DEF Frame, Call, IInv, TypeOK
<1>3. Unprompted
  BY DEF Unprompted, Call
<1>4. inbox' \subseteq Ends
  BY DEF Call, IInv, TypeOK
<1> QED BY <1>2, <1>3, <1>4, StepInv DEF Effect, Call

\* A call after which the reconciliation is over.
LEMMA OverInv ==
    ASSUME IInv, Moved, Call, LeavesEarly, Done \/ Requeue
    PROVE  IInv' /\ Effect
<1>1. ctl' = Rest /\ (queued' = queued \/ queued' = TRUE)
  BY DEF Done, Requeue
<1>2. queued \in BOOLEAN
  BY DEF IInv, TypeOK
<1>3. queued' \in BOOLEAN
  BY <1>1, <1>2
<1>4. CtlOK' /\ ctl' \in Steps
  BY <1>1, CtlRest, RestType
<1> QED BY <1>3, <1>4, CallInv

\* Sessions stay as they are.
LEMMA SessionsStill ==
    ASSUME IInv, sessions' = sessions
    PROVE  /\ sessions' \in [Sessions -> SessionStates]
           /\ \A t \in Sessions : sessions'[t].prompted = sessions[t].prompted
BY DEF IInv, TypeOK

\* The next place of a reconciliation.
LEMMA PcType ==
    ASSUME IInv, NEW pc \in Places
    PROVE  /\ [ctl EXCEPT !.pc = pc] \in Steps /\ [ctl EXCEPT !.pc = pc].pc = pc
           /\ [ctl EXCEPT !.pc = pc].run = ctl.run /\ [ctl EXCEPT !.pc = pc].sid = ctl.sid
           /\ [ctl EXCEPT !.pc = pc].reason = ctl.reason /\ [ctl EXCEPT !.pc = pc].after = ctl.after
           /\ ctl.run \in Objects /\ ctl.reason \in Reasons /\ ctl.after \in {"done", "retry", "prune", "handoff"}
           /\ ctl.sid \in Sessions \cup {NoSession}
BY DEF IInv, TypeOK, Steps

\* The run as the reconciliation read it is a version of the run, when it has a
\* session, that was admitted.
LEMMA CtlRun ==
    ASSUME IInv
    PROVE  /\ ctl \in Steps /\ ctl.run \in Objects /\ ctl.reason \in Reasons
           /\ ctl.after \in {"done", "retry", "prune", "handoff"} /\ ctl.sid \in Sessions \cup {NoSession}
           /\ ctl.run.session # NoSession => Rank(Obj.phase) >= 2
           /\ Rank(Obj.phase) \in Int
BY DEF IInv, TypeOK, Steps, CtlOK, Rank

\* The same phase is no move.
LEMMA SamePhase == ASSUME Obj'.phase = Obj.phase PROVE LeavesEarly
BY DEF LeavesEarly

\* A call without a write ends the reconciliation.
LEMMA OverStill ==
    ASSUME IInv, log' = log, Call, Done \/ Requeue
    PROVE  IInv' /\ Effect
BY Still, SamePhase, OverInv

\* A call without a write after which the reconciliation goes on.
LEMMA GoesOn ==
    ASSUME IInv, log' = log, Call, queued' \in BOOLEAN, ctl' \in Steps, CtlOK'
    PROVE  IInv' /\ Effect
BY Still, SamePhase, CallInv

\* A run without a session has the controller rely on little.
LEMMA CtlFail ==
    ASSUME IInv, log' = log, open' = open, ctl'.pc = "fail", ctl'.after # "handoff", ctl'.run = ctl.run,
           Obj.phase = "Unknown" => Refused
    PROVE  CtlOK'
<1>1. Obj' = Obj
  BY Still
<1>2. Refused' = Refused
  BY <1>1 DEF Refused, MayDeliver
<1> QED BY <1>1, <1>2, CtlRun DEF CtlOK

\* addFinalizer.
LEMMA AddFinalizerInv == ASSUME IInv, NEW ok \in BOOLEAN, AddFinalizer(ok) PROVE IInv' /\ Effect
<1> DEFINE o == [Obj EXCEPT !.finalizer = TRUE]
<1>1. Obj \in Objects
  BY Facts
<1>2. o \in Objects /\ o.phase = Obj.phase /\ Same(o, Obj)
  BY <1>1 DEF Objects, Same
<1>3. IF ok THEN (UNCHANGED log \/ Patched(o)) /\ UNCHANGED faults ELSE PatchFails(o)
  BY DEF AddFinalizer
<1> HIDE DEF o
<1>4. Moved /\ faults' \in Nat /\ Obj'.phase = Obj.phase
  <2>1. Advances(o)
    BY <1>2, SameAdvances
  <2>2. CASE UNCHANGED log /\ UNCHANGED faults
    BY <2>2, Still DEF IInv, TypeOK
  <2>3. CASE Patched(o) /\ UNCHANGED faults
    BY <1>2, <2>1, <2>3, StoreStep DEF Patched, IInv, TypeOK
  <2>4. CASE PatchFails(o)
    BY <1>2, <2>1, <2>4, FailsStep
  <2> QED BY <1>3, <2>2, <2>3, <2>4
<1>5. UNCHANGED <<seen, sessions, inflight, submitted, open, inbox, timedOut, graced, crashes>> /\ Requeue
  BY DEF AddFinalizer, opencode
<1>6. Call
  BY <1>4, <1>5, SessionsStill DEF Call
<1> QED BY <1>4, <1>5, <1>6, SamePhase, OverInv

\* markPending.
LEMMA MarkPendingInv == ASSUME IInv, NEW ok \in BOOLEAN, MarkPending(ok) PROVE IInv' /\ Effect
<1> DEFINE o == Queued(Obj)
<1>1. Obj \in Objects /\ Obj.phase \in Early
  BY Facts DEF MarkPending, IInv, CtlOK
<1>2. o \in Objects /\ o.phase = "Pending" /\ Same(o, Obj)
  BY <1>1, QueuedType
<1>3. IF ok THEN Patched(o) /\ UNCHANGED faults ELSE PatchFails(o)
  BY DEF MarkPending
<1> HIDE DEF o
<1>4. Advances(o)
  BY <1>1, <1>2 DEF Advances, Same, Early
<1>5. Moved /\ faults' \in Nat /\ (Obj' = Obj \/ Obj' = o)
  <2>1. CASE Patched(o) /\ UNCHANGED faults
    BY <1>4, <2>1, StoreStep DEF Patched, IInv, TypeOK
  <2>2. CASE PatchFails(o)
    BY <1>4, <2>2, FailsStep
  <2> QED BY <1>3, <2>1, <2>2
<1>6. LeavesEarly
  BY <1>1, <1>2, <1>5 DEF LeavesEarly, Early
<1>7. UNCHANGED <<seen, sessions, inflight, submitted, open, inbox, timedOut, graced, crashes>> /\ Requeue
  BY DEF MarkPending, opencode
<1>8. Call
  BY <1>5, <1>7, SessionsStill DEF Call
<1> QED BY <1>5, <1>6, <1>7, <1>8, OverInv

\* startRun creates a session.
LEMMA CreateSessionInv == ASSUME IInv, NEW ok \in BOOLEAN, CreateSession(ok) PROVE IInv' /\ Effect
<1>1. /\ ctl.pc = "create" /\ log' = log /\ seen' = seen /\ queued' = queued
      /\ UNCHANGED <<inflight, submitted, open, inbox, timedOut, graced, crashes>>
  BY DEF CreateSession, object
<1>2. TypeOK /\ faults \in Nat /\ queued \in BOOLEAN
  BY DEF IInv, TypeOK
<1>3. faults' \in Nat
  <2>1. faults' = faults \/ faults' = faults + 1
    BY DEF CreateSession, Fault
  <2> QED BY <1>2, <2>1
<1>4. /\ sessions' \in [Sessions -> SessionStates]
      /\ \A t \in Sessions : sessions'[t].prompted = sessions[t].prompted
  <2>1. sessions' = sessions \/ \E s \in Sessions : NewSession(s)
    BY DEF CreateSession
  <2>2. ASSUME NEW s \in Sessions, NewSession(s)
        PROVE  /\ sessions' \in [Sessions -> SessionStates]
               /\ \A t \in Sessions : sessions'[t].prompted = sessions[t].prompted
    <3>1. sessions' = [sessions EXCEPT ![s].state = "idle"]
      BY <2>2 DEF NewSession
    <3> QED BY <1>2, <3>1, StateUpdate
  <2> QED BY <2>1, <2>2, SessionsStill
<1>5. Call
  BY <1>1, <1>3, <1>4 DEF Call
<1>6. Rank(Obj.phase) >= 1 /\ Obj' = Obj
  BY <1>1, Still DEF IInv, CtlOK
<1>7. ctl' \in Steps /\ CtlOK'
  <2>1. ASSUME NEW s \in Sessions, ctl' = [ctl EXCEPT !.pc = "admit", !.sid = s]
        PROVE  ctl' \in Steps /\ CtlOK'
    <3>1. ctl' \in Steps /\ ctl'.pc = "admit" /\ ctl'.sid = s /\ ctl'.run = ctl.run
      BY <2>1, CtlRun DEF Steps, Places
    <3> QED BY <1>6, <3>1, CtlRun DEF CtlOK
  <2>2. CASE ctl' = FailWith("GatewayError", ctl.run)
    <3>0. "fail" \in Places /\ "GatewayError" \in Reasons
      BY DEF Places, Reasons
    <3>1. ctl' \in Steps /\ ctl'.pc = "fail" /\ ctl'.after = "done" /\ ctl'.run = ctl.run
      BY <2>2, <3>0, CtlRun, AtType DEF FailWith
    <3>2. Obj.phase # "Unknown"
      BY <1>6 DEF Rank
    <3> QED BY <1>1, <3>1, <3>2, CtlFail
  <2> QED BY <2>1, <2>2 DEF CreateSession
<1> QED BY <1>1, <1>2, <1>5, <1>7, GoesOn

\* startRun admits the run.
LEMMA AdmitInv == ASSUME IInv, NEW ok \in BOOLEAN, Admit(ok) PROVE IInv' /\ Effect
<1> DEFINE o == Admitted(Obj, ctl.sid)
<1>1. Obj \in Objects /\ ctl.sid \in Sessions /\ Rank(Obj.phase) >= 1
  BY Facts DEF Admit, IInv, CtlOK
<1>2. /\ o \in Objects /\ o.phase = "Running" /\ o.session = ctl.sid
      /\ o.trigger = Obj.trigger /\ o.delivery = Obj.delivery /\ o.live = Obj.live /\ o.deleting = Obj.deleting
  BY <1>1, AdmittedType
<1>3. UNCHANGED <<seen, queued, sessions, inflight, submitted, open, inbox, timedOut, graced, crashes>>
  BY DEF Admit, opencode
<1>4. \/ Admissible(Obj) /\ Patched(o) /\ ctl' = [ctl EXCEPT !.pc = "prompt", !.run = o] /\ faults' = faults
      \/ /\ \/ UNCHANGED <<log, faults>>
            \/ Admissible(Cached) /\ PatchFails(o)
         /\ ctl' = [ctl EXCEPT !.pc = "unadmit"]
  BY DEF Admit
<1>5. queued \in BOOLEAN /\ faults \in Nat
  BY DEF IInv, TypeOK
<1> HIDE DEF o
<1>6. ASSUME Obj.phase = "Pending" PROVE Advances(o)
  BY <1>1, <1>2, <1>6 DEF Advances
<1>7. CASE Admissible(Obj) /\ Patched(o) /\ ctl' = [ctl EXCEPT !.pc = "prompt", !.run = o] /\ faults' = faults
  <2>1. Obj.phase = "Pending" /\ Fresh
    BY <1>7 DEF Admissible, Patched
  <2>2. Moved /\ Obj' = o
    BY <1>6, <1>7, <2>1, StoreStep DEF Patched
  <2>3. Obj.session = NoSession
    BY <2>1, Facts DEF Rank
  <2>4. submitted = 0 /\ inflight = {} /\ \A s \in Sessions : ~sessions[s].prompted
    BY <2>3, ConstantsAssumption DEF IInv, TypeOK, SessionOK
  <2>5. ctl' \in Steps /\ ctl'.pc = "prompt" /\ ctl'.sid = ctl.sid /\ ctl'.run = o
    BY <1>2, <1>7, CtlRun DEF Steps, Places
  <2>6. Rank(Obj'.phase) >= 2
    BY <1>2, <2>2 DEF Rank
  <2>7. CtlOK'
    BY <1>1, <1>2, <1>3, <2>2, <2>4, <2>5, <2>6 DEF CtlOK
  <2>8. LeavesEarly
    BY <2>1 DEF LeavesEarly
  <2>9. Call
    BY <1>3, <1>5, <1>7, SessionsStill DEF Call
  <2> QED BY <1>3, <1>5, <2>2, <2>5, <2>7, <2>8, <2>9, CallInv
<1>8. CASE /\ \/ UNCHANGED <<log, faults>>
              \/ Admissible(Cached) /\ PatchFails(o)
           /\ ctl' = [ctl EXCEPT !.pc = "unadmit"]
  <2>1. Moved /\ faults' \in Nat /\ (Obj' = Obj \/ (Fresh /\ Obj.phase = "Pending"))
    <3>1. CASE UNCHANGED <<log, faults>>
      BY <1>5, <3>1, Still
    <3>2. CASE Admissible(Cached) /\ PatchFails(o)
      <4>1. Fresh => Obj.phase = "Pending"
        BY <3>2, Facts DEF Admissible
      <4> QED BY <1>6, <3>2, <4>1, FailsStep
    <3> QED BY <1>8, <3>1, <3>2
  <2>2. LeavesEarly
    BY <2>1 DEF LeavesEarly
  <2>3. Call
    BY <1>3, <2>1, SessionsStill DEF Call
  <2>4. Rank(Obj'.phase) >= Rank(Obj.phase) /\ Rank(Obj'.phase) \in Int /\ Rank(Obj.phase) \in Int
    BY <2>1, LogStep DEF Rank
  <2>5. "unadmit" \in Places
    BY DEF Places
  <2>6. ctl' \in Steps /\ ctl'.pc = "unadmit" /\ ctl'.sid = ctl.sid /\ ctl'.run = ctl.run
    BY <1>8, <2>5, PcType
  <2>7. CtlOK'
    BY <1>1, <2>4, <2>6, CtlRun DEF CtlOK
  <2> QED BY <1>3, <1>5, <2>1, <2>2, <2>3, <2>6, <2>7, CallInv
<1> QED BY <1>4, <1>7, <1>8

\* A place that fails the run.
LEMMA FailType ==
    ASSUME IInv, NEW reason \in Reasons, NEW after \in {"done", "retry"}, ctl' = At("fail", reason, after, ctl.run)
    PROVE  ctl' \in Steps /\ ctl'.pc = "fail" /\ ctl'.after # "handoff" /\ ctl'.run = ctl.run
<1>1. "fail" \in Places
  BY DEF Places
<1> QED BY <1>1, CtlRun, AtType

\* startRun gives up a session it could not admit.
LEMMA UnadmitInv == ASSUME IInv, Unadmit PROVE IInv' /\ Effect
<1>1. /\ ctl.pc = "unadmit" /\ log' = log /\ seen' = seen /\ queued' = queued
      /\ UNCHANGED <<inflight, submitted, open, inbox, timedOut, graced, crashes>>
  BY DEF Unadmit, object
<1>2. TypeOK /\ faults \in Nat /\ queued \in BOOLEAN /\ ctl.sid \in Sessions /\ Rank(Obj.phase) >= 1
  BY <1>1 DEF IInv, TypeOK, CtlOK
<1>3. faults' \in Nat
  <2>1. faults' = faults \/ faults' = faults + 1
    BY DEF Unadmit, Fault
  <2> QED BY <1>2, <2>1
<1>4. sessions' = sessions \/ sessions' = [sessions EXCEPT ![ctl.sid].state = "gone"]
  BY DEF Unadmit
<1>5. /\ sessions' \in [Sessions -> SessionStates]
      /\ \A t \in Sessions : sessions'[t].prompted = sessions[t].prompted
  BY <1>2, <1>4, StateUpdate, SessionsStill
<1>6. Call
  BY <1>1, <1>3, <1>5 DEF Call
<1>7. ctl' = At("fail", "GatewayError", "done", ctl.run) /\ "GatewayError" \in Reasons
  BY DEF Unadmit, FailWith, Reasons
<1>8. ctl' \in Steps /\ CtlOK'
  <2>1. Obj.phase # "Unknown"
    BY <1>2 DEF Rank
  <2> QED BY <1>1, <1>7, <2>1, FailType, CtlFail
<1> QED BY <1>1, <1>2, <1>6, <1>8, GoesOn

\* startRun submits the prompt.
LEMMA PromptInv == ASSUME IInv, NEW ok \in BOOLEAN, Prompt(ok) PROVE IInv' /\ Effect
<1>1. /\ ctl.pc = "prompt" /\ log' = log /\ seen' = seen /\ submitted' = submitted + 1
      /\ UNCHANGED <<open, inbox, timedOut, graced, crashes>>
  BY DEF Prompt
<1>2. /\ Obj.phase = "Running" /\ submitted = 0 /\ ctl.sid = Obj.session /\ ctl.sid \in Sessions
      /\ inflight = {} /\ \A s \in Sessions : ~sessions[s].prompted
  BY <1>1 DEF IInv, CtlOK
<1>3. TypeOK /\ faults \in Nat /\ queued \in BOOLEAN
  BY DEF IInv, TypeOK
<1>4. Obj' = Obj /\ Moved /\ Cached' = Cached /\ seen \in 1 .. Len(log')
  BY <1>1, Still
<1>5. faults' \in Nat
  <2>1. faults' = faults \/ faults' = faults + 1
    BY DEF Prompt, Uncertain, Fault
  <2> QED BY <1>3, <2>1
<1>6. queued' \in BOOLEAN
  <2>1. queued' = queued \/ queued' = TRUE
    BY DEF Prompt, Requeue
  <2> QED BY <1>3, <2>1
<1>7. /\ sessions' \in [Sessions -> SessionStates]
      /\ \A t \in Sessions : sessions'[t].prompted => t = ctl.sid
  <2>1. sessions' = sessions \/ Receive(ctl.sid)
    BY DEF Prompt, Uncertain
  <2>2. CASE sessions' = sessions
    BY <1>2, <1>3, <2>2 DEF TypeOK
  <2>3. CASE Receive(ctl.sid)
    <3> DEFINE r == [sessions[ctl.sid] EXCEPT !.state = "busy", !.prompted = TRUE]
    <3>1. sessions[ctl.sid] \in SessionStates
      BY <1>2, <1>3 DEF TypeOK
    <3>2. r \in SessionStates
      BY <3>1 DEF SessionStates
    <3>3. sessions' = [sessions EXCEPT ![ctl.sid] = r]
      BY <2>3 DEF Receive
    <3> HIDE DEF r
    <3> QED BY <1>2, <1>3, <3>2, <3>3, SessionUpdate
  <2> QED BY <2>1, <2>2, <2>3
<1>8. inflight' \subseteq {ctl.sid}
  BY <1>2 DEF Prompt, Uncertain
<1>9. SessionOK'
  <2>1. submitted' = 1
    BY <1>1, <1>2
  <2>2. Obj'.session # NoSession
    BY <1>2, <1>4, ConstantsAssumption
  <2> QED BY <1>2, <1>4, <1>7, <1>8, <2>1, <2>2 DEF SessionOK
<1>10. ctl' \in Steps /\ CtlOK'
  <2>1. CASE ctl' = Rest
    BY <2>1, RestType, CtlRest
  <2>2. CASE ctl' = At("fail", "GatewayError", "done", ctl.run)
    BY <1>1, <1>2, <2>2, FailType, CtlFail DEF Reasons
  <2> QED BY <2>1, <2>2 DEF Prompt, Requeue, FailWith
<1>11. LogOK'
  BY <1>4, LogStep
<1>12. Refused' = Refused
  BY <1>1, <1>4 DEF Refused, MayDeliver
<1>13. LagOK'
  BY <1>4, <1>12 DEF IInv, LagOK
<1>14. inflight' \subseteq Sessions /\ submitted' \in Nat
  BY <1>1, <1>2, <1>8
<1>15. TypeOK'
  BY <1>1, <1>3, <1>5, <1>6, <1>7, <1>10, <1>14 DEF TypeOK
<1>16. Effect
  BY <1>1, <1>2 DEF Effect
<1> QED BY <1>9, <1>10, <1>11, <1>13, <1>15, <1>16 DEF IInv

\* A call that touches neither the object nor OpenCode, and may fail.
LEMMA QuietCall ==
    ASSUME IInv, faults' = faults \/ faults' = faults + 1,
           UNCHANGED <<seen, sessions, inflight, submitted, open, inbox, timedOut, graced, crashes>>
    PROVE  Call /\ faults \in Nat /\ queued \in BOOLEAN
<1>1. faults \in Nat /\ queued \in BOOLEAN
  BY DEF IInv, TypeOK
<1>2. faults' \in Nat
  BY <1>1
<1> QED BY <1>1, <1>2, SessionsStill DEF Call

\* reconcileRunning reads the status.
LEMMA InspectInv == ASSUME IInv, NEW ok \in BOOLEAN, Inspect(ok) PROVE IInv' /\ Effect
<1>1. /\ ctl.pc = "inspect" /\ log' = log
      /\ UNCHANGED <<seen, sessions, inflight, submitted, open, inbox, timedOut, graced, crashes>>
  BY DEF Inspect, opencode
<1>2. faults' = faults \/ faults' = faults + 1
  BY DEF Inspect, Fault
<1>3. Call /\ queued \in BOOLEAN
  BY <1>1, <1>2, QuietCall
<1>4. CASE Requeue
  BY <1>1, <1>3, <1>4, OverStill
<1>5. CASE ctl' = [ctl EXCEPT !.pc = "messages"] /\ UNCHANGED queued
  <2>1. "messages" \in Places
    BY DEF Places
  <2>2. ctl' \in Steps /\ ctl'.pc = "messages" /\ ctl'.run = ctl.run
    BY <1>5, <2>1, PcType
  <2>3. Rank(Obj.phase) >= 2 /\ Obj' = Obj
    BY <1>1, Still DEF IInv, CtlOK
  <2>4. CtlOK'
    BY <2>2, <2>3 DEF CtlOK
  <2> QED BY <1>1, <1>3, <1>5, <2>2, <2>4, GoesOn
<1> QED BY <1>4, <1>5 DEF Inspect

\* reconcileRunning reads the messages.
LEMMA ReadMessagesInv == ASSUME IInv, NEW ok \in BOOLEAN, ReadMessages(ok) PROVE IInv' /\ Effect
<1>1. /\ ctl.pc = "messages" /\ log' = log
      /\ UNCHANGED <<seen, sessions, inflight, submitted, open, inbox, timedOut, graced, crashes>>
  BY DEF ReadMessages, opencode
<1>2. faults' = faults \/ faults' = faults + 1
  BY DEF ReadMessages, Fault
<1>3. Call /\ queued \in BOOLEAN
  BY <1>1, <1>2, QuietCall
<1>4. CASE Requeue
  BY <1>1, <1>3, <1>4, OverStill
<1>5. ASSUME NEW r \in {"Failed", "Unacked"}, ctl' = [ctl EXCEPT !.pc = "settle", !.reason = r], UNCHANGED queued
      PROVE  IInv' /\ Effect
  <2>1. "settle" \in Places /\ r \in Reasons
    BY DEF Places, Reasons
  <2>2. ctl' \in Steps /\ ctl'.pc = "settle" /\ ctl'.run = ctl.run /\ ctl'.reason = r
    BY <1>5, <2>1, CtlRun DEF Steps
  <2>3. Rank(Obj.phase) >= 2 /\ Obj' = Obj
    BY <1>1, Still DEF IInv, CtlOK
  <2>4. CtlOK'
    BY <2>2, <2>3 DEF CtlOK
  <2> QED BY <1>1, <1>3, <1>5, <2>2, <2>4, GoesOn
<1>6. Requeue \/ \E r \in {"Failed", "Unacked"} : ctl' = [ctl EXCEPT !.pc = "settle", !.reason = r] /\ UNCHANGED queued
  BY DEF ReadMessages
<1> QED BY <1>4, <1>5, <1>6

\* A patch that lands or fails.
LEMMA PatchStep ==
    ASSUME IInv, NEW o, Fresh => Advances(o),
           (Patched(o) /\ UNCHANGED faults) \/ PatchFails(o)
    PROVE  Moved /\ faults' \in Nat /\ (Obj' = Obj \/ (Fresh /\ Obj' = o)) /\ (Patched(o) => Fresh /\ Obj' = o)
<1>1. Patched(o) => Fresh /\ Moved /\ Obj' = o
  BY StoreStep DEF Patched
<1>2. CASE Patched(o) /\ UNCHANGED faults
  BY <1>1, <1>2 DEF IInv, TypeOK
<1>3. CASE PatchFails(o)
  BY <1>1, <1>3, FailsStep
<1> QED BY <1>2, <1>3

\* reconcileRunning settles the run.
LEMMA SettleInv == ASSUME IInv, NEW ok \in BOOLEAN, Settle(ok) PROVE IInv' /\ Effect
<1> DEFINE o == Settled(Obj, ctl.reason)
<1>1. Obj \in Objects /\ Rank(Obj.phase) >= 2 /\ ctl.reason \in {"Failed", "Unacked"}
  BY Facts DEF Settle, IInv, CtlOK
<1>2. /\ o \in Objects /\ Same(o, Obj)
      /\ o.phase = IF Terminal(Obj.phase) \/ Obj.completed THEN Obj.phase ELSE ctl.reason
  BY <1>1, SettledType
<1>3. /\ (Patched(o) /\ UNCHANGED faults) \/ PatchFails(o)
      /\ Done \/ Requeue
      /\ UNCHANGED <<seen, sessions, inflight, submitted, open, inbox, timedOut, graced, crashes>>
  BY DEF Settle, opencode
<1> HIDE DEF o
<1>4. Obj.phase \in Phases
  BY <1>1, Fields
<1>5. Advances(o)
  BY <1>1, <1>2, <1>4 DEF Advances, Same, Ends, Terminal, Rank, Phases
<1>6. Moved /\ faults' \in Nat
  BY <1>3, <1>5, PatchStep
<1>7. LeavesEarly
  BY <1>1, <1>4, Ranks DEF LeavesEarly
<1>8. Call
  BY <1>3, <1>6, SessionsStill DEF Call
<1> QED BY <1>3, <1>6, <1>7, <1>8, OverInv

\* failRun.
LEMMA FailRunInv == ASSUME IInv, NEW ok \in BOOLEAN, FailRun(ok) PROVE IInv' /\ Effect
<1> DEFINE o == Failed(Obj, ctl.reason)
<1>1. Obj \in Objects /\ ctl.reason \in Reasons /\ ctl.pc = "fail" /\ ctl.after # "handoff"
      /\ (Obj.phase = "Unknown" => Refused)
  BY Facts, CtlRun DEF FailRun, IInv, CtlOK
<1>2. /\ o \in Objects /\ Same(o, Obj)
      /\ o.phase = IF Terminal(Obj.phase) \/ Obj.completed THEN Obj.phase ELSE "Failed"
  BY <1>1, FailedType
<1>3. /\ \/ Patched(o) /\ faults' = faults /\ ctl' = At("sync", "None", ctl.after, o) /\ queued' = queued
         \/ PatchFails(o) /\ Requeue
      /\ UNCHANGED <<seen, sessions, inflight, submitted, open, inbox, timedOut, graced, crashes>>
  BY DEF FailRun, opencode
<1> HIDE DEF o
<1>4. Advances(o)
  BY <1>2 DEF Advances, Same, Ends, Terminal
<1>5. Moved /\ faults' \in Nat /\ (Obj' = Obj \/ (Fresh /\ Obj' = o)) /\ (Patched(o) => Obj' = o)
  BY <1>3, <1>4, PatchStep
<1>6. LeavesEarly
  BY <1>1, <1>5 DEF LeavesEarly
<1>7. Call
  BY <1>3, <1>5, SessionsStill DEF Call
<1>8. CASE PatchFails(o) /\ Requeue
  BY <1>5, <1>6, <1>7, <1>8, OverInv
<1>9. CASE Patched(o) /\ faults' = faults /\ ctl' = At("sync", "None", ctl.after, o) /\ queued' = queued
  <2>1. "sync" \in Places /\ "None" \in Reasons
    BY DEF Places, Reasons
  <2>2. ctl' \in Steps /\ ctl'.pc = "sync" /\ ctl'.after = ctl.after /\ ctl'.run = o
    BY <1>2, <1>9, <2>1, AtType, CtlRun
  <2>3. o.session # NoSession => Rank(Obj'.phase) >= 2
    BY <1>4, <1>5, <1>9, AdvancesRank
  <2>4. CtlOK'
    BY <1>1, <2>2, <2>3 DEF CtlOK
  <2>5. queued \in BOOLEAN
    BY DEF IInv, TypeOK
  <2> QED BY <1>5, <1>6, <1>7, <1>9, <2>2, <2>4, <2>5, CallInv
<1> QED BY <1>3, <1>8, <1>9

\* syncTerminalStatus returns.
LEMMA ReturnInv ==
    ASSUME IInv, Moved, Call, LeavesEarly, NEW o \in Objects, o = Obj', Return(ctl.after, o),
           ctl.pc \in {"sync", "confirm"}
    PROVE  IInv' /\ Effect
<1>1. ctl.after \in {"done", "retry", "prune", "handoff"} /\ queued \in BOOLEAN
  BY CtlRun DEF IInv, TypeOK
<1>2. o.session # NoSession => Rank(Obj'.phase) >= 2
  <2>1. LogOK' /\ log' \in Seq(Objects)
    BY LogStep
  <2>2. Len(log') \in 1 .. Len(log')
    BY <2>1, LogStep, Facts
  <2> QED BY <2>1, <2>2 DEF LogOK, Obj
<1>3. "prune" \in Places /\ "deliver" \in Places /\ "handoff" \in Places /\ "None" \in Reasons
  BY DEF Places, Reasons
<1>4. CASE Done \/ Requeue
  BY <1>4, OverInv
<1>5. CASE ctl' = Goto("prune", o) /\ queued' = queued
  <2>1. ctl' \in Steps /\ ctl'.pc = "prune" /\ ctl'.run = o
    BY <1>3, <1>5, AtType DEF Goto
  <2>2. CtlOK'
    BY <1>2, <2>1 DEF CtlOK
  <2> QED BY <1>1, <1>5, <2>1, <2>2, CallInv
<1>6. CASE /\ ctl.after = "handoff" /\ queued' = queued
           /\ ctl' = Goto("deliver", o) \/ ctl' = Goto("handoff", o)
  <2>1. ctl' \in Steps /\ ctl'.pc \in {"deliver", "handoff"} /\ ctl'.run = o
    BY <1>3, <1>6, AtType DEF Goto
  <2>2. Obj.delivery /\ Rank(Cached.phase) = 3
    BY <1>6 DEF IInv, CtlOK
  <2>3. Obj'.delivery /\ Rank(Cached'.phase) = 3
    BY <2>2, LogStep, CacheStill DEF Call
  <2>4. CtlOK'
    BY <1>2, <2>1, <2>3 DEF CtlOK
  <2> QED BY <1>1, <1>6, <2>1, <2>4, CallInv
<1>7. CASE ctl.after = "done"
  BY <1>4, <1>7 DEF Return
<1>8. CASE ctl.after = "retry"
  BY <1>4, <1>8 DEF Return
<1>9. CASE ctl.after = "prune"
  BY <1>5, <1>9 DEF Return
<1>10. CASE ctl.after = "handoff"
  BY <1>6, <1>10 DEF Return
<1> QED BY <1>1, <1>7, <1>8, <1>9, <1>10

\* What a reconciliation that syncs relies on, for its next place.
LEMMA CtlSync ==
    ASSUME IInv, Moved, seen' = seen, ctl.pc \in {"sync", "abort", "confirm"},
           ctl'.pc \in {"sync", "abort", "confirm"}, ctl'.after = ctl.after,
           ctl'.run.session # NoSession => Rank(Obj'.phase) >= 2
    PROVE  CtlOK'
<1>1. ctl.after = "handoff" => Obj.delivery /\ Rank(Cached.phase) = 3
  BY DEF IInv, CtlOK
<1>2. ctl.after = "handoff" => Obj'.delivery /\ Rank(Cached'.phase) = 3
  BY <1>1, LogStep, CacheStill
<1> QED BY <1>2 DEF CtlOK

\* syncTerminalStatus repairs the status.
LEMMA SyncInv == ASSUME IInv, NEW ok \in BOOLEAN, SyncTerminalStatus(ok) PROVE IInv' /\ Effect
<1> DEFINE o == Synced(Obj)
<1>1. Obj \in Objects /\ ctl.pc = "sync" /\ queued \in BOOLEAN
  BY Facts DEF SyncTerminalStatus, IInv, TypeOK
<1>2. o \in Objects /\ Same(o, Obj) /\ o.phase = Obj.phase
  BY <1>1, SyncedType
<1>3. /\ \/ /\ Patched(o) /\ faults' = faults
            /\ \/ ctl' = [ctl EXCEPT !.pc = "abort", !.run = o] /\ queued' = queued
               \/ Return(ctl.after, o)
         \/ PatchFails(o) /\ Requeue
      /\ UNCHANGED <<seen, sessions, inflight, submitted, open, inbox, timedOut, graced, crashes>>
  BY DEF SyncTerminalStatus, opencode
<1> HIDE DEF o
<1>4. Advances(o)
  BY <1>2, SameAdvances
<1>5. Moved /\ faults' \in Nat /\ (Obj' = Obj \/ (Fresh /\ Obj' = o)) /\ (Patched(o) => Obj' = o)
  BY <1>3, <1>4, PatchStep
<1>6. LeavesEarly
  BY <1>2, <1>5, SamePhase
<1>7. Call
  BY <1>3, <1>5, SessionsStill DEF Call
<1>8. CASE PatchFails(o) /\ Requeue
  BY <1>5, <1>6, <1>7, <1>8, OverInv
<1>9. CASE Patched(o) /\ Return(ctl.after, o)
  BY <1>1, <1>2, <1>5, <1>6, <1>7, <1>9, ReturnInv
<1>10. CASE Patched(o) /\ ctl' = [ctl EXCEPT !.pc = "abort", !.run = o] /\ queued' = queued
  <2>1. ctl' \in Steps /\ ctl'.pc = "abort" /\ ctl'.after = ctl.after /\ ctl'.run = o
    BY <1>2, <1>10, CtlRun DEF Steps, Places
  <2>2. o.session # NoSession => Rank(Obj'.phase) >= 2
    BY <1>4, <1>5, <1>10, AdvancesRank
  <2>3. CtlOK'
    BY <1>1, <1>5, <1>7, <2>1, <2>2, CtlSync DEF Call
  <2> QED BY <1>1, <1>5, <1>6, <1>7, <1>10, <2>1, <2>3, CallInv
<1> QED BY <1>3, <1>8, <1>9, <1>10

\* abortRun changes sessions only.
LEMMA AbortCall ==
    ASSUME IInv, NEW ok \in BOOLEAN, AbortRun(ok),
           UNCHANGED <<seen, inflight, submitted, open, inbox, timedOut, graced, crashes>>
    PROVE  Call /\ queued \in BOOLEAN
<1>1. TypeOK /\ faults \in Nat /\ queued \in BOOLEAN
  BY DEF IInv, TypeOK
<1>2. faults' = faults \/ faults' = faults + 1
  BY DEF AbortRun, Fault
<1>3. faults' \in Nat
  BY <1>1, <1>2
<1>4. sessions' = sessions \/ sessions' = Stopped(ctl.run.session)
  BY DEF AbortRun
<1>5. ctl.run.session \in Sessions \cup {NoSession}
  BY CtlRun, Fields
<1> QED BY <1>1, <1>3, <1>4, <1>5, SessionsStill, StoppedUpdate DEF Call

\* syncTerminalStatus cancels the session.
LEMMA AbortInv == ASSUME IInv, NEW ok \in BOOLEAN, AbortSession(ok) PROVE IInv' /\ Effect
<1>1. /\ ctl.pc = "abort" /\ log' = log /\ AbortRun(ok)
      /\ UNCHANGED <<seen, inflight, submitted, open, inbox, timedOut, graced, crashes>>
  BY DEF AbortSession
<1>2. Call /\ queued \in BOOLEAN
  BY <1>1, AbortCall
<1>3. CASE Requeue
  BY <1>1, <1>2, <1>3, OverStill
<1>4. CASE ctl' = [ctl EXCEPT !.pc = "confirm"] /\ UNCHANGED queued
  <2>1. "confirm" \in Places
    BY DEF Places
  <2>2. ctl' \in Steps /\ ctl'.pc = "confirm" /\ ctl'.after = ctl.after /\ ctl'.run = ctl.run
    BY <1>4, <2>1, PcType
  <2>3. CtlOK'
    BY <1>1, <2>2, Still, CtlRun, CtlSync
  <2> QED BY <1>1, <1>2, <1>4, <2>2, <2>3, GoesOn
<1> QED BY <1>3, <1>4 DEF AbortSession

\* syncTerminalStatus records the cancellation.
LEMMA ConfirmInv == ASSUME IInv, NEW ok \in BOOLEAN, ConfirmAbort(ok) PROVE IInv' /\ Effect
<1> DEFINE o == [Obj EXCEPT !.aborted = "True"]
<1>1. Obj \in Objects /\ ctl.pc = "confirm"
  BY Facts DEF ConfirmAbort
<1>2. o \in Objects /\ Same(o, Obj) /\ o.phase = Obj.phase
  BY <1>1 DEF Objects, Same
<1>3. /\ \/ Patched(o) /\ faults' = faults /\ Return(ctl.after, o)
         \/ PatchFails(o) /\ Requeue
      /\ UNCHANGED <<seen, sessions, inflight, submitted, open, inbox, timedOut, graced, crashes>>
  BY DEF ConfirmAbort, opencode
<1> HIDE DEF o
<1>4. Advances(o)
  BY <1>2, SameAdvances
<1>5. Moved /\ faults' \in Nat /\ (Obj' = Obj \/ (Fresh /\ Obj' = o)) /\ (Patched(o) => Obj' = o)
  BY <1>3, <1>4, PatchStep
<1>6. LeavesEarly
  BY <1>2, <1>5, SamePhase
<1>7. Call
  BY <1>3, <1>5, SessionsStill DEF Call
<1>8. CASE PatchFails(o) /\ Requeue
  BY <1>5, <1>6, <1>7, <1>8, OverInv
<1>9. CASE Patched(o) /\ Return(ctl.after, o)
  BY <1>1, <1>2, <1>5, <1>6, <1>7, <1>9, ReturnInv
<1> QED BY <1>3, <1>8, <1>9

\* pruneOrphanRuns.
LEMMA PruneInv == ASSUME IInv, PruneOrphanRuns PROVE IInv' /\ Effect
<1>1. /\ log' = log \/ Store(Deleted(Obj))
      /\ Done
      /\ UNCHANGED <<seen, sessions, inflight, submitted, open, inbox, timedOut, graced, crashes, faults>>
  BY DEF PruneOrphanRuns, opencode, world
<1>2. Obj \in Objects
  BY Facts
<1>3. Advances(Deleted(Obj)) /\ Deleted(Obj).phase = Obj.phase
  BY <1>2, DeletedType DEF Advances
<1>4. Moved /\ Obj'.phase = Obj.phase
  BY <1>1, <1>3, StoreStep, Still
<1>5. Call
  BY <1>1, QuietCall
<1> QED BY <1>1, <1>4, <1>5, SamePhase, OverInv

\* Reconcile waits for the session before it hands over.
LEMMA CheckIdleInv == ASSUME IInv, NEW ok \in BOOLEAN, CheckIdle(ok) PROVE IInv' /\ Effect
<1>1. /\ ctl.pc = "handoff" /\ log' = log
      /\ UNCHANGED <<seen, sessions, inflight, submitted, open, inbox, timedOut, graced, crashes>>
  BY DEF CheckIdle, opencode
<1>2. faults' = faults \/ faults' = faults + 1
  BY DEF CheckIdle, Fault
<1>3. Call /\ queued \in BOOLEAN
  BY <1>1, <1>2, QuietCall
<1>4. CASE Requeue
  BY <1>1, <1>3, <1>4, OverStill
<1>5. CASE ctl' = [ctl EXCEPT !.pc = "deliver"] /\ UNCHANGED queued
  <2>1. "deliver" \in Places
    BY DEF Places
  <2>2. ctl' \in Steps /\ ctl'.pc = "deliver" /\ ctl'.run = ctl.run
    BY <1>5, <2>1, PcType
  <2>3. Obj.delivery /\ Rank(Cached.phase) = 3 /\ Obj' = Obj /\ Cached' = Cached
    BY <1>1, Still DEF IInv, CtlOK
  <2>4. CtlOK'
    BY <2>2, <2>3, CtlRun DEF CtlOK
  <2> QED BY <1>1, <1>3, <1>5, <2>2, <2>4, GoesOn
<1> QED BY <1>4, <1>5 DEF CheckIdle

\* What the cached version calls for.
Called(c) ==
    /\ c \in Steps
    /\ c.run.session # NoSession => Rank(Cached.phase) >= 2
    /\ c.pc \in {"idle", "addFinalizer", "sync", "markPending", "fail", "create", "inspect"}
    /\ c.pc = "markPending" => Cached.phase = "Unknown"
    /\ c.pc = "create" => Rank(Cached.phase) = 1
    /\ c.pc = "inspect" => Rank(Cached.phase) = 2
    /\ c.pc = "fail" => c.after = "done" /\ Rank(Cached.phase) >= 1
    /\ c.pc = "sync" => c.after = "prune"

\* Reconcile decides.
LEMMA Decides == ASSUME IInv PROVE Called(Decide(Cached))
<1> DEFINE o == Cached
<1>1. o \in Objects /\ (o.session # NoSession => Rank(o.phase) >= 2) /\ o.phase \in Phases
  BY Facts, Fields
<1>2. /\ {"addFinalizer", "sync", "markPending", "fail", "create", "inspect"} \subseteq Places
      /\ {"None", "TimedOut"} \subseteq Reasons
  BY DEF Places, Reasons
<1>3. o.live \in BOOLEAN /\ o.finalizer \in BOOLEAN /\ o.completed \in BOOLEAN
  BY <1>1, Fields
<1>4. ASSUME NEW pc \in {"addFinalizer", "markPending", "create", "inspect"}
      PROVE  Goto(pc, o) \in Steps /\ Goto(pc, o).pc = pc /\ Goto(pc, o).run = o
  BY <1>1, <1>2, <1>4, AtType DEF Goto
<1> HIDE DEF o
<1>5. CASE ~o.live
  <2>1. Decide(o) = Rest
    BY <1>5 DEF Decide
  <2> QED BY <2>1, RestType DEF Called, o
<1>6. CASE o.live /\ ~o.finalizer
  <2>1. Decide(o) = Goto("addFinalizer", o)
    BY <1>6 DEF Decide
  <2> QED BY <1>1, <1>4, <2>1 DEF Called, o
<1>7. CASE o.live /\ o.finalizer /\ (Terminal(o.phase) \/ (o.phase = "Unknown" /\ o.completed))
  <2>1. Decide(o) = At("sync", "None", "prune", o)
    <3>1. ~(o.phase \in {"Pending", "Running"}) /\ ~(o.phase = "Unknown" /\ ~o.completed)
      BY <1>7 DEF Terminal, Ends
    <3> QED BY <1>7, <3>1 DEF Decide
  <2>2. /\ Decide(o) \in Steps /\ Decide(o).pc = "sync" /\ Decide(o).after = "prune" /\ Decide(o).run = o
    BY <1>1, <1>2, <2>1, AtType
  <2> QED BY <1>1, <2>2 DEF Called, o
<1>8. CASE o.live /\ o.finalizer /\ o.phase = "Unknown" /\ ~o.completed
  <2>1. Decide(o) = Goto("markPending", o)
    BY <1>8 DEF Decide, Terminal, Ends
  <2> QED BY <1>1, <1>4, <1>8, <2>1 DEF Called, o
<1>9. CASE o.live /\ o.finalizer /\ o.phase \in {"Pending", "Running"}
  <2>1. Decide(o) = IF o.session # NoSession /\ timedOut THEN FailWith("TimedOut", o)
                    ELSE Goto(IF o.phase = "Pending" THEN "create" ELSE "inspect", o)
    BY <1>9 DEF Decide, Terminal, Ends
  <2>2. Rank(o.phase) = IF o.phase = "Pending" THEN 1 ELSE 2
    BY <1>9 DEF Rank
  <2>3. CASE o.session # NoSession /\ timedOut
    <3>1. Decide(o) = At("fail", "TimedOut", "done", o)
      BY <2>1, <2>3 DEF FailWith
    <3>2. Decide(o) \in Steps /\ Decide(o).pc = "fail" /\ Decide(o).after = "done" /\ Decide(o).run = o
      BY <1>1, <1>2, <3>1, AtType
    <3> QED BY <1>1, <2>2, <3>2 DEF Called, o
  <2>4. CASE ~(o.session # NoSession /\ timedOut) /\ o.phase = "Pending"
    <3>1. Decide(o) = Goto("create", o)
      BY <2>1, <2>4
    <3> QED BY <1>1, <1>4, <2>2, <2>4, <3>1 DEF Called, o
  <2>5. CASE ~(o.session # NoSession /\ timedOut) /\ o.phase = "Running"
    <3>1. Decide(o) = Goto("inspect", o)
      BY <2>1, <2>5
    <3> QED BY <1>1, <1>4, <2>2, <2>5, <3>1 DEF Called, o
  <2> QED BY <1>9, <2>3, <2>4, <2>5
<1>10. o.phase \in {"Unknown", "Pending", "Running"} \/ Terminal(o.phase)
  BY <1>1 DEF Phases, Terminal, Ends
<1>11. Called(Decide(o))
  BY <1>3, <1>5, <1>6, <1>7, <1>8, <1>9, <1>10 DEF o
<1> QED BY <1>11 DEF o

\* The controller may rely on what the cached version calls for.
LEMMA CalledOK ==
    ASSUME IInv, log' = log, seen' = seen, Called(ctl'), Cached.phase = "Unknown" => ~Refused
    PROVE  CtlOK'
<1>1. Obj' = Obj /\ Cached' = Cached
  BY Still
<1>2. Rank(Cached.phase) <= Rank(Obj.phase) /\ Rank(Cached.phase) \in Int /\ Rank(Obj.phase) \in Int
  BY Facts DEF Rank
<1>3. ctl'.pc = "markPending" => Obj.phase \in Early
  BY DEF IInv, LagOK, Called
<1>4. ctl'.pc = "fail" => Obj.phase # "Unknown"
  BY <1>2 DEF Called, Rank
<1>5. Rank(Cached.phase) >= 1 => Rank(Obj.phase) >= 1
  BY <1>2
<1>6. Rank(Cached.phase) >= 2 => Rank(Obj.phase) >= 2
  BY <1>2
<1> QED BY <1>1, <1>2, <1>3, <1>4, <1>5, <1>6 DEF CtlOK, Called

\* DeliverWorkflowSession.
LEMMA DeliverInv == ASSUME IInv, NEW ok \in BOOLEAN, Deliver(ok) PROVE IInv' /\ Effect
<1>1. /\ ctl.pc = "deliver" /\ log' = log
      /\ UNCHANGED <<seen, sessions, inflight, submitted, open, timedOut, graced, crashes>>
  BY DEF Deliver, opencode
<1>2. faults' = faults \/ faults' = faults + 1
  BY DEF Deliver, Fault
<1>3. inbox' = inbox \/ inbox' = Delivered
  BY DEF Deliver
<1>4. \/ MayDeliver /\ ctl' = Decide(Cached)
      \/ ~MayDeliver /\ Terminal(ctl.run.phase) /\ ctl' = Decide(Cached)
      \/ ~MayDeliver /\ ctl' = At("fail", "GatewayError", "done", ctl.run)
      \/ ctl.run.session # NoSession /\ ctl' = At("fail", "TimedOut", "retry", ctl.run)
      \/ ctl' = Rest
  BY DEF Deliver, FailWith
<1>5. queued' \in BOOLEAN
  BY DEF Deliver
<1>6. Obj.delivery /\ (Obj.trigger \/ Terminal(ctl.run.phase) => Rank(Cached.phase) = 3)
  BY <1>1 DEF IInv, CtlOK
<1>7. ctl' \in Steps /\ CtlOK'
  <2>1. CASE MayDeliver /\ ctl' = Decide(Cached)
    <3>1. Cached.phase = "Unknown" => ~Refused
      BY <1>6, <2>1 DEF Refused, Rank
    <3>2. Called(ctl')
      BY <2>1, Decides
    <3> QED BY <1>1, <3>1, <3>2, CalledOK DEF Called
  <2>2. CASE ~MayDeliver /\ Terminal(ctl.run.phase) /\ ctl' = Decide(Cached)
    <3>1. Cached.phase # "Unknown"
      BY <1>6, <2>2 DEF Rank
    <3>2. Called(ctl')
      BY <2>2, Decides
    <3> QED BY <1>1, <3>1, <3>2, CalledOK DEF Called
  <2>3. CASE ~MayDeliver /\ ctl' = At("fail", "GatewayError", "done", ctl.run)
    <3>1. Refused /\ "GatewayError" \in Reasons
      BY <1>6, <2>3 DEF Refused, Reasons
    <3> QED BY <1>1, <2>3, <3>1, FailType, CtlFail
  <2>4. CASE ctl.run.session # NoSession /\ ctl' = At("fail", "TimedOut", "retry", ctl.run)
    <3>1. Obj.phase # "Unknown" /\ "TimedOut" \in Reasons
      BY <2>4, CtlRun DEF Rank, Reasons
    <3> QED BY <1>1, <2>4, <3>1, FailType, CtlFail
  <2>5. CASE ctl' = Rest
    BY <2>5, RestType, CtlRest
  <2> QED BY <1>4, <2>1, <2>2, <2>3, <2>4, <2>5
<1>8. Delivered \subseteq Ends /\ inbox \subseteq Ends
  <2>1. inbox \subseteq Ends
    BY DEF IInv, TypeOK
  <2> QED BY <2>1 DEF Delivered, Terminal
<1>9. Effect
  <2>1. Moved
    BY <1>1, Still
  <2> QED BY <1>1, <1>3, <2>1 DEF Effect
<1>10. IInv'
  <2>1. Moved /\ Obj' = Obj /\ seen \in 1 .. Len(log')
    BY <1>1, Still
  <2>3. faults \in Nat /\ TypeOK
    BY DEF IInv, TypeOK
  <2>4. faults' \in Nat
    BY <1>2, <2>3
  <2>5. Frame
    BY <1>1, <1>5, <2>1, <2>3, <2>4 DEF Frame, TypeOK
  <2>6. Unprompted
    BY <1>1, <2>3 DEF Unprompted, TypeOK
  <2>7. LeavesEarly
    BY <2>1, SamePhase
  <2> QED BY <1>3, <1>7, <1>8, <2>1, <2>5, <2>6, <2>7, StepInv
<1> QED BY <1>9, <1>10

\* finalizeRun stops the session.
LEMMA FinalAbortInv == ASSUME IInv, NEW ok \in BOOLEAN, FinalAbort(ok) PROVE IInv' /\ Effect
<1>1. /\ ctl.pc = "finalAbort" /\ log' = log /\ AbortRun(ok)
      /\ UNCHANGED <<seen, inflight, submitted, open, inbox, timedOut, graced, crashes>>
  BY DEF FinalAbort
<1>2. Call /\ queued \in BOOLEAN
  BY <1>1, AbortCall
<1>3. CASE Requeue
  BY <1>1, <1>2, <1>3, OverStill
<1>4. CASE /\ ctl' = [ctl EXCEPT !.pc = IF ctl.run.delivery THEN "unfinalize" ELSE "deleteSession"]
           /\ UNCHANGED queued
  <2> DEFINE pc == IF ctl.run.delivery THEN "unfinalize" ELSE "deleteSession"
  <2>1. pc \in Places /\ pc \in {"unfinalize", "deleteSession"}
    BY DEF Places
  <2> HIDE DEF pc
  <2>2. ctl' \in Steps /\ ctl'.pc = pc /\ ctl'.run = ctl.run
    BY <1>4, <2>1, PcType DEF pc
  <2>3. Obj' = Obj /\ ctl.run.session \in Sessions
    BY <1>1, Still DEF IInv, CtlOK
  <2>4. CtlOK'
    BY <2>1, <2>2, <2>3, CtlRun DEF CtlOK
  <2> QED BY <1>1, <1>2, <1>4, <2>2, <2>4, GoesOn
<1> QED BY <1>3, <1>4 DEF FinalAbort

\* finalizeRun deletes the session.
LEMMA DeleteSessionInv == ASSUME IInv, NEW ok \in BOOLEAN, DeleteSession(ok) PROVE IInv' /\ Effect
<1>1. /\ ctl.pc = "deleteSession" /\ log' = log
      /\ UNCHANGED <<seen, inflight, submitted, open, inbox, timedOut, graced, crashes>>
  BY DEF DeleteSession
<1>2. TypeOK /\ faults \in Nat /\ queued \in BOOLEAN /\ ctl.run.session \in Sessions
  BY <1>1 DEF IInv, TypeOK, CtlOK
<1>3. faults' = faults \/ faults' = faults + 1
  BY DEF DeleteSession, Fault
<1>4. sessions' = sessions \/ sessions' = [sessions EXCEPT ![ctl.run.session].state = "gone"]
  BY DEF DeleteSession
<1>5. /\ sessions' \in [Sessions -> SessionStates]
      /\ \A t \in Sessions : sessions'[t].prompted = sessions[t].prompted
  BY <1>2, <1>4, StateUpdate, SessionsStill
<1>6. Call
  <2>1. faults' \in Nat
    BY <1>2, <1>3
  <2> QED BY <1>1, <1>5, <2>1 DEF Call
<1>7. CASE Requeue
  BY <1>1, <1>6, <1>7, OverStill
<1>8. CASE ctl' = [ctl EXCEPT !.pc = "unfinalize"] /\ queued' = queued
  <2>1. "unfinalize" \in Places
    BY DEF Places
  <2>2. ctl' \in Steps /\ ctl'.pc = "unfinalize" /\ ctl'.run = ctl.run
    BY <1>8, <2>1, PcType
  <2>3. Obj' = Obj
    BY <1>1, Still
  <2>4. CtlOK'
    BY <2>2, <2>3, CtlRun DEF CtlOK
  <2> QED BY <1>1, <1>2, <1>6, <1>8, <2>2, <2>4, GoesOn
<1> QED BY <1>7, <1>8 DEF DeleteSession

\* finalizeRun lets the object go.
LEMMA UnfinalizeInv == ASSUME IInv, NEW ok \in BOOLEAN, Unfinalize(ok) PROVE IInv' /\ Effect
<1> DEFINE f == [Obj EXCEPT !.finalizer = FALSE]
           o == [f EXCEPT !.live = FALSE]
<1>1. Obj \in Objects
  BY Facts
<1>2. /\ (log' = log /\ faults' = faults) \/ (Patched(o) /\ UNCHANGED faults) \/ PatchFails(o)
      /\ Done \/ Requeue
      /\ UNCHANGED <<seen, sessions, inflight, submitted, open, inbox, timedOut, graced, crashes>>
  BY DEF Unfinalize, opencode
<1>3. f \in Objects /\ Same(f, Obj) /\ f.phase = Obj.phase
  BY <1>1 DEF Objects, Same
<1> HIDE DEF f
<1>4. /\ o \in Objects /\ o.phase = Obj.phase /\ o.session = Obj.session /\ o.trigger = Obj.trigger
      /\ o.delivery = Obj.delivery /\ o.deleting = Obj.deleting /\ ~o.live
  BY <1>3 DEF Objects, Same
<1> HIDE DEF o
<1>5. Advances(o)
  BY <1>4 DEF Advances
<1>6. Moved /\ faults' \in Nat /\ Obj'.phase = Obj.phase
  <2>1. CASE log' = log /\ faults' = faults
    BY <2>1, Still DEF IInv, TypeOK
  <2>2. CASE (Patched(o) /\ UNCHANGED faults) \/ PatchFails(o)
    BY <1>4, <1>5, <2>2, PatchStep
  <2> QED BY <1>2, <2>1, <2>2
<1>7. Call
  BY <1>2, <1>6, SessionsStill DEF Call
<1> QED BY <1>2, <1>6, <1>7, SamePhase, OverInv

\* A reconciliation starts.
LEMMA BeginInv == ASSUME IInv, Begin PROVE IInv' /\ Effect
<1> DEFINE o == Cached
<1>1. /\ log' = log /\ queued' = FALSE /\ ctl' = Route(o)
      /\ UNCHANGED <<seen, sessions, inflight, submitted, open, inbox, timedOut, graced, crashes, faults>>
  BY DEF Begin, opencode, world
<1>2. Call
  BY <1>1, QuietCall
<1>3. /\ o \in Objects /\ o.phase \in Phases /\ o.session \in Sessions \cup {NoSession}
      /\ o.trigger = Obj.trigger /\ o.delivery = Obj.delivery
      /\ Obj' = Obj /\ Cached' = Cached
      /\ o.session # NoSession => Rank(o.phase) >= 2
      /\ Rank(o.phase) <= Rank(Obj.phase)
  BY <1>1, Facts, Still, Fields
<1>4. Rank(o.phase) \in Int /\ Rank(Obj.phase) \in Int /\ (Terminal(o.phase) <=> Rank(o.phase) = 3)
  BY <1>3, Ranks DEF Rank
<1>5. o.session # NoSession => Rank(Obj.phase) >= 2
  BY <1>3, <1>4
<1>6. /\ {"finalAbort", "unfinalize", "fail", "sync", "deliver"} \subseteq Places
      /\ {"None", "GatewayError"} \subseteq Reasons
  BY DEF Places, Reasons
<1>7. ASSUME NEW pc \in Places, NEW reason \in Reasons, NEW after \in {"done", "retry", "prune", "handoff"},
             ctl' = At(pc, reason, after, o)
      PROVE  ctl' \in Steps /\ ctl'.pc = pc /\ ctl'.after = after /\ ctl'.run = o
  BY <1>3, <1>7, AtType
<1>8. ctl' \in Steps /\ CtlOK'
  <2>1. CASE ctl' = Rest
    BY <2>1, RestType, CtlRest
  <2>2. CASE o.deleting /\ ctl' = Finalize(o)
    <3>1. CASE ~o.finalizer
      <4>1. ctl' = Rest
        BY <2>2, <3>1 DEF Finalize
      <4> QED BY <2>1, <4>1
    <3>2. CASE o.finalizer /\ o.session = NoSession
      <4>1. ctl' = At("unfinalize", "None", "done", o)
        BY <2>2, <3>2 DEF Finalize, Goto
      <4>2. ctl' \in Steps /\ ctl'.pc = "unfinalize" /\ ctl'.run = o
        BY <1>6, <1>7, <4>1
      <4> QED BY <1>3, <1>5, <4>2 DEF CtlOK
    <3>3. CASE o.finalizer /\ o.session # NoSession
      <4>1. ctl' = At("finalAbort", "None", "done", o)
        BY <2>2, <3>3 DEF Finalize, Goto
      <4>2. ctl' \in Steps /\ ctl'.pc = "finalAbort" /\ ctl'.run = o
        BY <1>6, <1>7, <4>1
      <4> QED BY <1>3, <1>5, <3>3, <4>2 DEF CtlOK
    <3> QED BY <3>1, <3>2, <3>3
  <2>3. CASE o.trigger /\ ~Terminal(o.phase) /\ ctl' = At("fail", "GatewayError", "done", o)
    <3>1. ctl' \in Steps /\ ctl'.pc = "fail" /\ ctl'.after = "done" /\ ctl'.run = o
      BY <1>6, <1>7, <2>3
    <3>2. Refused'
      BY <1>3, <2>3 DEF Refused
    <3> QED BY <1>3, <1>5, <3>1, <3>2 DEF CtlOK
  <2>4. CASE o.delivery /\ Terminal(o.phase) /\ ctl' = At("sync", "None", "handoff", o)
    <3>1. ctl' \in Steps /\ ctl'.pc = "sync" /\ ctl'.after = "handoff" /\ ctl'.run = o
      BY <1>6, <1>7, <2>4
    <3> QED BY <1>3, <1>4, <1>5, <2>4, <3>1 DEF CtlOK
  <2>5. CASE o.delivery /\ ~Terminal(o.phase) /\ ~o.trigger /\ ctl' = Goto("deliver", o)
    <3>1. ctl' \in Steps /\ ctl'.pc = "deliver" /\ ctl'.run = o
      BY <1>6, <1>7, <2>5 DEF Goto
    <3> QED BY <1>3, <1>4, <1>5, <2>5, <3>1 DEF CtlOK
  <2>6. CASE ~o.delivery /\ ~(o.trigger /\ ~Terminal(o.phase)) /\ ctl' = Decide(o)
    <3>1. Called(ctl')
      BY <2>6, Decides
    <3>2. Cached.phase = "Unknown" => ~Refused
      BY <1>3, <2>6 DEF Refused, Terminal, Ends
    <3> QED BY <1>1, <3>1, <3>2, CalledOK DEF Called
  <2> HIDE DEF o
  <2> QED BY <1>1, <2>1, <2>2, <2>3, <2>4, <2>5, <2>6 DEF Route, FailWith
<1> QED BY <1>1, <1>2, <1>8, GoesOn

\* The controller restarts.
LEMMA CrashInv == ASSUME IInv, Crash PROVE IInv' /\ Effect
<1>1. /\ log' = log /\ queued' = TRUE /\ ctl' = Rest /\ seen' = Len(log) /\ crashes' = crashes + 1
      /\ UNCHANGED <<sessions, inflight, submitted, open, inbox, timedOut, graced, faults>>
  BY DEF Crash, opencode
<1>2. Moved /\ Obj' = Obj
  BY <1>1, Still
<1>3. Len(log) \in Nat /\ Len(log) >= 1 /\ seen \in 1 .. Len(log)
  BY Facts
<1>4. Frame
  BY <1>1, <1>3 DEF Frame, IInv, TypeOK
<1>5. Unprompted
  BY <1>1 DEF Unprompted, IInv, TypeOK
<1>6. CtlOK' /\ ctl' \in Steps
  BY <1>1, CtlRest, RestType
<1>7. LeavesEarly
  BY <1>2, SamePhase
<1>8. inbox' \subseteq Ends
  BY <1>1 DEF IInv, TypeOK
<1> QED BY <1>1, <1>2, <1>4, <1>5, <1>6, <1>7, <1>8, StepInv DEF Effect

-----------------------------------------------------------------------------
(* Theorems *)

\* The invariant holds when the run is created.
LEMMA InitInv == ASSUME Init PROVE IInv
<1>1. PICK r \in Runs : log = <<Created(r)>>
  BY DEF Init
<1>2. r \in [delivery : BOOLEAN, scheduled : BOOLEAN, trigger : BOOLEAN]
  BY ConstantsAssumption
<1>3. PICK d \in BOOLEAN, p \in BOOLEAN, t \in BOOLEAN : r = [delivery |-> d, scheduled |-> p, trigger |-> t]
  BY <1>2
<1>4. Created(r) \in Objects /\ Created(r).phase = "Unknown" /\ Created(r).session = NoSession
  BY <1>3, CreatedType
<1>5. /\ log \in Seq(Objects) /\ Len(log) = 1 /\ log[1] = Created(r) /\ log # <<>> /\ seen = 1
  BY <1>1, <1>4 DEF Init
<1>6. Obj = Created(r) /\ Cached = Created(r)
  BY <1>5 DEF Obj, Cached
<1>7. [state |-> "absent", prompted |-> FALSE, late |-> FALSE, outcome |-> "none"] \in SessionStates
  BY DEF SessionStates
<1>8. sessions \in [Sessions -> SessionStates] /\ \A s \in Sessions : ~sessions[s].prompted
  BY <1>7 DEF Init
<1>9. ctl = Rest /\ Rest \in Steps /\ Rest.pc = "idle" /\ Rest.run.session = NoSession
  BY RestType DEF Init
<1>10. TypeOK
  <2>1. /\ queued = TRUE /\ inflight = {} /\ submitted = 0 /\ open = TRUE /\ inbox = {} /\ timedOut = FALSE
        /\ graced = FALSE /\ crashes = 0 /\ faults = 0
    BY DEF Init
  <2>2. seen \in 1 .. Len(log) /\ ctl \in Steps
    BY <1>5, <1>9
  <2> QED BY <1>5, <1>8, <2>1, <2>2 DEF TypeOK
<1>11. LogOK
  <2>1. \A i \in 1 .. Len(log) : log[i] = Obj
    BY <1>5, <1>6
  <2>2. Rank(Obj.phase) \in Int
    BY DEF Rank
  <2> QED BY <1>4, <1>5, <1>6, <2>1, <2>2 DEF LogOK
<1>12. SessionOK
  BY <1>8 DEF Init, SessionOK
<1>13. CtlOK
  BY <1>9 DEF CtlOK
<1>14. LagOK
  BY <1>4, <1>6 DEF LagOK, Early
<1> QED BY <1>10, <1>11, <1>12, <1>13, <1>14 DEF IInv

\* Every step keeps the invariant.
LEMMA NextInv == ASSUME IInv, Next PROVE IInv' /\ Effect
<1>1. ASSUME NEW ok \in BOOLEAN, Works(ok) PROVE IInv' /\ Effect
  <2>1. CASE AddFinalizer(ok) \/ MarkPending(ok) \/ CreateSession(ok) \/ Admit(ok) \/ Prompt(ok)
    BY <2>1, AddFinalizerInv, MarkPendingInv, CreateSessionInv, AdmitInv, PromptInv
  <2>2. CASE Inspect(ok) \/ ReadMessages(ok) \/ Settle(ok) \/ FailRun(ok)
    BY <2>2, InspectInv, ReadMessagesInv, SettleInv, FailRunInv
  <2>3. CASE SyncTerminalStatus(ok) \/ AbortSession(ok) \/ ConfirmAbort(ok)
    BY <2>3, SyncInv, AbortInv, ConfirmInv
  <2>4. CASE CheckIdle(ok) \/ Deliver(ok) \/ FinalAbort(ok) \/ DeleteSession(ok) \/ Unfinalize(ok)
    BY <2>4, CheckIdleInv, DeliverInv, FinalAbortInv, DeleteSessionInv, UnfinalizeInv
  <2> QED BY <1>1, <2>1, <2>2, <2>3, <2>4 DEF Works
<1>2. CASE Controller
  BY <1>1, <1>2, BeginInv, UnadmitInv, PruneInv DEF Controller
<1>3. CASE Crash
  BY <1>3, CrashInv
<1>4. CASE DeleteWorkflowRun \/ PruneScheduledRun
  BY <1>4, DeleteInv DEF DeleteWorkflowRun, PruneScheduledRun
<1>5. CASE CacheSync \/ CloseDestination \/ CleanChat \/ TimeoutPasses \/ GracePasses
  BY <1>5, OtherInv
<1>6. ASSUME NEW s \in Sessions, Agent(s) PROVE IInv' /\ Effect
  BY <1>6, OtherInv, ReportInv, NodeInv DEF Agent
<1> QED BY <1>2, <1>3, <1>4, <1>5, <1>6 DEF Next

\* A step that changes nothing keeps the invariant.
LEMMA StutterInv == ASSUME IInv, UNCHANGED vars PROVE IInv' /\ Effect
<1>1. log' = log /\ seen' = seen /\ open' = open /\ ctl' = ctl /\ inbox' = inbox /\ submitted' = submitted
  BY DEF vars
<1>2. Moved /\ Obj' = Obj /\ UNCHANGED <<seen, queued, opencode, world>>
  BY <1>1, Still DEF vars, opencode, world
<1>3. Frame /\ Unprompted /\ inbox' = inbox
  BY <1>2, WriteFrame
<1> QED BY <1>1, <1>2, <1>3, EnvInv

\* The invariant holds throughout.
THEOREM Invariance == Spec => []IInv
<1>1. Init => IInv
  BY InitInv
<1>2. IInv /\ [Next]_vars => IInv'
  BY NextInv, StutterInv
<1> QED BY <1>1, <1>2, PTL DEF Spec

\* The state of the controller, the API server and OpenCode is well formed.
THEOREM TypeCorrect == Spec => []TypeOK
<1>1. IInv => TypeOK
  BY DEF IInv
<1> QED BY <1>1, Invariance, PTL

\* startRun prompts at most once, and only the admitted session, whatever was
\* retried, restarted or read stale.
THEOREM PromptsOnce == Spec => []PromptOnce
<1>1. IInv => PromptOnce
  BY DEF IInv, SessionOK, PromptOnce
<1> QED BY <1>1, Invariance, PTL

\* Neither the controller, whatever version it read, nor the gateway overwrites
\* the end of a run.
THEOREM EndsOnce == Spec => TerminalFinal
<1>1. IInv /\ [Next]_vars => [Terminal(Obj.phase) => Obj'.phase = Obj.phase]_log
  <2> SUFFICES ASSUME IInv, [Next]_vars, Terminal(Obj.phase) PROVE Obj'.phase = Obj.phase
    OBVIOUS
  <2>1. Effect
    BY NextInv, StutterInv
  <2>2. Moved
    BY <2>1, Still DEF Effect
  <2> QED BY <2>2, LogStep
<1> QED BY <1>1, Invariance, PTL DEF Spec, TerminalFinal

\* What a step does to the run is a step of its lifecycle.
LEMMA EffectStep ==
    ASSUME IInv, Effect
    PROVE  [Lifecycle!Next]_<<Obj.phase, Obj.session, submitted > 0, Result>>
<1>1. CASE Moved /\ UNCHANGED <<submitted, inbox>>
  <2>1. Result' = Result /\ (submitted > 0)' = (submitted > 0)
    BY <1>1 DEF Result
  <2>2. CASE log' = log
    <3>1. Obj' = Obj
      BY <2>2 DEF Obj
    <3> QED BY <2>1, <3>1
  <2>3. ASSUME NEW o, Advances(o), log' = Append(log, o)
        PROVE  [Lifecycle!Next]_<<Obj.phase, Obj.session, submitted > 0, Result>>
    <3>1. Obj' = o
      BY <1>1, <2>3, LogStep
    <3>2. CASE o.phase = Obj.phase /\ o.session = Obj.session
      BY <2>1, <3>1, <3>2
    <3>3. CASE Obj.phase = "Unknown" /\ o.phase = "Pending" /\ o.session = Obj.session
      BY <2>1, <3>1, <3>3 DEF Lifecycle!Next, Lifecycle!Queue
    <3>4. CASE Obj.phase = "Pending" /\ o.phase = "Running" /\ o.session \in Sessions
      BY <2>1, <3>1, <3>4 DEF Lifecycle!Next, Lifecycle!Admit
    <3>5. CASE /\ Obj.phase \notin Ends /\ o.phase \in Ends /\ (o.phase # "Failed" => Obj.phase = "Running")
               /\ o.session = Obj.session
      BY <2>1, <3>1, <3>5 DEF Lifecycle!Next, Lifecycle!End, Lifecycle!Ends, Ends
    <3> QED BY <2>3, <3>2, <3>3, <3>4, <3>5 DEF Advances
  <2> QED BY <1>1, <2>2, <2>3 DEF Moved
<1>2. CASE log' = log /\ inbox' = inbox /\ submitted = 0 /\ submitted' = 1 /\ Obj.phase = "Running"
  <2>1. Obj' = Obj /\ Result' = Result
    BY <1>2 DEF Obj, Result
  <2>2. (submitted > 0)' = TRUE /\ ~(submitted > 0)
    BY <1>2
  <2> QED BY <1>2, <2>1, <2>2 DEF Lifecycle!Next, Lifecycle!Prompt
<1>3. CASE log' = log /\ submitted' = submitted /\ inbox' = Delivered
  <2>1. Obj' = Obj /\ (submitted > 0)' = (submitted > 0)
    BY <1>3 DEF Obj
  <2>2. CASE inbox' = inbox
    <3>1. Result' = Result
      BY <2>2 DEF Result
    <3> QED BY <2>1, <3>1
  <2>3. CASE Terminal(Obj.phase) /\ inbox = {} /\ inbox' = {Obj.phase}
    <3>1. Result = "None" /\ Result' = Obj.phase
      BY <2>3 DEF Result
    <3> QED BY <2>1, <2>3, <3>1
            DEF Terminal, Ends, Lifecycle!Next, Lifecycle!HandOver, Lifecycle!Ends, Lifecycle!NoResult
  <2> QED BY <1>3, <2>2, <2>3 DEF Delivered
<1> QED BY <1>1, <1>2, <1>3 DEF Effect

\* The controller, its stale cache, the gateway and OpenCode together keep the
\* lifecycle people rely on, for any number of restarts and failed calls.
THEOREM KeepsLifecycle == Spec => ImplementsLifecycle
<1>1. Init => Lifecycle!Init
  <2> SUFFICES ASSUME Init PROVE Lifecycle!Init
    OBVIOUS
  <2>1. PICK r \in Runs : log = <<Created(r)>>
    BY DEF Init
  <2>2. Obj = Created(r)
    BY <2>1 DEF Obj
  <2>3. Obj.phase = "Unknown" /\ Obj.session = NoSession
    BY <2>2 DEF Created
  <2>4. Result = "None" /\ (submitted > 0) = FALSE
    BY DEF Init, Result
  <2> QED BY <2>3, <2>4 DEF Lifecycle!Init, Lifecycle!NoResult
<1>2. IInv /\ [Next]_vars => [Lifecycle!Next]_<<Obj.phase, Obj.session, submitted > 0, Result>>
  BY NextInv, StutterInv, EffectStep
<1> QED BY <1>1, <1>2, Invariance, PTL DEF Spec, ImplementsLifecycle, Lifecycle!Spec

-----------------------------------------------------------------------------
(* Nothing runs on *)

\* No session executes, but one whose prompt arrived late.
Quiet == \A s \in Sessions : Busy(s) => sessions[s].late

\* No node is shown as running after the end.
Closed(o) == Terminal(o.phase) => \A i \in DOMAIN o.nodes : o.nodes[i].phase # "Running"

\* The session of a run that no conversation owns is deleted.
Released == Obj.session # NoSession /\ ~Obj.delivery => sessions[Obj.session].state = "gone"

\* What an old version says that is still true of the last one.
Kept ==
    \A i \in 1 .. Len(log) :
       /\ log[i].finalizer /\ Obj.live => Obj.finalizer
       /\ log[i].deleting => Obj.deleting /\ log[i].session = Obj.session

\* The run holds on to its session, and lets go of it only stopped.
Holds ==
    /\ Obj.live /\ Obj.session # NoSession => Obj.finalizer
    /\ Obj.session = NoSession => Obj.aborted = "None"
    /\ ~Obj.live => Quiet /\ Released
    /\ Obj.aborted = "True" => Quiet
    /\ Closed(Obj)

\* Only who was prompted executes.
Executing == \A s \in Sessions : sessions[s].state = "busy" => sessions[s].prompted

\* What the reconciliation in progress knows of the run's session.
Calls ==
    /\ ctl.pc \in {"create", "admit", "prompt"} /\ Obj.live => Obj.finalizer
    /\ ctl.pc = "prompt" => Obj.live /\ Obj.aborted # "True"
    /\ ctl.pc \in {"abort", "confirm"} => ctl.run.session = Obj.session /\ Obj.session # NoSession
    /\ ctl.pc \in {"finalAbort", "deleteSession", "unfinalize"} =>
          Obj.deleting /\ ctl.run.session = Obj.session /\ ctl.run.delivery = Obj.delivery
    /\ ctl.pc \in {"confirm", "deleteSession", "unfinalize"} => Quiet
    /\ ctl.pc = "unfinalize" => Released

StopInv == Kept /\ Holds /\ Executing /\ Calls

\* Where nothing of it matters.
Careless == Places \ {"create", "admit", "prompt", "abort", "confirm", "finalAbort", "deleteSession", "unfinalize"}

\* A version that may be written over the last one.
Writes(o) ==
    /\ o.session = Obj.session /\ o.delivery = Obj.delivery
    /\ o.live => Obj.live /\ (Obj.finalizer => o.finalizer)
    /\ Obj.deleting => o.deleting
    /\ Obj.session = NoSession => o.aborted = "None"
    /\ Obj.live /\ ~o.live => Quiet /\ Released
    /\ o.aborted = "True" => Quiet
    /\ Closed(o)

Written == log' = log \/ \E o : Writes(o) /\ log' = Append(log, o)

\* Sessions change, but none begins to execute in time, and one that is deleted
\* stays so while the run records it.
Winds ==
    \A s \in Sessions :
       /\ sessions'[s].state = "busy" =>
             /\ sessions'[s].prompted
             /\ sessions'[s].late \/ (sessions[s].state = "busy" /\ ~sessions[s].late)
       /\ s = Obj.session /\ sessions[s].state = "gone" => sessions'[s].state = "gone"

\* A run whose session is not recorded executes nowhere.
LEMMA QuietWithout ==
    ASSUME IInv, Executing, Obj.session = NoSession
    PROVE  Quiet /\ Released
<1>1. ASSUME NEW s \in Sessions, Busy(s) PROVE FALSE
  BY <1>1, ConstantsAssumption DEF Busy, Executing, IInv, SessionOK
<1> QED BY <1>1 DEF Quiet, Released

\* A session whose state stays is as it was.
LEMMA WindsStill == ASSUME Executing, sessions' = sessions PROVE Winds
BY DEF Winds, Executing

\* What was stopped stays stopped.
LEMMA WindsQuiet ==
    ASSUME IInv, Winds, Obj'.session = Obj.session, Obj'.delivery = Obj.delivery
    PROVE  Executing' /\ (Quiet => Quiet') /\ (Released => Released')
<1>1. Executing'
  BY DEF Winds, Executing
<1>2. ASSUME Quiet PROVE Quiet'
  <2>1. ASSUME NEW s \in Sessions, sessions'[s].state = "busy" PROVE sessions'[s].late
    <3>1. s # NoSession
      BY ConstantsAssumption
    <3> QED BY <1>2, <2>1, <3>1 DEF Winds, Quiet, Busy
  <2> QED BY <2>1 DEF Quiet, Busy
<1>3. ASSUME Released PROVE Released'
  <2>1. Obj.session \in Sessions \cup {NoSession}
    BY Facts, Fields
  <2>2. ASSUME Obj.session # NoSession, ~Obj.delivery PROVE sessions'[Obj.session].state = "gone"
    BY <1>3, <2>1, <2>2 DEF Winds, Released
  <2> QED BY <2>2 DEF Released
<1> QED BY <1>1, <1>2, <1>3

\* What a write leaves of the last version.
LEMMA WrittenObj ==
    ASSUME IInv, Written
    PROVE  /\ \/ Obj' = Obj /\ log' = log
              \/ \E o : Writes(o) /\ Obj' = o /\ log' = Append(log, o)
           /\ Obj'.session = Obj.session /\ Obj'.delivery = Obj.delivery
<1>1. CASE log' = log
  BY <1>1 DEF Obj
<1>2. ASSUME NEW o, Writes(o), log' = Append(log, o) PROVE Obj' = o
  BY <1>2, Facts DEF Obj
<1>3. CASE \E o : Writes(o) /\ log' = Append(log, o)
  <2>1. PICK o : Writes(o) /\ log' = Append(log, o)
    BY <1>3
  <2>2. Obj' = o
    BY <1>2, <2>1
  <2> QED BY <2>1, <2>2 DEF Writes
<1> QED BY <1>1, <1>3 DEF Written

\* What such writes keep.
LEMMA WriteStep ==
    ASSUME IInv, Kept, Holds, Written, Winds
    PROVE  /\ Kept' /\ Holds' /\ Executing'
           /\ (Quiet => Quiet') /\ (Released => Released')
           /\ Obj'.session = Obj.session /\ Obj'.delivery = Obj.delivery
           /\ (Obj.deleting => Obj'.deleting) /\ (Obj'.live => Obj.live /\ (Obj.finalizer => Obj'.finalizer))
<1>1. /\ Obj'.session = Obj.session /\ Obj'.delivery = Obj.delivery
      /\ Executing' /\ (Quiet => Quiet') /\ (Released => Released')
  BY WrittenObj, WindsQuiet
<1>2. CASE Obj' = Obj /\ log' = log
  <2>1. Kept'
    BY <1>2 DEF Kept
  <2>2. Holds'
    BY <1>1, <1>2 DEF Holds, Closed
  <2> QED BY <1>1, <1>2, <2>1, <2>2
<1>3. ASSUME NEW o, Writes(o), Obj' = o, log' = Append(log, o)
      PROVE  /\ Kept' /\ Holds'
             /\ (Obj.deleting => o.deleting) /\ (o.live => Obj.live /\ (Obj.finalizer => o.finalizer))
  <2>1. log \in Seq(Objects) /\ Len(log) \in Nat
    BY Facts
  <2>2. /\ Len(log') = Len(log) + 1 /\ log'[Len(log) + 1] = o
        /\ \A i \in 1 .. Len(log) : log'[i] = log[i]
    BY <1>3, <2>1
  <2>3. ASSUME NEW i \in 1 .. Len(log')
        PROVE  /\ log'[i].finalizer /\ o.live => o.finalizer
               /\ log'[i].deleting => o.deleting /\ log'[i].session = o.session
    <3>1. CASE i \in 1 .. Len(log)
      <4>1. log'[i] = log[i]
        BY <2>2, <3>1
      <4> QED BY <1>3, <3>1, <4>1 DEF Kept, Writes
    <3>2. CASE i = Len(log) + 1
      BY <2>2, <3>2
    <3> QED BY <2>1, <2>2, <3>1, <3>2
  <2>4. Kept'
    BY <1>3, <2>3 DEF Kept
  <2>5. o.session = Obj.session /\ o.delivery = Obj.delivery /\ (o.live => Obj.live /\ (Obj.finalizer => o.finalizer))
        /\ Closed(o)
    BY <1>3 DEF Writes
  <2>6. ~o.live => Quiet' /\ Released'
    BY <1>1, <1>3 DEF Holds, Writes
  <2>7. o.aborted = "True" => Quiet'
    BY <1>1, <1>3 DEF Writes
  <2>8. o.session = NoSession => o.aborted = "None"
    BY <1>3 DEF Writes
  <2>9. Closed(o)'
    BY <2>5 DEF Closed
  <2>10. Holds'
    <3>1. o.live /\ o.session # NoSession => o.finalizer
      BY <2>5 DEF Holds
    <3>2. Closed(Obj)'
      BY <1>3, <2>5 DEF Closed
    <3> QED BY <1>3, <2>6, <2>7, <2>8, <3>1, <3>2 DEF Holds
  <2> QED BY <1>3, <2>4, <2>10 DEF Writes
<1> QED
  <2>1. CASE \E o : Writes(o) /\ Obj' = o /\ log' = Append(log, o)
    <3>1. PICK o : Writes(o) /\ Obj' = o /\ log' = Append(log, o)
      BY <2>1
    <3> QED BY <1>1, <1>3, <3>1
  <2> QED BY <1>1, <1>2, <2>1, WrittenObj

\* A reconciliation at a place where nothing matters knows nothing.
LEMMA Uncaring == ASSUME ctl'.pc \in Careless PROVE Calls'
BY DEF Careless, Calls

\* So does one that is over.
LEMMA RestCalls == ASSUME ctl' = Rest PROVE Calls'
<1>1. ctl'.pc = "idle"
  BY RestType
<1> QED BY <1>1, Uncaring DEF Careless, Places

\* While others act, it keeps what it knows.
LEMMA CallsKept ==
    ASSUME IInv, StopInv, Written, Winds, ctl' = ctl, Obj'.aborted = Obj.aborted,
           Obj.live /\ Obj.finalizer => Obj'.live
    PROVE  StopInv'
<1>1. /\ Kept' /\ Holds' /\ Executing'
      /\ (Quiet => Quiet') /\ (Released => Released')
      /\ Obj'.session = Obj.session /\ Obj'.delivery = Obj.delivery
      /\ (Obj.deleting => Obj'.deleting) /\ (Obj'.live => Obj.live /\ (Obj.finalizer => Obj'.finalizer))
  BY WriteStep DEF StopInv
<1>2. ASSUME ctl.pc = "prompt" PROVE Obj'.live /\ Obj'.aborted # "True"
  BY <1>2 DEF StopInv, Calls
<1>3. Calls'
  BY <1>1, <1>2 DEF StopInv, Calls
<1> QED BY <1>1, <1>3 DEF StopInv

\* A run that does not change is written nowhere.
LEMMA Unwritten == ASSUME IInv, log' = log PROVE Written /\ Obj' = Obj
BY Still DEF Written

\* A write of a version that may be written.
LEMMA StoreWrites ==
    ASSUME IInv, NEW o, Writes(o), Store(o)
    PROVE  Written /\ Obj' = o
<1>1. CASE o = Obj
  <2>1. log' = log
    BY <1>1 DEF Store
  <2> QED BY <1>1, <2>1, Unwritten
<1>2. CASE o # Obj
  <2>1. log' = Append(log, o)
    BY <1>2 DEF Store
  <2>2. Obj' = o
    BY <2>1, Facts DEF Obj
  <2> QED BY <2>1, <2>2 DEF Written
<1> QED BY <1>1, <1>2

\* Whether a patch fails or not, it writes nothing else.
LEMMA PatchWrites ==
    ASSUME IInv, NEW o, Fresh /\ Obj.live => Writes(o), Patched(o) \/ PatchFails(o) \/ log' = log
    PROVE  Written /\ (Obj' = Obj \/ (Obj' = o /\ Obj.live))
<1>1. CASE log' = log
  BY <1>1, Unwritten
<1>2. CASE Patched(o)
  <2>1. Writes(o) /\ Store(o) /\ Obj.live
    BY <1>2 DEF Patched
  <2> QED BY <2>1, StoreWrites
<1> QED BY <1>1, <1>2 DEF PatchFails, Fault

\* Versions that differ from the last one only in what does not matter here.
Plain(o) ==
    /\ o.session = Obj.session /\ o.delivery = Obj.delivery /\ o.live = Obj.live /\ o.deleting = Obj.deleting
    /\ o.aborted = Obj.aborted /\ (Obj.finalizer => o.finalizer) /\ Closed(o)

\* They may be written.
LEMMA PlainWrites ==
    ASSUME Holds, NEW o, Plain(o)
    PROVE  Writes(o)
BY DEF Plain, Writes, Holds

\* Nodes of an ended run are closed.
LEMMA ClosesNodes ==
    ASSUME NEW nodes \in Seq(NodeStatus)
    PROVE  \A i \in DOMAIN Unacknowledged(nodes) : Unacknowledged(nodes)[i].phase # "Running"
<1>1. \A i \in DOMAIN nodes : nodes[i] \in NodeStatus
  OBVIOUS
<1>2. ASSUME NEW n \in NodeStatus PROVE [n EXCEPT !.phase = "Unacked"].phase = "Unacked"
  BY DEF NodeStatus
<1> QED BY <1>1, <1>2 DEF Unacknowledged

\* What recording an end leaves.
LEMMA TerminalPlain ==
    ASSUME NEW o \in Objects, NEW reason \in Reasons
    PROVE  /\ SetTerminalStatus(o, reason).aborted = o.aborted
           /\ SetTerminalStatus(o, reason).finalizer = o.finalizer
           /\ Closed(SetTerminalStatus(o, reason))
<1> DEFINE n == Unacknowledged(o.nodes)
           c == [o EXCEPT !.completed = TRUE]
           r == [c EXCEPT !.ready = reason]
           t == [r EXCEPT !.nodes = n]
<1>1. n \in Seq(NodeStatus) /\ \A i \in DOMAIN n : n[i].phase # "Running"
  BY Fields, NodesType, ClosesNodes
<1>2. c \in Objects /\ c.aborted = o.aborted /\ c.finalizer = o.finalizer
  BY DEF Objects
<1>3. SetTerminalStatus(o, reason) = t
  BY DEF SetTerminalStatus
<1> HIDE DEF n, c
<1>4. r \in Objects /\ r.aborted = o.aborted /\ r.finalizer = o.finalizer
  BY <1>2 DEF Objects
<1> HIDE DEF r
<1>5. t.nodes = n /\ t.aborted = o.aborted /\ t.finalizer = o.finalizer
  BY <1>4 DEF Objects
<1> HIDE DEF t
<1>6. Closed(t)
  BY <1>1, <1>5 DEF Closed
<1> QED BY <1>3, <1>5, <1>6

\* Settling, syncing and queueing leave what matters here.
LEMMA SettledPlain ==
    ASSUME Obj \in Objects, Closed(Obj), NEW reason \in {"Failed", "Unacked"}
    PROVE  Plain(Settled(Obj, reason))
<1> DEFINE p == [Obj EXCEPT !.phase = reason]
<1>1. reason \in Reasons /\ reason \in Phases
  BY DEF Reasons, Phases
<1>2. p \in Objects /\ Same(p, Obj)
  BY <1>1, PhaseType
<1>3. p.aborted = Obj.aborted /\ p.finalizer = Obj.finalizer
  BY DEF Objects
<1>4. Settled(Obj, reason) = IF Terminal(Obj.phase) \/ Obj.completed THEN Obj ELSE SetTerminalStatus(p, reason)
  BY DEF Settled
<1> HIDE DEF p
<1>5. Same(Settled(Obj, reason), Obj)
  BY SettledType
<1>6. Settled(Obj, reason).aborted = Obj.aborted /\ Settled(Obj, reason).finalizer = Obj.finalizer
      /\ Closed(Settled(Obj, reason))
  BY <1>1, <1>2, <1>3, <1>4, TerminalPlain
<1> QED BY <1>5, <1>6 DEF Plain, Same

\* What the status check writes from the nodes it read.
LEMMA SyncedPlain ==
    ASSUME Obj \in Objects
    PROVE  Plain(Synced(Obj))
<1> DEFINE r == CASE Obj.phase = "Failed" -> IF Obj.ready \in {"None", "Active"} THEN "Failed" ELSE Obj.ready
                  [] Obj.phase = "Unacked" -> "Unacked"
                  [] Obj.phase \notin {"Failed", "Unacked"} -> "Succeeded"
<1>1. r \in Reasons
  <2>1. CASE Obj.phase = "Failed"
    BY <2>1, Fields DEF Reasons
  <2>2. CASE Obj.phase = "Unacked"
    BY <2>2 DEF Reasons
  <2>3. CASE Obj.phase \notin {"Failed", "Unacked"}
    BY <2>3 DEF Reasons
  <2> QED BY <2>1, <2>2, <2>3
<1>2. Synced(Obj) = SetTerminalStatus(Obj, r)
  BY DEF Synced
<1> HIDE DEF r
<1>3. Same(Synced(Obj), Obj)
  BY SyncedType
<1> QED BY <1>1, <1>2, <1>3, TerminalPlain DEF Plain, Same

\* What markPending writes.
LEMMA QueuedPlain ==
    ASSUME Obj \in Objects
    PROVE  Plain(Queued(Obj))
<1>1. Same(Queued(Obj), Obj) /\ Queued(Obj).phase = "Pending"
  BY QueuedType
<1>2. Queued(Obj).aborted = Obj.aborted /\ Queued(Obj).finalizer = Obj.finalizer
  BY DEF Queued, Objects
<1> QED BY <1>1, <1>2 DEF Plain, Same, Closed, Terminal, Ends

\* Failing a run that has a session records that it is to be cancelled.
LEMMA FailedWrites ==
    ASSUME Obj \in Objects, Holds, NEW reason \in Reasons
    PROVE  Writes(Failed(Obj, reason))
<1> DEFINE p == [Obj EXCEPT !.phase = "Failed"]
           q == SetTerminalStatus(p, reason)
           a == IF Obj.session # NoSession THEN "False" ELSE q.aborted
           f == [q EXCEPT !.aborted = a]
<1>1. p \in Objects /\ p.phase = "Failed" /\ Same(p, Obj)
  BY PhaseType DEF Phases
<1>2. p.aborted = Obj.aborted /\ p.finalizer = Obj.finalizer
  BY DEF Objects
<1>3. Failed(Obj, reason) = IF Terminal(Obj.phase) \/ Obj.completed THEN Obj ELSE f
  BY DEF Failed
<1> HIDE DEF p
<1>4. q \in Objects /\ q.phase = "Failed" /\ Same(q, Obj) /\ q.aborted = Obj.aborted /\ q.finalizer = Obj.finalizer
      /\ Closed(q)
  BY <1>1, <1>2, TerminalType, TerminalPlain DEF Same
<1> HIDE DEF q
<1>5. /\ f.phase = q.phase /\ f.nodes = q.nodes /\ f.aborted = a /\ f.finalizer = q.finalizer
      /\ f.session = q.session /\ f.delivery = q.delivery /\ f.live = q.live /\ f.deleting = q.deleting
  BY <1>4 DEF Objects
<1>6. (a = "False" /\ Obj.session # NoSession) \/ (a = Obj.aborted /\ Obj.session = NoSession)
  BY <1>4
<1> HIDE DEF a, f
<1>7. Closed(f)
  BY <1>4, <1>5 DEF Closed
<1>8. Writes(f)
  BY <1>4, <1>5, <1>6, <1>7 DEF Writes, Same, Holds
<1>9. Writes(Obj)
  BY DEF Writes, Holds
<1> QED BY <1>3, <1>8, <1>9

\* A run is deleted at once only without a session.
LEMMA DeletedWrites ==
    ASSUME IInv, Holds, Executing, Obj.live
    PROVE  /\ Writes(Deleted(Obj)) /\ Deleted(Obj).aborted = Obj.aborted
           /\ Obj.finalizer => Deleted(Obj).live
<1>1. Obj \in Objects
  BY Facts
<1>2. CASE Obj.finalizer
  <2> DEFINE o == [Obj EXCEPT !.deleting = TRUE]
  <2>1. Deleted(Obj) = o
    BY <1>2 DEF Deleted
  <2>2. /\ o.session = Obj.session /\ o.delivery = Obj.delivery /\ o.live = Obj.live /\ o.deleting
        /\ o.aborted = Obj.aborted /\ o.finalizer = Obj.finalizer /\ o.phase = Obj.phase /\ o.nodes = Obj.nodes
    BY <1>1 DEF Objects
  <2> HIDE DEF o
  <2> QED BY <2>1, <2>2 DEF Writes, Holds, Closed
<1>3. CASE ~Obj.finalizer
  <2> DEFINE o == [Obj EXCEPT !.live = FALSE]
  <2>1. Deleted(Obj) = o
    BY <1>3 DEF Deleted
  <2>2. /\ o.session = Obj.session /\ o.delivery = Obj.delivery /\ ~o.live /\ o.deleting = Obj.deleting
        /\ o.aborted = Obj.aborted /\ o.finalizer = Obj.finalizer /\ o.phase = Obj.phase /\ o.nodes = Obj.nodes
    BY <1>1 DEF Objects
  <2>3. Obj.session = NoSession
    BY <1>3 DEF Holds
  <2>4. Quiet /\ Released
    BY <2>3, QuietWithout
  <2> HIDE DEF o
  <2> QED BY <1>3, <2>1, <2>2, <2>4 DEF Writes, Holds, Closed
<1> QED BY <1>2, <1>3

\* A session that stops, or is deleted, or is created, does not execute.
LEMMA WindsOne ==
    ASSUME IInv, Executing, NEW s \in Sessions, NEW r \in SessionStates, sessions' = [sessions EXCEPT ![s] = r],
           r.state = "busy" => r.prompted /\ r.late,
           s = Obj.session /\ sessions[s].state = "gone" => r.state = "gone"
    PROVE  Winds
<1>1. sessions'[s] = r /\ \A t \in Sessions : t # s => sessions'[t] = sessions[t]
  BY SessionUpdate DEF IInv
<1> QED BY <1>1 DEF Winds, Executing

\* The same, given by its state.
LEMMA WindsState ==
    ASSUME IInv, Executing, NEW s \in Sessions, NEW v \in {"idle", "gone"},
           sessions' = [sessions EXCEPT ![s].state = v],
           s = Obj.session => v = "gone"
    PROVE  Winds /\ sessions'[s].state = v
<1> DEFINE r == [sessions[s] EXCEPT !.state = v]
<1>1. sessions[s] \in SessionStates
  BY DEF IInv, TypeOK
<1>2. r \in SessionStates /\ r.state = v
  BY <1>1 DEF SessionStates
<1>3. sessions' = [sessions EXCEPT ![s] = r]
  OBVIOUS
<1>4. sessions'[s] = r
  BY <1>1, <1>3 DEF IInv, TypeOK
<1> HIDE DEF r
<1> QED BY <1>2, <1>3, <1>4, WindsOne

\* After a stop that was confirmed the run's session does not execute.
LEMMA WindsStopped ==
    ASSUME IInv, Executing, ctl.run.session \in Sessions \cup {NoSession}, sessions' = Stopped(ctl.run.session)
    PROVE  /\ Winds
           /\ ctl.run.session = Obj.session /\ log' = log => Quiet'
<1> DEFINE s == ctl.run.session
           r == [sessions[s] EXCEPT !.state = "idle", !.outcome = "error"]
<1>1. Winds /\ (s # NoSession => sessions'[s].state # "busy")
  <2>1. CASE ~Busy(s)
    <3>1. sessions' = sessions
      BY <2>1 DEF Stopped
    <3> QED BY <2>1, <3>1, WindsStill DEF Busy
  <2>2. CASE Busy(s)
    <3>1. s \in Sessions /\ sessions[s] \in SessionStates /\ sessions[s].state = "busy"
      BY <2>2 DEF Busy, IInv, TypeOK
    <3>2. r \in SessionStates /\ r.state = "idle"
      BY <3>1 DEF SessionStates
    <3>3. sessions' = [sessions EXCEPT ![s] = r]
      BY <2>2 DEF Stopped
    <3>4. sessions'[s] = r
      BY <3>1, <3>3 DEF IInv, TypeOK
    <3> HIDE DEF r, s
    <3> QED BY <3>1, <3>2, <3>3, <3>4, WindsOne
  <2> QED BY <2>1, <2>2
<1>2. ASSUME s = Obj.session, log' = log, NEW t \in Sessions, sessions'[t].state = "busy" PROVE sessions'[t].late
  <2>1. CASE sessions'[t].late
    BY <2>1
  <2>2. CASE sessions[t].state = "busy"
    <3>1. sessions[t].prompted
      BY <2>2 DEF Executing
    <3>2. t = s /\ s # NoSession
      BY <1>2, <3>1, ConstantsAssumption DEF IInv, SessionOK
    <3> QED BY <1>1, <1>2, <3>2
  <2> QED BY <1>1, <1>2, <2>1, <2>2 DEF Winds
<1> QED BY <1>1, <1>2 DEF Quiet, Busy

-----------------------------------------------------------------------------
(* Everybody but the controller *)

\* Nobody's step that leaves the run, the reconciliation and the sessions alone
\* matters.
LEMMA Aside ==
    ASSUME IInv, StopInv, UNCHANGED <<log, ctl, sessions>>
    PROVE  StopInv'
BY Unwritten, WindsStill, CallsKept DEF StopInv

\* OpenCode on its own.
LEMMA OpenCodeStops ==
    ASSUME IInv, StopInv, \/ CleanChat
                          \/ \E s \in Sessions : PromptArrives(s)
                          \/ \E s \in Sessions : \E outcome \in {"none", "ok", "error"} : SessionEnds(s, outcome)
    PROVE  StopInv'
<1>1. log' = log /\ ctl' = ctl
  BY DEF CleanChat, PromptArrives, SessionEnds, object
<1>2. \A s \in Sessions : sessions[s] \in SessionStates
  BY DEF IInv, TypeOK
<1>3. Executing
  BY DEF StopInv
<1>4. CASE CleanChat
  <2>1. sessions' = [s \in Sessions |->
             IF Exists(s) THEN [sessions[s] EXCEPT !.state = "gone"] ELSE sessions[s]]
    BY <1>4 DEF CleanChat
  <2>2. ASSUME NEW s \in Sessions
        PROVE  sessions'[s].state = "gone" \/ sessions'[s] = sessions[s]
    <3>1. [sessions[s] EXCEPT !.state = "gone"].state = "gone"
      BY <1>2 DEF SessionStates
    <3> QED BY <2>1, <3>1
  <2>3. Winds
    BY <1>3, <2>2 DEF Winds, Executing
  <2> QED BY <1>1, <2>3, Unwritten, CallsKept
<1>5. ASSUME NEW s \in Sessions, PromptArrives(s) PROVE StopInv'
  <2> DEFINE r == [sessions[s] EXCEPT !.state = "busy", !.prompted = TRUE, !.late = TRUE]
  <2>1. CASE sessions' = sessions
    BY <1>1, <2>1, Aside
  <2>2. CASE Exists(s) /\ sessions' = [sessions EXCEPT ![s] = r]
    <3>1. r \in SessionStates /\ r.prompted /\ r.late
      BY <1>2 DEF SessionStates
    <3>2. sessions[s].state # "gone"
      BY <2>2 DEF Exists
    <3> HIDE DEF r
    <3>3. Winds
      BY <1>3, <2>2, <3>1, <3>2, WindsOne
    <3> QED BY <1>1, <3>3, Unwritten, CallsKept
  <2> QED BY <1>5, <2>1, <2>2 DEF PromptArrives
<1>6. ASSUME NEW s \in Sessions, NEW outcome \in {"none", "ok", "error"}, SessionEnds(s, outcome) PROVE StopInv'
  <2> DEFINE r == [sessions[s] EXCEPT !.state = "idle", !.outcome = outcome]
  <2>1. sessions' = [sessions EXCEPT ![s] = r] /\ sessions[s].state = "busy"
    BY <1>6 DEF SessionEnds, Busy
  <2>2. r \in SessionStates /\ r.state = "idle"
    BY <1>2 DEF SessionStates
  <2> HIDE DEF r
  <2>3. Winds
    BY <1>3, <2>1, <2>2, WindsOne
  <2> QED BY <1>1, <2>3, Unwritten, CallsKept
<1> QED BY <1>4, <1>5, <1>6

\* The agent's reports.
LEMMA ReportStops ==
    ASSUME IInv, StopInv,
           \E s \in Sessions : \/ \E phase \in {"Succeeded", "Failed"} : PatchRunStatus(s, phase)
                               \/ \E n \in Nodes, phase \in {"Running", "Succeeded", "Failed"} :
                                     PatchRunNodeStatus(s, n, phase)
    PROVE  StopInv'
<1>1. Obj \in Objects
  BY Facts
<1>2. ASSUME NEW o, Plain(o), GatewayPatch(o) PROVE StopInv'
  <2>1. Store(o) /\ ctl' = ctl /\ sessions' = sessions
    BY <1>2 DEF GatewayPatch, opencode
  <2>2. Written /\ Obj' = o
    BY <1>2, <2>1, PlainWrites, StoreWrites DEF StopInv
  <2> QED BY <1>2, <2>1, <2>2, WindsStill, CallsKept DEF StopInv, Plain
<1>3. ASSUME NEW s \in Sessions, NEW phase \in {"Succeeded", "Failed"}, PatchRunStatus(s, phase) PROVE StopInv'
  <2> DEFINE n == Unacknowledged(Obj.nodes)
             o == [Obj EXCEPT !.phase = phase, !.completed = TRUE, !.nodes = n]
  <2>1. GatewayPatch(o)
    BY <1>3 DEF PatchRunStatus
  <2>2. \A i \in DOMAIN n : n[i].phase # "Running"
    BY <1>1, Fields, ClosesNodes
  <2> HIDE DEF n
  <2>3. /\ o.session = Obj.session /\ o.delivery = Obj.delivery /\ o.live = Obj.live /\ o.deleting = Obj.deleting
        /\ o.aborted = Obj.aborted /\ o.finalizer = Obj.finalizer /\ o.nodes = n
    BY <1>1 DEF Objects
  <2> HIDE DEF o
  <2>4. Plain(o)
    BY <2>2, <2>3 DEF Plain, Closed
  <2> QED BY <1>2, <2>1, <2>4
<1>4. ASSUME NEW s \in Sessions, NEW n \in Nodes, NEW phase \in {"Running", "Succeeded", "Failed"},
             PatchRunNodeStatus(s, n, phase)
      PROVE  StopInv'
  <2>1. PICK same \in BOOLEAN :
          GatewayPatch([Obj EXCEPT !.nodes = ApplyNodeStatusPatch(Obj.nodes, n, phase, same)])
    BY <1>4 DEF PatchRunNodeStatus
  <2> DEFINE l == ApplyNodeStatusPatch(Obj.nodes, n, phase, same)
             o == [Obj EXCEPT !.nodes = l]
  <2>2. GatewayPatch(o) /\ Obj.phase = "Running"
    BY <2>1 DEF GatewayPatch
  <2> HIDE DEF l
  <2>3. /\ o.session = Obj.session /\ o.delivery = Obj.delivery /\ o.live = Obj.live /\ o.deleting = Obj.deleting
        /\ o.aborted = Obj.aborted /\ o.finalizer = Obj.finalizer /\ o.phase = Obj.phase
    BY <1>1 DEF Objects
  <2> HIDE DEF o
  <2>4. Plain(o)
    BY <2>2, <2>3 DEF Plain, Closed, Terminal, Ends
  <2> QED BY <1>2, <2>2, <2>4
<1> QED BY <1>3, <1>4

\* People and the schedule delete the run.
LEMMA DeletionStops == ASSUME IInv, StopInv, DeleteRun PROVE StopInv'
<1>1. Obj.live /\ Store(Deleted(Obj)) /\ ctl' = ctl /\ sessions' = sessions
  BY DEF DeleteRun, opencode
<1>2. Writes(Deleted(Obj)) /\ Deleted(Obj).aborted = Obj.aborted /\ (Obj.finalizer => Deleted(Obj).live)
  BY <1>1, DeletedWrites DEF StopInv
<1>3. Written /\ Obj' = Deleted(Obj)
  BY <1>1, <1>2, StoreWrites
<1> QED BY <1>1, <1>2, <1>3, WindsStill, CallsKept DEF StopInv

-----------------------------------------------------------------------------
(* The controller *)

\* A call that ends the reconciliation, or goes on where nothing matters.
LEMMA OverStops ==
    ASSUME IInv, StopInv, Written, Winds, ctl' = Rest \/ ctl'.pc \in Careless
    PROVE  StopInv'
BY WriteStep, Uncaring, RestCalls DEF StopInv

\* addFinalizer, markPending and the patches of the terminal status.
LEMMA AddFinalizerStops == ASSUME IInv, StopInv, NEW ok \in BOOLEAN, AddFinalizer(ok) PROVE StopInv'
<1> DEFINE o == [Obj EXCEPT !.finalizer = TRUE]
<1>1. Obj \in Objects
  BY Facts
<1>2. /\ o.session = Obj.session /\ o.delivery = Obj.delivery /\ o.live = Obj.live /\ o.deleting = Obj.deleting
      /\ o.aborted = Obj.aborted /\ o.finalizer /\ o.phase = Obj.phase /\ o.nodes = Obj.nodes
  BY <1>1 DEF Objects
<1>3. (Patched(o) \/ PatchFails(o) \/ log' = log) /\ sessions' = sessions /\ ctl' = Rest
  BY DEF AddFinalizer, opencode, Requeue
<1> HIDE DEF o
<1>4. Writes(o)
  BY <1>2, PlainWrites DEF Plain, StopInv, Holds, Closed
<1> QED BY <1>3, <1>4, PatchWrites, WindsStill, OverStops DEF StopInv

\* Queueing starts no session.
LEMMA MarkPendingStops == ASSUME IInv, StopInv, NEW ok \in BOOLEAN, MarkPending(ok) PROVE StopInv'
<1>1. (Patched(Queued(Obj)) \/ PatchFails(Queued(Obj))) /\ sessions' = sessions /\ ctl' = Rest
  BY DEF MarkPending, opencode, Requeue
<1>2. Writes(Queued(Obj))
  BY Facts, QueuedPlain, PlainWrites DEF StopInv
<1> QED BY <1>1, <1>2, PatchWrites, WindsStill, OverStops DEF StopInv

\* The end that reconcileRunning records closes the nodes and touches no session.
LEMMA SettleStops == ASSUME IInv, StopInv, NEW ok \in BOOLEAN, Settle(ok) PROVE StopInv'
<1> DEFINE o == Settled(Obj, ctl.reason)
<1>1. (Patched(o) \/ PatchFails(o)) /\ sessions' = sessions /\ ctl' = Rest
  BY DEF Settle, opencode, Requeue, Done
<1>2. ctl.reason \in {"Failed", "Unacked"} /\ Obj \in Objects /\ Closed(Obj)
  BY Facts DEF Settle, IInv, CtlOK, StopInv, Holds
<1>3. Writes(o)
  BY <1>2, SettledPlain, PlainWrites DEF StopInv
<1> HIDE DEF o
<1> QED BY <1>1, <1>3, PatchWrites, WindsStill, OverStops DEF StopInv

\* startRun up to the admission.
LEMMA CreateSessionStops == ASSUME IInv, StopInv, NEW ok \in BOOLEAN, CreateSession(ok) PROVE StopInv'
<1>1. ctl.pc = "create" /\ log' = log /\ (sessions' = sessions \/ \E s \in Sessions : NewSession(s))
  BY DEF CreateSession, object
<1>2. Winds
  <2>1. ASSUME NEW s \in Sessions, NewSession(s) PROVE Winds
    <3>1. sessions' = [sessions EXCEPT ![s].state = "idle"] /\ Unused(s)
      BY <2>1 DEF NewSession
    <3>2. Len(log) \in DOMAIN log
      BY Facts
    <3>3. s # Obj.session
      BY <3>1, <3>2 DEF Unused, Obj
    <3> QED BY <3>1, <3>3, WindsState DEF StopInv
  <2> QED BY <1>1, <2>1, WindsStill DEF StopInv
<1>3. Written /\ Obj' = Obj
  BY <1>1, Unwritten
<1>4. Kept' /\ Holds' /\ Executing'
  BY <1>2, <1>3, WriteStep DEF StopInv
<1>5. CASE ctl' = FailWith("GatewayError", ctl.run)
  <2>1. ctl'.pc = "fail"
    BY <1>5, FailType DEF FailWith, Reasons
  <2> QED BY <1>2, <1>3, <2>1, OverStops DEF Careless, Places
<1>6. ASSUME NEW s \in Sessions, ctl' = [ctl EXCEPT !.pc = "admit", !.sid = s] PROVE StopInv'
  <2>1. ctl'.pc = "admit"
    BY <1>6, CtlRun DEF Steps
  <2>2. Obj.live => Obj.finalizer
    BY <1>1 DEF StopInv, Calls
  <2>3. Calls'
    BY <1>3, <2>1, <2>2 DEF Calls
  <2> QED BY <1>4, <2>3 DEF StopInv
<1> QED BY <1>5, <1>6 DEF CreateSession

\* The run is admitted while it holds its finalizer, and its cancellation was
\* never asked for.
LEMMA AdmittedStops ==
    ASSUME IInv, StopInv, Patched(Admitted(Obj, ctl.sid)), Admissible(Obj), ctl.pc = "admit", sessions' = sessions
    PROVE  /\ Kept' /\ Holds' /\ Executing'
           /\ Obj'.live /\ Obj'.finalizer /\ Obj'.aborted # "True"
<1> DEFINE o == Admitted(Obj, ctl.sid)
<1>1. Obj \in Objects /\ ctl.sid \in Sessions /\ Obj.phase = "Pending" /\ Obj.live /\ ~Obj.deleting
  BY Facts DEF IInv, CtlOK, Admissible
<1>2. Obj.session = NoSession
  BY <1>1, Facts DEF Rank
<1>3. Obj.finalizer /\ Obj.aborted = "None" /\ Executing
  BY <1>1, <1>2 DEF StopInv, Calls, Holds
<1>4. /\ o.phase = "Running" /\ o.session = ctl.sid /\ o.live /\ o.finalizer /\ ~o.deleting
      /\ o.aborted = "None" /\ o.delivery = Obj.delivery
  BY <1>1, <1>3 DEF Admitted, Objects
<1>5. log' = Append(log, o)
  <2>1. o # Obj
    BY <1>1, <1>4
  <2> QED BY <2>1 DEF Patched, Store
<1> HIDE DEF o
<1>6. log \in Seq(Objects) /\ Len(log) \in Nat
  BY Facts
<1>7. /\ Len(log') = Len(log) + 1 /\ log'[Len(log) + 1] = o
      /\ \A i \in 1 .. Len(log) : log'[i] = log[i]
  BY <1>5, <1>6
<1>8. Obj' = o
  BY <1>7 DEF Obj
<1>9. ASSUME NEW i \in 1 .. Len(log') PROVE ~log'[i].deleting
  <2>1. CASE i \in 1 .. Len(log)
    BY <1>1, <1>7, <2>1 DEF StopInv, Kept
  <2>2. CASE i = Len(log) + 1
    BY <1>4, <1>7, <2>2
  <2> QED BY <1>6, <1>7, <2>1, <2>2
<1>10. Kept'
  BY <1>4, <1>8, <1>9 DEF Kept
<1>11. o.session # NoSession
  BY <1>1, <1>4, ConstantsAssumption
<1>12. Holds'
  BY <1>4, <1>8, <1>11 DEF Holds, Closed, Terminal, Ends
<1>13. Executing'
  BY <1>3 DEF Executing
<1> QED BY <1>4, <1>8, <1>10, <1>12, <1>13

\* Admission records a session that was just created, idle, under the finalizer.
LEMMA AdmitStops == ASSUME IInv, StopInv, NEW ok \in BOOLEAN, Admit(ok) PROVE StopInv'
<1> DEFINE o == Admitted(Obj, ctl.sid)
<1>1. ctl.pc = "admit" /\ sessions' = sessions
  BY DEF Admit, opencode
<1>2. \/ Admissible(Obj) /\ Patched(o) /\ ctl' = [ctl EXCEPT !.pc = "prompt", !.run = o]
      \/ /\ log' = log \/ (Admissible(Cached) /\ PatchFails(o))
         /\ ctl' = [ctl EXCEPT !.pc = "unadmit"]
  BY DEF Admit
<1>3. Fresh /\ Admissible(Cached) => Admissible(Obj)
  BY Facts
<1>4. CASE Admissible(Obj) /\ Patched(o) /\ ctl' = [ctl EXCEPT !.pc = "prompt", !.run = o]
  <2>1. /\ Kept' /\ Holds' /\ Executing' /\ Obj'.live /\ Obj'.finalizer /\ Obj'.aborted # "True"
    BY <1>1, <1>4, AdmittedStops
  <2>2. ctl'.pc = "prompt"
    BY <1>4, CtlRun DEF Steps
  <2>3. Calls'
    BY <2>1, <2>2 DEF Calls
  <2> QED BY <2>1, <2>3 DEF StopInv
<1>5. CASE (log' = log \/ (Admissible(Cached) /\ PatchFails(o))) /\ ctl' = [ctl EXCEPT !.pc = "unadmit"]
  <2>1. "unadmit" \in Places /\ "unadmit" \in Careless
    BY DEF Places, Careless
  <2>2. ctl'.pc = "unadmit"
    BY <1>5, <2>1, PcType
  <2>3. CASE log' = log
    BY <1>1, <2>1, <2>2, <2>3, Unwritten, WindsStill, OverStops DEF StopInv
  <2>4. CASE Patched(o) /\ Admissible(Cached)
    <3>1. Kept' /\ Holds' /\ Executing'
      BY <1>1, <1>3, <2>4, AdmittedStops DEF Patched
    <3> QED BY <2>1, <2>2, <3>1, Uncaring DEF StopInv
  <2> QED BY <1>5, <2>3, <2>4 DEF PatchFails, Fault
<1> QED BY <1>2, <1>4, <1>5

\* A session that was not admitted may stay, but nobody prompts it.
LEMMA UnadmitStops == ASSUME IInv, StopInv, Unadmit PROVE StopInv'
<1>1. /\ log' = log /\ ctl' = FailWith("GatewayError", ctl.run)
      /\ sessions' = sessions \/ sessions' = [sessions EXCEPT ![ctl.sid].state = "gone"]
  BY DEF Unadmit, object
<1>2. ctl.sid \in Sessions
  BY DEF Unadmit, IInv, CtlOK
<1>3. Winds
  BY <1>1, <1>2, WindsStill, WindsState DEF StopInv
<1>4. ctl'.pc = "fail"
  BY <1>1, FailType DEF FailWith, Reasons
<1> QED BY <1>1, <1>3, <1>4, Unwritten, OverStops DEF Careless, Places

\* The prompt reaches a run that is still there, and that nobody cancelled.
LEMMA PromptStops == ASSUME IInv, StopInv, NEW ok \in BOOLEAN, Prompt(ok) PROVE StopInv'
<1>1. /\ ctl.pc = "prompt" /\ log' = log
      /\ sessions' = sessions \/ Receive(ctl.sid)
      /\ ctl' = Rest \/ ctl' = FailWith("GatewayError", ctl.run)
  BY DEF Prompt, Uncertain, Requeue
<1>2. /\ Obj.live /\ Obj.aborted # "True" /\ Obj.session # NoSession /\ ctl.sid \in Sessions
      /\ Kept /\ Holds /\ Executing /\ Obj' = Obj
  BY <1>1, Still, ConstantsAssumption DEF StopInv, Calls, IInv, CtlOK
<1>3. Executing'
  <2>1. CASE Receive(ctl.sid)
    <3> DEFINE r == [sessions[ctl.sid] EXCEPT !.state = "busy", !.prompted = TRUE]
    <3>0. sessions[ctl.sid] \in SessionStates
      BY <1>2 DEF IInv, TypeOK
    <3>1. r \in SessionStates /\ r.prompted
      BY <3>0 DEF SessionStates
    <3>2. sessions' = [sessions EXCEPT ![ctl.sid] = r]
      BY <2>1 DEF Receive
    <3> HIDE DEF r
    <3>3. sessions'[ctl.sid] = r /\ \A t \in Sessions : t # ctl.sid => sessions'[t] = sessions[t]
      BY <1>2, <3>1, <3>2, SessionUpdate DEF IInv
    <3> QED BY <1>2, <3>1, <3>3 DEF Executing
  <2> QED BY <1>1, <1>2, <2>1 DEF Executing
<1>4. Kept'
  BY <1>1, <1>2 DEF Kept
<1>5. Holds'
  BY <1>2 DEF Holds, Closed
<1>6. Calls'
  <2>1. CASE ctl' = FailWith("GatewayError", ctl.run)
    <3>1. ctl'.pc = "fail"
      BY <2>1, FailType DEF FailWith, Reasons
    <3> QED BY <3>1, Uncaring DEF Careless, Places
  <2> QED BY <1>1, <2>1, RestCalls
<1> QED BY <1>3, <1>4, <1>5, <1>6 DEF StopInv

\* Calls that only read.
LEMMA ReadStops ==
    ASSUME IInv, StopInv, NEW ok \in BOOLEAN, Inspect(ok) \/ ReadMessages(ok) \/ CheckIdle(ok)
    PROVE  StopInv'
<1>1. log' = log /\ sessions' = sessions
  BY DEF Inspect, ReadMessages, CheckIdle, opencode
<1>2. ctl' = Rest \/ ctl'.pc \in {"messages", "settle", "deliver"}
  <2>1. CASE Inspect(ok)
    BY <2>1, CtlRun DEF Inspect, Requeue, Steps
  <2>2. CASE ReadMessages(ok)
    BY <2>2, CtlRun DEF ReadMessages, Requeue, Steps
  <2>3. CASE CheckIdle(ok)
    BY <2>3, CtlRun DEF CheckIdle, Requeue, Steps
  <2> QED BY <2>1, <2>2, <2>3
<1>3. {"messages", "settle", "deliver"} \subseteq Careless
  BY DEF Careless, Places
<1> QED BY <1>1, <1>2, <1>3, Unwritten, WindsStill, OverStops DEF StopInv

\* failRun asks for the cancellation.
LEMMA FailRunStops == ASSUME IInv, StopInv, NEW ok \in BOOLEAN, FailRun(ok) PROVE StopInv'
<1> DEFINE o == Failed(Obj, ctl.reason)
<1>1. /\ Patched(o) \/ PatchFails(o)
      /\ sessions' = sessions
      /\ ctl' = Rest \/ ctl' = At("sync", "None", ctl.after, o)
  BY DEF FailRun, opencode, Requeue
<1>2. o \in Objects /\ Writes(o)
  BY Facts, CtlRun, FailedType, FailedWrites DEF StopInv
<1> HIDE DEF o
<1>3. "sync" \in Places /\ "None" \in Reasons /\ "sync" \in Careless
  BY DEF Places, Reasons, Careless
<1>4. ctl' = Rest \/ ctl'.pc = "sync"
  BY <1>1, <1>2, <1>3, CtlRun, AtType
<1>5. Written /\ Winds
  BY <1>1, <1>2, PatchWrites, WindsStill DEF StopInv
<1> QED BY <1>3, <1>4, <1>5, OverStops

\* syncTerminalStatus returns to a place where nothing matters.
LEMMA ReturnCareless ==
    ASSUME IInv, NEW o \in Objects, Return(ctl.after, o)
    PROVE  ctl' = Rest \/ ctl'.pc \in Careless
<1>1. ctl' = Rest \/ ctl' = Goto("prune", o) \/ ctl' = Goto("deliver", o) \/ ctl' = Goto("handoff", o)
  BY CtlRun DEF Return, Done, Requeue
<1>2. {"prune", "deliver", "handoff"} \subseteq Places /\ {"prune", "deliver", "handoff"} \subseteq Careless
      /\ "None" \in Reasons
  BY DEF Places, Careless, Reasons
<1>3. ASSUME NEW pc \in {"prune", "deliver", "handoff"}, ctl' = Goto(pc, o) PROVE ctl'.pc = pc
  BY <1>2, <1>3, AtType DEF Goto
<1> QED BY <1>1, <1>2, <1>3

\* A run that is to be cancelled has a session.
LEMMA SyncStops == ASSUME IInv, StopInv, NEW ok \in BOOLEAN, SyncTerminalStatus(ok) PROVE StopInv'
<1> DEFINE o == Synced(Obj)
<1>1. /\ Patched(o) \/ PatchFails(o)
      /\ sessions' = sessions
      /\ \/ ctl' = Rest
         \/ Patched(o) /\ o.aborted = "False" /\ ctl' = [ctl EXCEPT !.pc = "abort", !.run = o]
         \/ Return(ctl.after, o)
  BY DEF SyncTerminalStatus, opencode, Requeue
<1>2. o \in Objects /\ Plain(o)
  BY Facts, SyncedType, SyncedPlain
<1>3. Writes(o) /\ Holds
  BY <1>2, PlainWrites DEF StopInv
<1> HIDE DEF o
<1>4. Written /\ Winds
  BY <1>1, <1>3, PatchWrites, WindsStill DEF StopInv
<1>5. CASE ctl' = Rest \/ Return(ctl.after, o)
  BY <1>2, <1>4, <1>5, ReturnCareless, OverStops
<1>6. CASE Patched(o) /\ o.aborted = "False" /\ ctl' = [ctl EXCEPT !.pc = "abort", !.run = o]
  <2>1. Obj' = o
    BY <1>3, <1>6, StoreWrites DEF Patched
  <2>2. o.session # NoSession
    BY <1>2, <1>3, <1>6 DEF Plain, Holds
  <2>3. ctl'.pc = "abort" /\ ctl'.run = o
    BY <1>6, CtlRun DEF Steps
  <2>4. Calls'
    BY <2>1, <2>2, <2>3 DEF Calls
  <2> QED BY <1>4, <2>4, WriteStep DEF StopInv
<1> QED BY <1>1, <1>5, <1>6

\* A cancellation, confirmed or not.
LEMMA AbortWinds ==
    ASSUME IInv, StopInv, NEW ok \in BOOLEAN, AbortRun(ok), log' = log
    PROVE  Winds /\ (ok /\ ctl.run.session = Obj.session => Quiet')
<1>1. ctl.run.session \in Sessions \cup {NoSession} /\ Executing
  BY CtlRun, Fields DEF StopInv
<1>2. CASE sessions' = sessions
  <2>1. Winds
    BY <1>1, <1>2, WindsStill
  <2>2. CASE ok
    <3>1. sessions' = Stopped(ctl.run.session)
      BY <2>2 DEF AbortRun
    <3> QED BY <1>1, <3>1, WindsStopped
  <2> QED BY <2>1, <2>2
<1>3. CASE sessions' = Stopped(ctl.run.session)
  BY <1>1, <1>3, WindsStopped
<1> QED BY <1>2, <1>3 DEF AbortRun

\* An abort that answers leaves the session quiet for the confirmation.
LEMMA AbortStops == ASSUME IInv, StopInv, NEW ok \in BOOLEAN, AbortSession(ok) PROVE StopInv'
<1>1. /\ ctl.pc = "abort" /\ AbortRun(ok) /\ log' = log
      /\ ctl' = Rest \/ (ok /\ ctl' = [ctl EXCEPT !.pc = "confirm"])
  BY DEF AbortSession, Requeue
<1>2. ctl.run.session = Obj.session /\ Obj.session # NoSession
  BY <1>1 DEF StopInv, Calls
<1>3. Winds /\ (ok => Quiet')
  BY <1>1, <1>2, AbortWinds
<1>4. Written /\ Obj' = Obj
  BY <1>1, Unwritten
<1>5. CASE ctl' = Rest
  BY <1>3, <1>4, <1>5, OverStops
<1>6. CASE ok /\ ctl' = [ctl EXCEPT !.pc = "confirm"]
  <2>1. "confirm" \in Places
    BY DEF Places
  <2>2. ctl'.pc = "confirm" /\ ctl'.run = ctl.run
    BY <1>6, <2>1, PcType
  <2>3. Calls'
    BY <1>2, <1>3, <1>4, <1>6, <2>2 DEF Calls
  <2> QED BY <1>3, <1>4, <2>3, WriteStep DEF StopInv
<1> QED BY <1>1, <1>5, <1>6

\* The cancellation is recorded once nothing executes.
LEMMA ConfirmStops == ASSUME IInv, StopInv, NEW ok \in BOOLEAN, ConfirmAbort(ok) PROVE StopInv'
<1> DEFINE o == [Obj EXCEPT !.aborted = "True"]
<1>1. /\ ctl.pc = "confirm" /\ sessions' = sessions
      /\ Patched(o) \/ PatchFails(o)
      /\ ctl' = Rest \/ Return(ctl.after, o)
  BY DEF ConfirmAbort, opencode, Requeue
<1>2. Obj \in Objects
  BY Facts
<1>3. /\ o.session = Obj.session /\ o.delivery = Obj.delivery /\ o.live = Obj.live /\ o.deleting = Obj.deleting
      /\ o.finalizer = Obj.finalizer /\ o.phase = Obj.phase /\ o.nodes = Obj.nodes
      /\ o \in Objects
  BY <1>2 DEF Objects
<1>4. Quiet /\ Obj.session # NoSession /\ Holds
  BY <1>1 DEF StopInv, Calls
<1> HIDE DEF o
<1>5. Writes(o)
  BY <1>3, <1>4 DEF Writes, Holds, Closed
<1>6. Written /\ Winds
  BY <1>1, <1>5, PatchWrites, WindsStill DEF StopInv
<1> QED BY <1>1, <1>3, <1>6, ReturnCareless, OverStops

\* pruneOrphanRuns.
LEMMA PruneStops == ASSUME IInv, StopInv, PruneOrphanRuns PROVE StopInv'
<1>1. /\ log' = log \/ (Obj.live /\ Store(Deleted(Obj)))
      /\ sessions' = sessions /\ ctl' = Rest
  BY DEF PruneOrphanRuns, opencode, Done
<1>2. Written
  <2>1. CASE Obj.live /\ Store(Deleted(Obj))
    <3>1. Writes(Deleted(Obj))
      BY <2>1, DeletedWrites DEF StopInv
    <3> QED BY <2>1, <3>1, StoreWrites
  <2> QED BY <1>1, <2>1, Unwritten
<1> QED BY <1>1, <1>2, WindsStill, OverStops DEF StopInv

\* Where Reconcile goes from the version in the cache.
DecisionKnows(c) == c = Rest \/ c.pc \in Careless \/ (c.pc = "create" /\ Cached.finalizer)

\* It starts a run only with its finalizer.
LEMMA DecidesKnowing == ASSUME IInv PROVE DecisionKnows(Decide(Cached))
<1> DEFINE c == Decide(Cached)
<1>1. c.pc \in {"idle", "addFinalizer", "sync", "markPending", "fail", "create", "inspect"}
  BY Decides DEF Called
<1>2. CASE ~Cached.live \/ Cached.finalizer
  <2>1. ~Cached.live => c = Rest
    BY DEF Decide
  <2> QED BY <1>1, <1>2, <2>1 DEF DecisionKnows, Careless, Places
<1>3. CASE Cached.live /\ ~Cached.finalizer
  <2>1. c = Goto("addFinalizer", Cached)
    BY <1>3 DEF Decide
  <2>2. "addFinalizer" \in Places /\ "None" \in Reasons /\ "addFinalizer" \in Careless
    BY DEF Places, Reasons, Careless
  <2>3. c.pc = "addFinalizer"
    BY <2>1, <2>2, Facts, AtType DEF Goto
  <2> QED BY <2>2, <2>3 DEF DecisionKnows
<1> QED BY <1>2, <1>3, Facts, Fields

\* A call after which Reconcile decides anew.
LEMMA DecisionStops ==
    ASSUME IInv, StopInv, UNCHANGED <<log, sessions>>, DecisionKnows(ctl')
    PROVE  StopInv'
<1>1. Written /\ Winds /\ Obj' = Obj
  BY Unwritten, WindsStill DEF StopInv
<1>2. CASE ctl'.pc = "create" /\ Cached.finalizer
  <2>1. Obj.live => Obj.finalizer
    BY <1>2, Facts DEF StopInv, Kept, Cached
  <2>2. Calls'
    BY <1>1, <1>2, <2>1 DEF Calls
  <2> QED BY <1>1, <2>2, WriteStep DEF StopInv
<1> QED BY <1>1, <1>2, OverStops DEF DecisionKnows

\* The result is handed over, or not.
LEMMA DeliverStops == ASSUME IInv, StopInv, NEW ok \in BOOLEAN, Deliver(ok) PROVE StopInv'
<1>1. /\ log' = log /\ sessions' = sessions
      /\ \/ ctl' = Decide(Cached) \/ ctl' = Rest
         \/ ctl' = At("fail", "GatewayError", "done", ctl.run)
         \/ ctl' = At("fail", "TimedOut", "retry", ctl.run)
  BY DEF Deliver, opencode, FailWith
<1>2. CASE ctl' = Decide(Cached)
  BY <1>1, <1>2, DecidesKnowing, DecisionStops
<1>3. CASE ctl' = Rest
  BY <1>1, <1>3, DecisionStops DEF DecisionKnows
<1>4. CASE ctl' = At("fail", "GatewayError", "done", ctl.run) \/ ctl' = At("fail", "TimedOut", "retry", ctl.run)
  <2>1. ctl'.pc = "fail"
    BY <1>4, FailType DEF Reasons
  <2>2. "fail" \in Careless
    BY DEF Careless, Places
  <2> QED BY <1>1, <2>1, <2>2, DecisionStops DEF DecisionKnows
<1> QED BY <1>1, <1>2, <1>3, <1>4

\* Reconcile starts from the version in the cache.
LEMMA BeginStops == ASSUME IInv, StopInv, Begin PROVE StopInv'
<1> DEFINE o == Cached
<1>1. log' = log /\ sessions' = sessions /\ ctl' = Route(o)
  BY DEF Begin, opencode
<1>2. /\ o \in Objects /\ o.delivery = Obj.delivery
      /\ o.deleting => Obj.deleting /\ o.session = Obj.session
  BY Facts DEF StopInv, Kept, Cached
<1>3. Written /\ Winds /\ Obj' = Obj /\ Executing
  BY <1>1, Unwritten, WindsStill DEF StopInv
<1> HIDE DEF o
<1>4. CASE o.live /\ o.deleting
  <2>1. \/ ctl' = Rest
        \/ ctl' = Goto("unfinalize", o) /\ o.session = NoSession
        \/ ctl' = Goto("finalAbort", o)
    BY <1>1, <1>4 DEF Route, Finalize
  <2>2. {"unfinalize", "finalAbort"} \subseteq Places /\ "None" \in Reasons
    BY DEF Places, Reasons
  <2>3. CASE ctl' = Rest
    BY <1>3, <2>3, OverStops
  <2>4. CASE ctl' = Goto("unfinalize", o) /\ o.session = NoSession
    <3>1. ctl'.pc = "unfinalize" /\ ctl'.run = o
      BY <1>2, <2>2, <2>4, AtType DEF Goto
    <3>2. Quiet /\ Released
      BY <1>2, <1>3, <1>4, <2>4, QuietWithout
    <3>3. Kept' /\ Holds' /\ Executing' /\ Quiet' /\ Released'
      BY <1>3, <3>2, WriteStep DEF StopInv
    <3>4. Calls'
      BY <1>2, <1>3, <1>4, <3>1, <3>3 DEF Calls
    <3> QED BY <3>3, <3>4 DEF StopInv
  <2>5. CASE ctl' = Goto("finalAbort", o)
    <3>1. ctl'.pc = "finalAbort" /\ ctl'.run = o
      BY <1>2, <2>2, <2>5, AtType DEF Goto
    <3>2. Calls'
      BY <1>2, <1>3, <1>4, <3>1 DEF Calls
    <3> QED BY <1>3, <3>2, WriteStep DEF StopInv
  <2> QED BY <2>1, <2>3, <2>4, <2>5
<1>5. CASE ~(o.live /\ o.deleting)
  <2>1. \/ ctl' = Rest \/ ctl' = Decide(o)
        \/ ctl' = FailWith("GatewayError", o) \/ ctl' = At("sync", "None", "handoff", o)
        \/ ctl' = Goto("deliver", o)
    BY <1>1, <1>5 DEF Route
  <2>2. {"fail", "sync", "deliver"} \subseteq Places /\ {"None", "GatewayError"} \subseteq Reasons
        /\ {"fail", "sync", "deliver"} \subseteq Careless
    BY DEF Places, Reasons, Careless
  <2>3. CASE ctl' = Rest
    BY <1>3, <2>3, OverStops
  <2>4. CASE ctl' = Decide(o)
    <3>1. DecisionKnows(ctl')
      BY <2>4, DecidesKnowing DEF o
    <3> QED BY <1>1, <3>1, DecisionStops
  <2>5. CASE ctl' = FailWith("GatewayError", o)
    <3>1. ctl'.pc = "fail"
      BY <1>2, <2>2, <2>5, AtType DEF FailWith
    <3> QED BY <1>3, <2>2, <3>1, OverStops
  <2>6. CASE ctl' = At("sync", "None", "handoff", o)
    <3>1. ctl'.pc = "sync"
      BY <1>2, <2>2, <2>6, AtType
    <3> QED BY <1>3, <2>2, <3>1, OverStops
  <2>7. CASE ctl' = Goto("deliver", o)
    <3>1. ctl'.pc = "deliver"
      BY <1>2, <2>2, <2>7, AtType DEF Goto
    <3> QED BY <1>3, <2>2, <3>1, OverStops
  <2> QED BY <2>1, <2>3, <2>4, <2>5, <2>6, <2>7
<1> QED BY <1>4, <1>5

\* finalizeRun stops the session ...
LEMMA FinalAbortStops == ASSUME IInv, StopInv, NEW ok \in BOOLEAN, FinalAbort(ok) PROVE StopInv'
<1>1. /\ ctl.pc = "finalAbort" /\ AbortRun(ok) /\ log' = log
      /\ \/ ctl' = Rest
         \/ ok /\ ctl.run.delivery /\ ctl' = [ctl EXCEPT !.pc = "unfinalize"]
         \/ ok /\ ctl' = [ctl EXCEPT !.pc = "deleteSession"]
  BY DEF FinalAbort, Requeue
<1>2. Obj.deleting /\ ctl.run.session = Obj.session /\ ctl.run.delivery = Obj.delivery
  BY <1>1 DEF StopInv, Calls
<1>3. Winds /\ (ok => Quiet')
  BY <1>1, <1>2, AbortWinds
<1>4. Written /\ Obj' = Obj
  BY <1>1, Unwritten
<1>5. {"unfinalize", "deleteSession"} \subseteq Places
  BY DEF Places
<1>6. CASE ctl' = Rest
  BY <1>3, <1>4, <1>6, OverStops
<1>7. CASE ok /\ ctl.run.delivery /\ ctl' = [ctl EXCEPT !.pc = "unfinalize"]
  <2>1. ctl'.pc = "unfinalize" /\ ctl'.run = ctl.run
    BY <1>5, <1>7, PcType
  <2>2. Released'
    BY <1>2, <1>4, <1>7 DEF Released
  <2>3. Calls'
    BY <1>2, <1>3, <1>4, <1>7, <2>1, <2>2 DEF Calls
  <2> QED BY <1>3, <1>4, <2>3, WriteStep DEF StopInv
<1>8. CASE ok /\ ctl' = [ctl EXCEPT !.pc = "deleteSession"]
  <2>1. ctl'.pc = "deleteSession" /\ ctl'.run = ctl.run
    BY <1>5, <1>8, PcType
  <2>2. Calls'
    BY <1>2, <1>3, <1>4, <1>8, <2>1 DEF Calls
  <2> QED BY <1>3, <1>4, <2>2, WriteStep DEF StopInv
<1> QED BY <1>1, <1>6, <1>7, <1>8

\* ... deletes it ...
LEMMA DeleteSessionStops == ASSUME IInv, StopInv, NEW ok \in BOOLEAN, DeleteSession(ok) PROVE StopInv'
<1> DEFINE s == ctl.run.session
<1>1. /\ ctl.pc = "deleteSession" /\ log' = log
      /\ sessions' = sessions \/ sessions' = [sessions EXCEPT ![s].state = "gone"]
      /\ \/ ctl' = Rest
         \/ /\ sessions' = [sessions EXCEPT ![s].state = "gone"]
            /\ ctl' = [ctl EXCEPT !.pc = "unfinalize"]
  BY DEF DeleteSession, Requeue
<1>2. /\ Obj.deleting /\ s = Obj.session /\ ctl.run.delivery = Obj.delivery /\ Quiet /\ s \in Sessions
      /\ Executing
  BY <1>1 DEF StopInv, Calls, IInv, CtlOK
<1> HIDE DEF s
<1>3. Winds
  BY <1>1, <1>2, WindsStill, WindsState
<1>4. Written /\ Obj' = Obj
  BY <1>1, Unwritten
<1>5. CASE ctl' = Rest
  BY <1>3, <1>4, <1>5, OverStops
<1>6. CASE /\ sessions' = [sessions EXCEPT ![s].state = "gone"]
           /\ ctl' = [ctl EXCEPT !.pc = "unfinalize"]
  <2>1. "unfinalize" \in Places
    BY DEF Places
  <2>2. ctl'.pc = "unfinalize" /\ ctl'.run = ctl.run
    BY <1>6, <2>1, PcType
  <2>3. sessions'[s].state = "gone"
    BY <1>2, <1>6, WindsState
  <2>4. Released'
    BY <1>2, <1>4, <2>3 DEF Released
  <2>5. Kept' /\ Holds' /\ Executing' /\ Quiet'
    BY <1>2, <1>3, <1>4, WriteStep DEF StopInv
  <2>6. Calls'
    BY <1>2, <1>4, <2>2, <2>4, <2>5 DEF Calls, s
  <2> QED BY <2>5, <2>6 DEF StopInv
<1> QED BY <1>1, <1>5, <1>6

\* ... and lets the run go.
LEMMA UnfinalizeStops == ASSUME IInv, StopInv, NEW ok \in BOOLEAN, Unfinalize(ok) PROVE StopInv'
<1> DEFINE o == [Obj EXCEPT !.finalizer = FALSE, !.live = FALSE]
<1>1. /\ ctl.pc = "unfinalize" /\ sessions' = sessions /\ ctl' = Rest
      /\ Patched(o) \/ PatchFails(o) \/ log' = log
  BY DEF Unfinalize, opencode, Requeue, Done
<1>2. Obj \in Objects
  BY Facts
<1>3. /\ o.session = Obj.session /\ o.delivery = Obj.delivery /\ ~o.live /\ o.deleting = Obj.deleting
      /\ o.aborted = Obj.aborted /\ o.phase = Obj.phase /\ o.nodes = Obj.nodes
  BY <1>2 DEF Objects
<1>4. Quiet /\ Released /\ Holds
  BY <1>1 DEF StopInv, Calls
<1> HIDE DEF o
<1>5. Writes(o)
  BY <1>3, <1>4 DEF Writes, Holds, Closed
<1>6. Written /\ Winds
  BY <1>1, <1>5, PatchWrites, WindsStill DEF StopInv
<1> QED BY <1>1, <1>6, OverStops

-----------------------------------------------------------------------------

\* The invariant holds at first ...
LEMMA StopsInitially == ASSUME Init PROVE StopInv
<1>1. PICK r \in Runs : log = <<Created(r)>>
  BY DEF Init
<1>2. /\ Created(r).live /\ ~Created(r).deleting /\ Created(r).session = NoSession
      /\ Created(r).aborted = "None" /\ Created(r).phase = "Unknown"
  BY DEF Created
<1>3. Obj = Created(r) /\ Len(log) = 1 /\ log[1] = Created(r)
  BY <1>1 DEF Obj
<1>4. Kept
  BY <1>2, <1>3 DEF Kept
<1>5. Holds
  BY <1>2, <1>3 DEF Holds, Closed, Terminal, Ends
<1>6. Executing
  BY DEF Init, Executing
<1>7. Calls
  BY RestType DEF Init, Calls
<1> QED BY <1>4, <1>5, <1>6, <1>7 DEF StopInv

\* ... and every step keeps it.
LEMMA StopsNext == ASSUME IInv, StopInv, [Next]_vars PROVE StopInv'
<1>1. CASE UNCHANGED vars
  BY <1>1, Aside DEF vars
<1>2. CASE Controller
  <2>1. CASE Begin \/ Unadmit \/ PruneOrphanRuns
    BY <2>1, BeginStops, UnadmitStops, PruneStops
  <2>2. ASSUME NEW ok \in BOOLEAN, Works(ok) PROVE StopInv'
    BY <2>2, AddFinalizerStops, MarkPendingStops, CreateSessionStops, AdmitStops, PromptStops, ReadStops,
       SettleStops, FailRunStops, SyncStops, AbortStops, ConfirmStops, DeliverStops, FinalAbortStops,
       DeleteSessionStops, UnfinalizeStops
       DEF Works
  <2> QED BY <1>2, <2>1, <2>2 DEF Controller
<1>3. CASE CacheSync \/ CloseDestination \/ TimeoutPasses \/ GracePasses
  <2>1. UNCHANGED <<log, ctl, sessions>>
    BY <1>3 DEF CacheSync, CloseDestination, TimeoutPasses, GracePasses, object, opencode
  <2> QED BY <2>1, Aside
<1>4. CASE Crash
  <2>1. log' = log /\ sessions' = sessions /\ ctl' = Rest
    BY <1>4 DEF Crash, opencode
  <2> QED BY <2>1, Unwritten, WindsStill, OverStops DEF StopInv
<1>5. ASSUME NEW s \in Sessions, Agent(s) PROVE StopInv'
  BY <1>5, OpenCodeStops, ReportStops DEF Agent
<1>6. CASE DeleteWorkflowRun \/ PruneScheduledRun
  BY <1>6, DeletionStops DEF DeleteWorkflowRun, PruneScheduledRun
<1>7. CASE CleanChat
  BY <1>7, OpenCodeStops
<1> QED BY <1>1, <1>2, <1>3, <1>4, <1>5, <1>6, <1>7 DEF Next

\* A run that was cancelled, deleted or released executes no more, unless its
\* prompt arrived after its request had failed; its session goes with it unless
\* a conversation owns it; and no node of an ended run runs.
THEOREM LeavesNothingRunning == Spec => []NothingRunsOn
<1>1. ASSUME IInv, StopInv PROVE NothingRunsOn
  <2>1. ASSUME NEW s \in Sessions, Busy(s), ~sessions[s].late PROVE Obj.live /\ Obj.aborted # "True"
    BY <1>1, <2>1 DEF StopInv, Holds, Quiet
  <2>2. ~Obj.live /\ Obj.session # NoSession /\ ~Obj.delivery => sessions[Obj.session].state = "gone"
    BY <1>1 DEF StopInv, Holds, Released
  <2>3. Terminal(Obj.phase) => \A i \in DOMAIN Obj.nodes : Obj.nodes[i].phase # "Running"
    BY <1>1 DEF StopInv, Holds, Closed
  <2> QED BY <2>1, <2>2, <2>3 DEF NothingRunsOn
<1> QED BY <1>1, StopsInitially, StopsNext, Invariance, PTL DEF Spec
=============================================================================
