-------------------------- MODULE ChatMailboxProofs --------------------------
(***************************************************************************)
(* ChatInputs implements ChatMailbox, for every value of the constants.    *)
(*                                                                         *)
(* Besides the inductive invariant of ChatInputsProofs the mapping needs   *)
(* that nobody works on, or lists, a row that does not exist (LiveInv).    *)
(***************************************************************************)
EXTENDS ChatInputsProofs

USE DEF vars, rowVars, procVars, engineVars, budgets
USE DEF States, PCs, DeliverPCs, ReconcilePCs, StopPCs, Turns, Busy, Active,
        DirectStates, Working

Exists(i) == st[i] # "absent"

LiveInv ==
    /\ \A i \in Inputs : ~Exists(i) => mid[i] = 0
    /\ \A p \in Proc :
          /\ pc[p] \in Working => Exists(job[p])
          /\ \A i \in listed[p] : Exists(i)

\* A goroutine p moves to control point l with its row, or lets it go.
Moves(p) ==
    /\ \A q \in Proc \ {p} :
          pc'[q] = pc[q] /\ job'[q] = job[q] /\ listed'[q] = listed[q]
    /\ listed'[p] \subseteq listed[p]
    /\ pc'[p] \in Working => job'[p] = job[p] /\ pc[p] \in Working

\* Rows are not deleted, and only an existing row gets a message id.
Grows ==
    /\ \A i \in Inputs : Exists(i) => st'[i] # "absent"
    /\ \A i \in Inputs : mid'[i] = mid[i] \/ mid'[i] = 0 \/ st'[i] # "absent"

LEMMA MovesLive ==
    ASSUME IInv, LiveInv, NEW p \in Proc, Moves(p), Grows
    PROVE  LiveInv'
<1> USE DEF IInv, TypeOK, JobInv, Exists
<1>1. \A i \in Inputs : (~Exists(i) => mid[i] = 0)'  BY DEF LiveInv, Grows
<1>2. ASSUME NEW q \in Proc
      PROVE  (/\ pc[q] \in Working => Exists(job[q])
              /\ \A i \in listed[q] : Exists(i))'
    <2>1. listed'[q] \subseteq listed[q] /\ listed[q] \subseteq Inputs
        BY DEF Moves
    <2>2. pc'[q] \in Working => pc[q] \in Working /\ job'[q] = job[q]
        BY DEF Moves
    <2>3. pc[q] \in Working => job[q] \in Inputs  OBVIOUS
    <2> QED BY <2>1, <2>2, <2>3 DEF LiveInv, Grows
<1> QED BY <1>1, <1>2 DEF LiveInv

LEMMA SameGrows == ASSUME UNCHANGED <<st, mid>> PROVE Grows
BY DEF Grows, Exists

LEMMA WroteGrows ==
    ASSUME TypeOK, NEW i \in Inputs, NEW s, NEW m, Wrote(i, s, m),
           s # "absent" \/ (s = st[i] /\ m = mid[i])
    PROVE  Grows
BY DEF TypeOK, Wrote, Grows, Exists

LEMMA LocalsMoves == ASSUME TypeOK, NEW p \in Proc, Locals(p) PROVE Moves(p)
BY DEF TypeOK, Locals, Moves

LEMMA GotoMoves ==
    ASSUME TypeOK, NEW p \in Proc, NEW l, Goto(p, l),
           pc[p] \in Working \/ l \notin Working
    PROVE  Moves(p)
BY DEF TypeOK, Goto, Moves

LEMMA ResolvedMoves ==
    ASSUME TypeOK, NEW p \in Proc, NEW s, NEW m, Resolved(p, s, m)
    PROVE  Moves(p)
<1>1. CASE Locals(p)  BY <1>1, LocalsMoves
<1>2. CASE /\ pc' = [pc EXCEPT ![p] = "stop"]
           /\ job' = [job EXCEPT ![p] = 0]
           /\ listed' = [listed EXCEPT ![p] = @ \ {job[p]}]
    BY <1>2 DEF TypeOK, Moves
<1> QED BY <1>1, <1>2 DEF Resolved

LEMMA UnresolvedMoves ==
    ASSUME TypeOK, NEW p \in Proc, Unresolved(p)
    PROVE  Moves(p) /\ Grows
<1>1. Grows  BY SameGrows DEF Unresolved
<1>2. CASE Return(p)  BY <1>1, <1>2, LocalsMoves DEF Return
<1>3. CASE /\ pc' = [pc EXCEPT ![p] = "halt"]
           /\ job' = [job EXCEPT ![p] = 0]
           /\ UNCHANGED listed
    BY <1>1, <1>3 DEF TypeOK, Moves
<1> QED BY <1>2, <1>3 DEF Unresolved

LEMMA DeliverLive ==
    ASSUME IInv, LiveInv, NEW p \in Proc, Deliver(p)
    PROVE  LiveInv'
<1>0. TypeOK  BY DEF IInv
<1>1. ASSUME NEW i \in Inputs, Pick(p, i) PROVE LiveInv'
    BY <1>0, <1>1 DEF TypeOK, LiveInv, Pick, IsPick, Pending, Exists
<1>2. CASE Denied(p)
    <2>0. job[p] \in Inputs  BY <1>2 DEF Denied, IInv, JobInv
    <2>1. Moves(p)  BY <1>0, <1>2, LocalsMoves DEF Denied
    <2>2. Grows  BY <1>0, <2>0, <1>2, WroteGrows, SameGrows DEF Denied
    <2> QED BY <2>1, <2>2, MovesLive
<1>3. CASE AcquireCompletion(p)
    <2>1. Moves(p)  BY <1>0, <1>3 DEF AcquireCompletion, Acquire, Moves, TypeOK
    <2>2. Grows  BY <1>0, <1>3, SameGrows DEF AcquireCompletion, Acquire
    <2> QED BY <2>1, <2>2, MovesLive
<1>4. CASE AcquireReconcile(p)
    <2>1. Moves(p)  BY <1>0, <1>4 DEF AcquireReconcile, Acquire, Moves, TypeOK
    <2>2. Grows  BY <1>0, <1>4, SameGrows DEF AcquireReconcile, Acquire
    <2> QED BY <2>1, <2>2, MovesLive
<1>5. CASE AcquireHead(p)
    <2>1. Moves(p)  BY <1>0, <1>5 DEF AcquireHead, Acquire, Moves, TypeOK
    <2>2. Grows  BY <1>0, <1>5, SameGrows DEF AcquireHead, Acquire
    <2> QED BY <2>1, <2>2, MovesLive
<1>6. CASE AcquireNothing(p)
    <2>1. Moves(p)  BY <1>0, <1>6, LocalsMoves DEF AcquireNothing, Return
    <2>2. Grows  BY <1>0, <1>6, SameGrows DEF AcquireNothing
    <2> QED BY <2>1, <2>2, MovesLive
<1>7. CASE ReadStatus(p)
    <2>1. Moves(p)  BY <1>0, <1>7, LocalsMoves, GotoMoves DEF ReadStatus, Return
    <2>2. Grows  BY <1>0, <1>7, SameGrows DEF ReadStatus
    <2> QED BY <2>1, <2>2, MovesLive
<1>8. CASE ReadHistory(p)
    <2>0. job[p] \in Inputs  BY <1>8 DEF ReadHistory, IInv, JobInv
    <2>1. Moves(p)  BY <1>0, <1>8, LocalsMoves, GotoMoves DEF ReadHistory, Return
    <2>2. Grows  BY <1>0, <2>0, <1>8, WroteGrows, SameGrows DEF ReadHistory
    <2> QED BY <2>1, <2>2, MovesLive
<1>9. CASE ReadLease(p)
    <2>1. Moves(p)  BY <1>0, <1>9, LocalsMoves, GotoMoves DEF ReadLease, Return
    <2>2. Grows  BY <1>0, <1>9, SameGrows DEF ReadLease
    <2> QED BY <2>1, <2>2, MovesLive
<1>10. CASE SaveSending(p)
    <2>0. job[p] \in Inputs  BY <1>10 DEF SaveSending, IInv, JobInv
    <2>1. Moves(p)  BY <1>0, <1>10 DEF SaveSending, Moves, TypeOK
    <2>2. Grows  BY <1>0, <2>0, <1>10, WroteGrows DEF SaveSending
    <2> QED BY <2>1, <2>2, MovesLive
<1>11. CASE SaveStale(p)
    <2>1. Moves(p)  BY <1>0, <1>11, LocalsMoves DEF SaveStale, Return
    <2>2. Grows  BY <1>0, <1>11, SameGrows DEF SaveStale
    <2> QED BY <2>1, <2>2, MovesLive
<1>12. CASE PromptAccepted(p)
    <2>1. Moves(p)  BY <1>0, <1>12, LocalsMoves DEF PromptAccepted, Return
    <2>2. Grows  BY <1>0, <1>12, SameGrows DEF PromptAccepted
    <2> QED BY <2>1, <2>2, MovesLive
<1>13. CASE PromptRejected(p)
    <2>0. job[p] \in Inputs  BY <1>13 DEF PromptRejected, IInv, JobInv
    <2>1. Moves(p)  BY <1>0, <1>13, LocalsMoves DEF PromptRejected
    <2>2. Grows  BY <1>0, <2>0, <1>13, WroteGrows, SameGrows DEF PromptRejected
    <2> QED BY <2>1, <2>2, MovesLive
<1>14. CASE CompleteBackground(p)
    <2>0. job[p] \in Inputs  BY <1>14 DEF CompleteBackground, IInv, JobInv
    <2>1. Moves(p)  BY <1>0, <1>14, LocalsMoves DEF CompleteBackground, Return
    <2>2. Grows
        <3>1. ASSUME NEW s \in {st[job[p]], "failed"},
                     Wrote(job[p], s, mid[job[p]])
              PROVE  Grows
            BY <1>0, <2>0, <3>1, WroteGrows
        <3> QED BY <1>14, <3>1, SameGrows DEF CompleteBackground
    <2> QED BY <2>1, <2>2, MovesLive
<1> QED BY <1>1, <1>2, <1>3, <1>4, <1>5, <1>6, <1>7, <1>8, <1>9, <1>10, <1>11, <1>12, <1>13, <1>14 DEF Deliver

LEMMA ReconcileLive ==
    ASSUME IInv, LiveInv, NEW p \in Proc, Reconcile(p)
    PROVE  LiveInv'
<1>0. TypeOK  BY DEF IInv
<1>1. CASE ReadMessage(p)
    <2>0. job[p] \in Inputs  BY <1>1 DEF ReadMessage, IInv, JobInv
    <2>1. Moves(p)  BY <1>0, <1>1, ResolvedMoves, UnresolvedMoves, GotoMoves DEF ReadMessage
    <2>2. Grows  BY <1>0, <2>0, <1>1, WroteGrows, SameGrows, UnresolvedMoves DEF ReadMessage, Resolved
    <2> QED BY <2>1, <2>2, MovesLive
<1>2. CASE CheckClock(p)
    <2>1. Moves(p)  BY <1>0, <1>2, UnresolvedMoves, GotoMoves DEF CheckClock
    <2>2. Grows  BY <1>0, <1>2, UnresolvedMoves, SameGrows DEF CheckClock
    <2> QED BY <2>1, <2>2, MovesLive
<1>3. CASE CheckQuiet(p)
    <2>1. Moves(p)  BY <1>0, <1>3, UnresolvedMoves, GotoMoves DEF CheckQuiet
    <2>2. Grows  BY <1>0, <1>3, UnresolvedMoves, SameGrows DEF CheckQuiet
    <2> QED BY <2>1, <2>2, MovesLive
<1>4. CASE Recheck(p)
    <2>0. job[p] \in Inputs  BY <1>4 DEF Recheck, IInv, JobInv
    <2>1. Moves(p)  BY <1>0, <1>4, ResolvedMoves, UnresolvedMoves DEF Recheck
    <2>2. Grows  BY <1>0, <2>0, <1>4, WroteGrows, UnresolvedMoves DEF Recheck, Resolved
    <2> QED BY <2>1, <2>2, MovesLive
<1> QED BY <1>1, <1>2, <1>3, <1>4 DEF Reconcile

LEMMA StopLive ==
    ASSUME IInv, LiveInv, NEW p \in Proc, Stop(p)
    PROVE  LiveInv'
<1>0. TypeOK  BY DEF IInv
<1>1. CASE EnterStop(p)
    BY <1>0, <1>1 DEF TypeOK, LiveInv, EnterStop, ToReconcile, Exists
<1>2. ASSUME NEW i \in Inputs, StopReconcile(p, i) PROVE LiveInv'
    BY <1>0, <1>2 DEF TypeOK, LiveInv, StopReconcile, Exists
<1>3. CASE StopVisited(p)
    <2>1. Moves(p)  BY <1>0, <1>3, GotoMoves DEF StopVisited
    <2>2. Grows  BY <1>0, <1>3, SameGrows DEF StopVisited
    <2> QED BY <2>1, <2>2, MovesLive
<1>4. CASE StopAbort(p)
    <2>1. Moves(p)  BY <1>0, <1>4, GotoMoves DEF StopAbort
    <2>2. Grows  BY <1>0, <1>4, SameGrows DEF StopAbort
    <2> QED BY <2>1, <2>2, MovesLive
<1>5. CASE StopGauge(p)
    <2>1. Moves(p)  BY <1>0, <1>5 DEF StopGauge, Moves, TypeOK
    <2>2. Grows  BY <1>0, <1>5, SameGrows DEF StopGauge
    <2> QED BY <2>1, <2>2, MovesLive
<1>6. CASE StopWait(p)
    <2>1. Moves(p)  BY <1>0, <1>6, GotoMoves DEF StopWait
    <2>2. Grows  BY <1>0, <1>6, SameGrows DEF StopWait
    <2> QED BY <2>1, <2>2, MovesLive
<1>7. CASE StopTimeout(p)
    <2>1. Moves(p)  BY <1>0, <1>7, LocalsMoves DEF StopTimeout, Return
    <2>2. Grows  BY <1>0, <1>7, SameGrows DEF StopTimeout
    <2> QED BY <2>1, <2>2, MovesLive
<1>8. CASE StopRecover(p)
    <2>1. Moves(p)  BY <1>0, <1>8 DEF StopRecover, Moves, TypeOK
    <2>2. Grows  BY <1>8 DEF StopRecover, Grows, Exists
    <2> QED BY <2>1, <2>2, MovesLive
<1>9. CASE StopClear(p)
    <2>1. Moves(p)  BY <1>0, <1>9, LocalsMoves DEF StopClear, Return
    <2>2. Grows  BY <1>0, <1>9, SameGrows DEF StopClear
    <2> QED BY <2>1, <2>2, MovesLive
<1> QED BY <1>1, <1>2, <1>3, <1>4, <1>5, <1>6, <1>7, <1>8, <1>9
        DEF Stop, StopRequest, RepairStop, JoinStop

LEMMA RequestsLive == IInv /\ LiveInv /\ Requests => LiveInv'
<1> SUFFICES ASSUME IInv, LiveInv, NEW i \in Inputs,
                    \/ \E d \in {"queue", "steer"} : Submit(i, d)
                    \/ EnqueueBackground(i)
                    \/ Edit(i) \/ Steer(i) \/ Retry(i) \/ Remove(i)
             PROVE  LiveInv'
    BY DEF Requests
<1>0. TypeOK  BY DEF IInv
<1>1. UNCHANGED <<pc, job, listed>>
    BY DEF Submit, EnqueueBackground, NewRow, Edit, Steer, Retry, Remove, Update
<1>2. Grows
    <2>1. CASE /\ st' = [st EXCEPT ![i] = "queued"]
               /\ UNCHANGED mid
        BY <1>0, <2>1 DEF TypeOK, Grows, Exists
    <2>2. ASSUME NEW s, s # "absent", Wrote(i, s, mid[i]) PROVE Grows
        BY <1>0, <2>2, WroteGrows
    <2> QED BY <2>1, <2>2
            DEF Submit, EnqueueBackground, NewRow, Edit, Steer, Retry, Remove,
                Update, Editable
<1> QED BY <1>0, <1>1, <1>2
        DEF TypeOK, JobInv, IInv, LiveInv, Grows, Exists

LEMMA LiveStep == IInv /\ LiveInv /\ [Next]_vars => LiveInv'
<1> SUFFICES ASSUME IInv, LiveInv, [Next]_vars PROVE LiveInv'  OBVIOUS
<1>0. TypeOK  BY DEF IInv
<1>1. CASE Requests  BY <1>1, RequestsLive
<1>2. ASSUME NEW p \in Proc, Deliver(p) PROVE LiveInv'  BY <1>2, DeliverLive
<1>3. ASSUME NEW p \in Proc, Reconcile(p) PROVE LiveInv'
    BY <1>3, ReconcileLive
<1>4. ASSUME NEW p \in Proc, Stop(p) PROVE LiveInv'  BY <1>4, StopLive
<1>5. ASSUME NEW p \in Proc, GiveUp(p) PROVE LiveInv'
    <2>1. Moves(p) /\ Grows
        BY <1>0, <1>5, LocalsMoves, SameGrows, UnresolvedMoves DEF GiveUp, Return
    <2> QED BY <2>1, MovesLive
<1>6. CASE UNCHANGED <<st, mid, pc, job, listed>>
    BY <1>6 DEF LiveInv, Exists
<1>7. CASE LoseLock \/ \E i \in Inputs : Age(i)
    BY <1>6, <1>7 DEF LoseLock, Age
<1>8. CASE Engine
    BY <1>6, <1>8 DEF Engine, Persist, Drop, TurnStep, TurnAge
<1>9. CASE DirectPrompt
    BY <1>6, <1>9 DEF DirectPrompt, DirectAdmit, DirectAcknowledge,
                      DirectPersist, DirectEnd, DirectUnchanged
<1> QED BY <1>1, <1>2, <1>3, <1>4, <1>5, <1>6, <1>7, <1>8, <1>9 DEF Next

LEMMA LiveInit == Init => LiveInv
BY DEF Init, LiveInv, Exists

LEMMA Live == Spec => [](IInv /\ LiveInv)
<1>1. Init => IInv /\ LiveInv  BY TypeInit, IdInit, LiveInit DEF IInv
<1>2. IInv /\ LiveInv /\ [Next]_vars => (IInv /\ LiveInv)'
    BY TypeStep, IdStep, LiveStep DEF IInv
<1> QED BY <1>1, <1>2, PTL DEF Spec

-----------------------------------------------------------------------------
(***************************************************************************)
(* The step simulation.                                                    *)
(***************************************************************************)
USE DEF User, Released

LEMMA BoxSame ==
    ASSUME UNCHANGED <<st, origin, mid, hist>>
    PROVE  Box' = Box
BY DEF Box, Fate

\* A step that touches one row is a mailbox step if its fate moves as allowed.
LEMMA OneRow ==
    ASSUME NEW i \in Inputs,
           \A j \in Inputs \ {i} : Fate(j)' = Fate(j),
           \/ Fate(i)' = Fate(i)
           \/ Fate(i) = "absent" /\ Fate(i)' = "waiting"
           \/ Fate(i) = "waiting" /\ Fate(i)' = "arrived"
           \/ Fate(i) = "waiting" /\ Fate(i)' = "withdrawn"
           \/ Fate(i) = "withdrawn" /\ Fate(i)' = "waiting"
    PROVE  [Mailbox!Next]_Box
<1>0. ASSUME NEW v, Fate(i)' = v PROVE Box' = [Box EXCEPT ![i] = v]
    <2>1. Box' = [j \in Inputs |-> IF j = i THEN v ELSE Fate(j)]
        BY <1>0 DEF Box
    <2> QED BY <2>1 DEF Box
<1>1. CASE Fate(i)' = Fate(i)
    <2>1. Box' = Box  BY <1>1 DEF Box
    <2> QED BY <2>1
<1>2. CASE Fate(i) = "absent" /\ Fate(i)' = "waiting"
    <2>1. Box[i] = "absent"  BY <1>2 DEF Box
    <2>2. Box' = [Box EXCEPT ![i] = "waiting"]  BY <1>0, <1>2
    <2>3. Mailbox!Post(i)  BY <2>1, <2>2 DEF Mailbox!Post
    <2> QED BY <2>3 DEF Mailbox!Next
<1>3. CASE Fate(i) = "waiting" /\ Fate(i)' = "arrived"
    <2>1. Box[i] = "waiting"  BY <1>3 DEF Box
    <2>2. Box' = [Box EXCEPT ![i] = "arrived"]  BY <1>0, <1>3
    <2>3. Mailbox!Arrive(i)  BY <2>1, <2>2 DEF Mailbox!Arrive
    <2> QED BY <2>3 DEF Mailbox!Next
<1>4. CASE Fate(i) = "waiting" /\ Fate(i)' = "withdrawn"
    <2>1. Mailbox!Withdraw({i})  BY <1>4 DEF Box, Mailbox!Withdraw
    <2> QED BY <2>1 DEF Mailbox!Next
<1>5. CASE Fate(i) = "withdrawn" /\ Fate(i)' = "waiting"
    <2>1. Box[i] = "withdrawn"  BY <1>5 DEF Box
    <2>2. Box' = [Box EXCEPT ![i] = "waiting"]  BY <1>0, <1>5
    <2>3. Mailbox!Reinstate(i)  BY <2>1, <2>2 DEF Mailbox!Reinstate
    <2> QED BY <2>3 DEF Mailbox!Next
<1> QED BY <1>1, <1>2, <1>3, <1>4, <1>5

\* No write of an existing row touches an arrived input, whatever it writes.
LEMMA WroteBox ==
    ASSUME TypeOK, NEW i \in Inputs, NEW s, NEW m, Wrote(i, s, m),
           Exists(i), s # "absent", UNCHANGED <<origin, hist>>
    PROVE  [Mailbox!Next]_Box
<1>1. \A j \in Inputs \ {i} : Fate(j)' = Fate(j)
    BY DEF TypeOK, Wrote, Fate
<1>2. \/ Fate(i)' = Fate(i)
      \/ Fate(i) = "waiting" /\ Fate(i)' = "withdrawn"
      \/ Fate(i) = "withdrawn" /\ Fate(i)' = "waiting"
    BY DEF TypeOK, Wrote, Fate, Exists
<1> QED BY <1>1, <1>2, OneRow

LEMMA RequestsBox == IInv /\ LiveInv /\ Requests => [Mailbox!Next]_Box
<1> SUFFICES ASSUME IInv, LiveInv, NEW i \in Inputs,
                    \/ \E d \in {"queue", "steer"} : Submit(i, d)
                    \/ EnqueueBackground(i)
                    \/ Edit(i) \/ Steer(i) \/ Retry(i) \/ Remove(i)
             PROVE  [Mailbox!Next]_Box
    BY DEF Requests
<1>0. TypeOK  BY DEF IInv
<1>1. ASSUME NEW o \in {"user", "background"}, NEW d, NewRow(i, o, d)
      PROVE  [Mailbox!Next]_Box
    <2>1. \A j \in Inputs \ {i} : Fate(j)' = Fate(j)
        BY <1>0, <1>1 DEF TypeOK, NewRow, Fate
    <2>2. mid[i] = 0 /\ hist[i] = {}
        BY <1>1 DEF NewRow, LiveInv, Exists, IInv, IdInv, RowInv
    <2>3. \/ Fate(i)' = Fate(i)
          \/ Fate(i) = "absent" /\ Fate(i)' = "waiting"
        BY <1>0, <1>1, <2>2 DEF TypeOK, NewRow, Fate
    <2> QED BY <2>1, <2>3, OneRow
<1>2. ASSUME NEW s, NEW d, NEW r, s # "absent", Update(i, s, d, r)
      PROVE  [Mailbox!Next]_Box
    BY <1>0, <1>2, WroteBox DEF Update, Editable, Exists
<1>3. CASE Edit(i)
    <2>1. st[i] # "absent"  BY <1>3 DEF Edit, Update, Editable
    <2> QED BY <1>2, <1>3, <2>1 DEF Edit
<1> QED BY <1>1, <1>2, <1>3
        DEF Submit, EnqueueBackground, Steer, Retry, Remove

LEMMA DeliverBox ==
    ASSUME IInv, LiveInv, NEW p \in Proc, Deliver(p)
    PROVE  [Mailbox!Next]_Box
<1>0. TypeOK  BY DEF IInv
<1>1. CASE UNCHANGED <<st, origin, mid, hist>>  BY <1>1, BoxSame
<1>2. pc[p] \in Working => job[p] \in Inputs /\ Exists(job[p])
    BY DEF IInv, JobInv, LiveInv
<1>3. CASE Denied(p)
    BY <1>0, <1>1, <1>2, <1>3, WroteBox DEF Denied
<1>4. CASE ReadHistory(p)
    BY <1>0, <1>1, <1>2, <1>4, WroteBox DEF ReadHistory
<1>5. CASE SaveSending(p)
    BY <1>0, <1>2, <1>5, WroteBox DEF SaveSending
<1>6. CASE PromptRejected(p)
    BY <1>0, <1>1, <1>2, <1>6, WroteBox DEF PromptRejected
<1>7. CASE CompleteBackground(p)
    <2>1. ASSUME NEW s \in {st[job[p]], "failed"},
                 Wrote(job[p], s, mid[job[p]])
          PROVE  [Mailbox!Next]_Box
        <3>1. s # "absent"  BY <1>2, <1>7 DEF CompleteBackground, Exists
        <3> QED BY <1>0, <1>2, <1>7, <2>1, <3>1, WroteBox
                DEF CompleteBackground
    <2> QED BY <1>1, <1>7, <2>1 DEF CompleteBackground
<1>8. CASE \/ \E i \in Inputs : Pick(p, i)
           \/ AcquireCompletion(p) \/ AcquireReconcile(p) \/ AcquireHead(p)
           \/ AcquireNothing(p)
           \/ ReadStatus(p) \/ ReadLease(p) \/ SaveStale(p)
           \/ PromptAccepted(p)
    BY <1>1, <1>8
       DEF Pick, AcquireCompletion, AcquireReconcile, AcquireHead, Acquire,
           AcquireNothing, ReadStatus, ReadLease, SaveStale, PromptAccepted
<1> QED BY <1>3, <1>4, <1>5, <1>6, <1>7, <1>8 DEF Deliver

LEMMA ReconcileBox ==
    ASSUME IInv, LiveInv, NEW p \in Proc, Reconcile(p)
    PROVE  [Mailbox!Next]_Box
<1>0. TypeOK  BY DEF IInv
<1>1. UNCHANGED <<origin, hist>>
    BY DEF Reconcile, ReadMessage, CheckClock, CheckQuiet, Recheck
<1>2. job[p] \in Inputs /\ Exists(job[p])
    BY DEF Reconcile, ReadMessage, CheckClock, CheckQuiet, Recheck, IInv,
           JobInv, LiveInv
<1>3. ASSUME NEW s, NEW m, s # "absent", Resolved(p, s, m)
      PROVE  [Mailbox!Next]_Box
    BY <1>0, <1>1, <1>2, <1>3, WroteBox DEF Resolved
<1>4. CASE UNCHANGED <<st, mid>>  BY <1>1, <1>4, BoxSame
<1>5. CASE Unresolved(p)  BY <1>4, <1>5 DEF Unresolved
<1>6. CASE ReadMessage(p)  BY <1>3, <1>4, <1>5, <1>6 DEF ReadMessage
<1>7. CASE CheckClock(p)  BY <1>4, <1>5, <1>7 DEF CheckClock
<1>8. CASE CheckQuiet(p)  BY <1>4, <1>5, <1>8 DEF CheckQuiet
<1>9. CASE Recheck(p)  BY <1>3, <1>5, <1>9 DEF Recheck
<1> QED BY <1>6, <1>7, <1>8, <1>9 DEF Reconcile

\* Stop withdraws together all inputs that still wait without a message id.
LEMMA StopBox ==
    ASSUME IInv, LiveInv, NEW p \in Proc, Stop(p)
    PROVE  [Mailbox!Next]_Box
<1>1. CASE StopRecover(p)
    <2> DEFINE S == {i \in Inputs : Recovered(i) /\ st[i] = "queued"}
    <2>1. ASSUME NEW i \in Inputs
          PROVE  /\ i \in S => Fate(i) = "waiting" /\ Fate(i)' = "withdrawn"
                 /\ i \notin S => Fate(i)' = Fate(i)
        <3>1. /\ st'[i] = IF Canceled(i) THEN "removed"
                          ELSE IF Recovered(i) THEN "recovered" ELSE st[i]
              /\ origin' = origin /\ mid' = mid /\ hist' = hist
            BY <1>1 DEF StopRecover
        <3>2. mid[i] = 0 => hist[i] = {}  BY DEF IInv, IdInv, RowInv
        <3> QED BY <3>1, <3>2 DEF Fate, Canceled, Recovered
    <2>2. \A i \in S : Box[i] = "waiting"  BY <2>1 DEF Box
    <2>3. Box' = [i \in Inputs |-> IF i \in S THEN "withdrawn" ELSE Box[i]]
        BY <2>1 DEF Box
    <2>4. Mailbox!Withdraw(S)  BY <2>2, <2>3 DEF Mailbox!Withdraw
    <2> QED BY <2>4 DEF Mailbox!Next
<1>2. CASE UNCHANGED <<st, origin, mid, hist>>  BY <1>2, BoxSame
<1> QED BY <1>1, <1>2
        DEF Stop, StopRequest, RepairStop, JoinStop, EnterStop, StopReconcile,
            StopVisited, StopAbort, StopGauge, StopWait, StopTimeout, StopClear

\* The engine stores a message: its id is the row's, so the row is neither
\* absent nor withdrawn.
LEMMA EngineBox == IInv /\ LiveInv /\ Engine => [Mailbox!Next]_Box
<1> SUFFICES ASSUME IInv, LiveInv, Engine PROVE [Mailbox!Next]_Box  OBVIOUS
<1>1. CASE UNCHANGED <<st, origin, mid, hist>>  BY <1>1, BoxSame
<1>2. ASSUME NEW i \in Inputs, NEW k \in flight[i], Persist(i, k)
      PROVE  [Mailbox!Next]_Box
    <2>1. mid[i] # 0 /\ Exists(i)
        BY DEF IInv, IdInv, RowInv, LiveInv
    <2>2. \A j \in Inputs \ {i} : Fate(j)' = Fate(j)
        BY <1>2 DEF Persist, Fate, IInv, TypeOK
    <2>3. hist'[i] # {}
        BY <1>2 DEF Persist, IInv, TypeOK
    <2>4. \/ Fate(i)' = Fate(i)
          \/ Fate(i) = "waiting" /\ Fate(i)' = "arrived"
        BY <1>2, <2>1, <2>3 DEF Persist, Fate, Exists
    <2> QED BY <2>2, <2>4, OneRow
<1> QED BY <1>1, <1>2 DEF Engine, Drop, TurnStep, TurnAge

\* The gateway keeps the mailbox's promise, for any number of workers, inputs
\* and retries, and even when lock connections are lost.
THEOREM MailboxImplemented == Spec => ImplementsMailbox
<1>1. Init => Mailbox!Init
    BY DEF Init, Mailbox!Init, Box, Fate
<1>2. IInv /\ LiveInv /\ [Next]_vars => [Mailbox!Next]_Box
    <2> SUFFICES ASSUME IInv, LiveInv, [Next]_vars PROVE [Mailbox!Next]_Box
        OBVIOUS
    <2>1. CASE Requests  BY <2>1, RequestsBox
    <2>2. ASSUME NEW p \in Proc, Deliver(p) PROVE [Mailbox!Next]_Box
        BY <2>2, DeliverBox
    <2>3. ASSUME NEW p \in Proc, Reconcile(p) PROVE [Mailbox!Next]_Box
        BY <2>3, ReconcileBox
    <2>4. ASSUME NEW p \in Proc, Stop(p) PROVE [Mailbox!Next]_Box
        BY <2>4, StopBox
    <2>5. CASE Engine  BY <2>5, EngineBox
    <2>6. CASE UNCHANGED <<st, origin, mid, hist>>  BY <2>6, BoxSame
    <2>7. CASE DirectPrompt
        BY <2>6, <2>7 DEF DirectPrompt, DirectAdmit, DirectAcknowledge,
                          DirectPersist, DirectEnd, DirectUnchanged
    <2> QED BY <2>1, <2>2, <2>3, <2>4, <2>5, <2>6, <2>7
            DEF Next, GiveUp, Unresolved, LoseLock, Age
<1> QED BY <1>1, <1>2, Live, PTL DEF Spec, ImplementsMailbox, Mailbox!Spec
==============================================================================
