-------------------------- MODULE ChatInputsProofs --------------------------
(***************************************************************************)
(* Proofs about ChatInputs, for every number of goroutines, inputs and     *)
(* attempts, every fault and every loss of the lock.                       *)
(*                                                                         *)
(* AtMostOnce is not inductive.  What carries it is IdInv: everything the  *)
(* engine has of a row bears the row's present message id, and whoever is  *)
(* about to replace that id knows that the engine has nothing.  A          *)
(* goroutine knows it either because its copy is current and has no id     *)
(* (before SaveSending), or because its copy is current and a minute old   *)
(* (before Recheck), or because it alone holds the unsent id (at the       *)
(* prompt).  None of this mentions the lock: revisions and the minute are  *)
(* enough, which is why AtMostOnce, NoGhost and DeliveredIsStored survive  *)
(* LoseLock.                                                               *)
(*                                                                         *)
(* The second half is about InOrder, StopHolds and NoInjection.  Each step *)
(* is first summed up, once: what it does to a row (RowMove), to the       *)
(* goroutine that takes it (Own), to the others (Stays) and to the engine  *)
(* (World).  QueueInv is then kept by these moves.  Of its parts, ShapeInv *)
(* and OrderInv again need no lock.  HoldInv (one row at a time is with    *)
(* the agent), StopInv (how far Stop has got) and InjectInv (no unfinished *)
(* turn while a follow-up is on its way) are what the lock is for, and     *)
(* hold until it is lost.                                                  *)
(***************************************************************************)
EXTENDS ChatInputs, TLAPS

\* Control points at which a goroutine works on a row.
Working == {"picked"} \cup DeliverPCs \cup ReconcilePCs

JobInv == \A p \in Proc : pc[p] \in Working => job[p] \in Inputs

\* What the engine has of row i bears the row's message id.
RowInv ==
    \A i \in Inputs :
        /\ flight[i] \cup hist[i] \subseteq {mid[i]}
        /\ mid[i] = 0 => flight[i] = {} /\ hist[i] = {}
        /\ aged[i] => flight[i] = {}
        /\ st[i] = "delivered" => mid[i] \in hist[i]

\* What a goroutine with a current copy of its row may rely on.
CopyInv ==
    \A p \in Proc :
        job[p] \in fresh[p] =>
            /\ pc[p] \in {"status", "history", "lease", "send"} => mid[job[p]] = 0
            /\ pc[p] \in {"quiet", "recheck"} => aged[job[p]]

\* A built prompt carries the row's id, which the engine has never seen.
PromptInv ==
    \A p \in Proc :
        pc[p] = "prompt" =>
            /\ sent[p] = mid[job[p]]
            /\ mid[job[p]] # 0
            /\ flight[job[p]] = {}
            /\ hist[job[p]] = {}
            /\ ~aged[job[p]]
            /\ \A q \in Proc : pc[q] = "prompt" /\ job[q] = job[p] => q = p

IdInv == RowInv /\ CopyInv /\ PromptInv

IInv == TypeOK /\ JobInv /\ IdInv

USE DEF vars, rowVars, procVars, engineVars, budgets

-----------------------------------------------------------------------------
(***************************************************************************)
(* Type correctness.                                                       *)
(***************************************************************************)
USE DEF States, PCs, DeliverPCs, ReconcilePCs, StopPCs, Turns, Busy, Active,
        DirectStates, Working

\* The parts of TypeOK that the shared operators of ChatInputs establish.
RowType ==
    /\ st \in [Inputs -> States]
    /\ mid \in [Inputs -> Nat]
    /\ aged \in [Inputs -> BOOLEAN]

CopyType == fresh \in [Proc -> SUBSET Inputs]

ProcType ==
    /\ lock \in Proc \cup {None}
    /\ pc \in [Proc -> PCs]
    /\ job \in [Proc -> Inputs \cup {0}]
    /\ mode \in [Proc -> {"deliver", "stop"}]
    /\ sent \in [Proc -> Nat]
    /\ listed \in [Proc -> SUBSET Inputs]
    /\ settled \in [Proc -> BOOLEAN]
    /\ JobInv

\* A handler that returns leaves well-typed locals behind.
LEMMA LocalsType ==
    ASSUME TypeOK, JobInv, NEW p \in Proc, Locals(p)
    PROVE  ProcType'
BY DEF TypeOK, JobInv, Locals, ProcType

LEMMA ReturnType ==
    ASSUME TypeOK, JobInv, NEW p \in Proc, Return(p)
    PROVE  ProcType' /\ CopyType'
<1>1. ProcType'  BY LocalsType DEF Return
<1>2. CopyType'  BY DEF TypeOK, Return, CopyType
<1> QED BY <1>1, <1>2

\* A step inside a handler keeps its row.
LEMMA GotoType ==
    ASSUME TypeOK, JobInv, NEW p \in Proc, NEW l \in PCs, Goto(p, l),
           l \in Working => job[p] \in Inputs
    PROVE  ProcType' /\ CopyType'
BY DEF TypeOK, JobInv, Goto, ProcType, CopyType

LEMMA WroteType ==
    ASSUME TypeOK, NEW i \in Inputs, NEW s \in States, NEW m \in Nat,
           Wrote(i, s, m)
    PROVE  RowType'
BY DEF TypeOK, Wrote, RowType

LEMMA StaleType ==
    ASSUME TypeOK, NEW i, NEW p \in Proc, NEW own \in SUBSET Inputs,
           Stale(i, p, own)
    PROVE  CopyType'
BY DEF TypeOK, Stale, CopyType

LEMMA ClearType ==
    ASSUME TypeOK, NEW p \in Proc, fresh' = [fresh EXCEPT ![p] = {}]
    PROVE  CopyType'
BY DEF TypeOK, CopyType

\* The unchanged rest of a handler's step.
Rest == UNCHANGED <<origin, delivery, resume, flight, hist, turn, turnAged,
                    direct>>

LEMMA RestType ==
    ASSUME TypeOK, RowType', CopyType', ProcType', Rest,
           att' \in [Inputs -> Nat], completed' \in [Inputs -> BOOLEAN],
           stopping' \in BOOLEAN,
           faults' \in Nat, stops' \in Nat, losses' \in Nat
    PROVE  TypeOK' /\ JobInv'
BY DEF TypeOK, RowType, CopyType, ProcType, Rest

LEMMA SameRowType == ASSUME TypeOK, UNCHANGED <<st, mid, aged>> PROVE RowType'
BY DEF TypeOK, RowType

\* reconcileChatInput's two ways out.
LEMMA ResolvedType ==
    ASSUME TypeOK, JobInv, NEW p \in Proc, job[p] \in Inputs,
           NEW s \in States, NEW m \in Nat, Resolved(p, s, m)
    PROVE  RowType' /\ CopyType' /\ ProcType'
<1>1. RowType'  BY WroteType DEF Resolved
<1>2. CASE mode[p] = "deliver"
    <2>1. ProcType'  BY <1>2, LocalsType DEF Resolved
    <2>2. CopyType'  BY <1>2, StaleType DEF Resolved
    <2> QED BY <1>1, <2>1, <2>2
<1>3. CASE mode[p] = "stop"
    <2>0. /\ pc' = [pc EXCEPT ![p] = "stop"]
          /\ job' = [job EXCEPT ![p] = 0]
          /\ listed' = [listed EXCEPT ![p] = @ \ {job[p]}]
          /\ Stale(job[p], p, fresh[p] \ {job[p]})
          /\ UNCHANGED <<mode, sent, settled, lock>>
        BY <1>3 DEF Resolved
    <2>1. ProcType'  BY <2>0 DEF TypeOK, JobInv, ProcType
    <2>2. fresh[p] \ {job[p]} \in SUBSET Inputs  BY DEF TypeOK
    <2>3. CopyType'  BY <2>0, <2>2, StaleType
    <2> QED BY <1>1, <2>1, <2>3
<1> QED BY <1>2, <1>3 DEF TypeOK

LEMMA UnresolvedType ==
    ASSUME TypeOK, JobInv, NEW p \in Proc, Unresolved(p)
    PROVE  RowType' /\ CopyType' /\ ProcType'
<1>1. RowType'  BY SameRowType DEF Unresolved
<1>2. CASE mode[p] = "deliver"
    BY <1>1, <1>2, ReturnType DEF Unresolved
<1>3. CASE mode[p] = "stop"
    <2>1. /\ pc' = [pc EXCEPT ![p] = "halt"]
          /\ job' = [job EXCEPT ![p] = 0]
          /\ UNCHANGED <<mode, sent, fresh, listed, settled, lock>>
        BY <1>3 DEF Unresolved
    <2> QED BY <1>1, <2>1 DEF TypeOK, JobInv, ProcType, CopyType
<1> QED BY <1>2, <1>3 DEF TypeOK

LEMMA RequestsType == TypeOK /\ JobInv /\ Requests => TypeOK' /\ JobInv'
<1> SUFFICES ASSUME TypeOK, JobInv, Requests PROVE TypeOK' /\ JobInv'
    OBVIOUS
<1>1. ASSUME NEW i \in Inputs, NEW d \in {"queue", "steer"}, Submit(i, d) PROVE TypeOK' /\ JobInv'
    BY <1>1 DEF TypeOK, JobInv, Submit, NewRow
<1>2. ASSUME NEW i \in Inputs, EnqueueBackground(i) PROVE TypeOK' /\ JobInv'
    BY <1>2 DEF TypeOK, JobInv, EnqueueBackground, NewRow
<1>3. ASSUME NEW i \in Inputs, Edit(i) PROVE TypeOK' /\ JobInv'
    BY <1>3 DEF TypeOK, JobInv, Edit, Update, Editable, Wrote
<1>4. ASSUME NEW i \in Inputs, Steer(i) PROVE TypeOK' /\ JobInv'
    BY <1>4 DEF TypeOK, JobInv, Steer, Update, Editable, Wrote
<1>5. ASSUME NEW i \in Inputs, Retry(i) PROVE TypeOK' /\ JobInv'
    BY <1>5 DEF TypeOK, JobInv, Retry, Update, Editable, Wrote
<1>6. ASSUME NEW i \in Inputs, Remove(i) PROVE TypeOK' /\ JobInv'
    BY <1>6 DEF TypeOK, JobInv, Remove, Update, Editable, Wrote
<1> QED BY <1>1, <1>2, <1>3, <1>4, <1>5, <1>6 DEF Requests

LEMMA DeliverType ==
    ASSUME TypeOK, JobInv, NEW p \in Proc, Deliver(p)
    PROVE  TypeOK' /\ JobInv'
<1>1. ASSUME NEW i \in Inputs, Pick(p, i) PROVE TypeOK' /\ JobInv'
    BY <1>1 DEF TypeOK, JobInv, Pick
<1>2. CASE Denied(p)
    <2>1. job[p] \in Inputs  BY <1>2 DEF Denied, JobInv
    <2>2. ProcType'  BY <1>2, LocalsType DEF Denied
    <2>3. RowType'
        BY <1>2, <2>1, WroteType, SameRowType DEF Denied, TypeOK
    <2>4. CopyType'
        BY <1>2, StaleType, ClearType DEF Denied
    <2> QED BY <1>2, <2>2, <2>3, <2>4, RestType DEF Denied, TypeOK, Rest
<1>3. CASE AcquireCompletion(p)
    BY <1>3 DEF TypeOK, JobInv, AcquireCompletion, Acquire
<1>4. CASE AcquireReconcile(p)
    BY <1>4 DEF TypeOK, JobInv, AcquireReconcile, Acquire
<1>5. CASE AcquireHead(p)
    BY <1>5 DEF TypeOK, JobInv, AcquireHead, Acquire
<1>6. CASE AcquireNothing(p)
    BY <1>6, ReturnType, SameRowType, RestType DEF AcquireNothing, TypeOK, Rest
<1>7. CASE ReadStatus(p)
    <2>1. job[p] \in Inputs  BY <1>7 DEF ReadStatus, JobInv
    <2>2. ProcType' /\ CopyType'
        BY <1>7, <2>1, ReturnType, GotoType DEF ReadStatus
    <2> QED BY <1>7, <2>2, SameRowType, RestType DEF ReadStatus, TypeOK, Rest
<1>8. CASE ReadHistory(p)
    <2>1. job[p] \in Inputs  BY <1>8 DEF ReadHistory, JobInv
    <2>2. ProcType'
        BY <1>8, <2>1, LocalsType, ReturnType, GotoType DEF ReadHistory
    <2>3. RowType'
        BY <1>8, <2>1, WroteType, SameRowType DEF ReadHistory
    <2>4. CopyType'
        BY <1>8, <2>1, StaleType, ReturnType, GotoType DEF ReadHistory
    <2> QED BY <1>8, <2>2, <2>3, <2>4, RestType DEF ReadHistory, TypeOK, Rest
<1>9. CASE ReadLease(p)
    <2>1. job[p] \in Inputs  BY <1>9 DEF ReadLease, JobInv
    <2>2. ProcType' /\ CopyType'
        BY <1>9, <2>1, ReturnType, GotoType DEF ReadLease
    <2> QED BY <1>9, <2>2, SameRowType, RestType DEF ReadLease, TypeOK, Rest
<1>10. CASE SaveSending(p)
    BY <1>10 DEF TypeOK, JobInv, SaveSending, Wrote, Stale
<1>11. CASE SaveStale(p)
    BY <1>11, ReturnType, SameRowType, RestType DEF SaveStale, TypeOK, Rest
<1>12. CASE PromptAccepted(p)
    BY <1>12 DEF TypeOK, JobInv, PromptAccepted, Return, Locals
<1>13. CASE PromptRejected(p)
    <2>1. job[p] \in Inputs  BY <1>13 DEF PromptRejected, JobInv
    <2>2. ProcType'  BY <1>13, LocalsType DEF PromptRejected
    <2>3. RowType'
        BY <1>13, <2>1, WroteType, SameRowType DEF PromptRejected, TypeOK
    <2>4. CopyType'
        BY <1>13, StaleType, ClearType DEF PromptRejected
    <2> QED BY <1>13, <2>2, <2>3, <2>4, RestType DEF PromptRejected, TypeOK, Rest
<1>14. CASE CompleteBackground(p)
    <2>1. job[p] \in Inputs  BY <1>14 DEF CompleteBackground, JobInv
    <2>2. ProcType'  BY <1>14, LocalsType, ReturnType DEF CompleteBackground
    <2>3. RowType'
        <3>1. ASSUME NEW s \in {st[job[p]], "failed"},
                     Wrote(job[p], s, mid[job[p]])
              PROVE  RowType'
            <4>1. s \in States /\ mid[job[p]] \in Nat  BY <2>1 DEF TypeOK
            <4> QED BY <2>1, <3>1, <4>1, WroteType
        <3>2. \/ \E s \in {st[job[p]], "failed"} : Wrote(job[p], s, mid[job[p]])
              \/ UNCHANGED <<st, mid, aged>>
            BY <1>14 DEF CompleteBackground
        <3> QED BY <3>1, <3>2, SameRowType
    <2>4. CopyType'
        BY <1>14, StaleType, ReturnType DEF CompleteBackground
    <2>5. completed' \in [Inputs -> BOOLEAN]
        <3>1. completed' = completed \/ completed' = [completed EXCEPT ![job[p]] = TRUE]
            BY <1>14 DEF CompleteBackground
        <3>2. completed \in [Inputs -> BOOLEAN]
            BY DEF TypeOK
        <3> QED BY <3>1, <3>2
    <2> QED BY <1>14, <2>2, <2>3, <2>4, <2>5, RestType
            DEF CompleteBackground, TypeOK, Rest
<1> QED BY <1>1, <1>2, <1>3, <1>4, <1>5, <1>6, <1>7, <1>8, <1>9, <1>10, <1>11, <1>12, <1>13, <1>14 DEF Deliver

LEMMA ReconcileType ==
    ASSUME TypeOK, JobInv, NEW p \in Proc, Reconcile(p)
    PROVE  TypeOK' /\ JobInv'
<1>1. CASE ReadMessage(p)
    <2>1. job[p] \in Inputs  BY <1>1 DEF ReadMessage, JobInv
    <2>2. RowType' /\ CopyType' /\ ProcType'
        BY <1>1, <2>1, UnresolvedType, ResolvedType, GotoType, SameRowType DEF ReadMessage, TypeOK
    <2> QED BY <1>1, <2>2, RestType DEF ReadMessage, TypeOK, Rest
<1>2. CASE CheckClock(p)
    <2>1. job[p] \in Inputs  BY <1>2 DEF CheckClock, JobInv
    <2>2. RowType' /\ CopyType' /\ ProcType'
        BY <1>2, <2>1, UnresolvedType, GotoType, SameRowType DEF CheckClock, TypeOK
    <2> QED BY <1>2, <2>2, RestType DEF CheckClock, TypeOK, Rest
<1>3. CASE CheckQuiet(p)
    <2>1. job[p] \in Inputs  BY <1>3 DEF CheckQuiet, JobInv
    <2>2. RowType' /\ CopyType' /\ ProcType'
        BY <1>3, <2>1, UnresolvedType, GotoType, SameRowType DEF CheckQuiet, TypeOK
    <2> QED BY <1>3, <2>2, RestType DEF CheckQuiet, TypeOK, Rest
<1>4. CASE Recheck(p)
    <2>1. job[p] \in Inputs  BY <1>4 DEF Recheck, JobInv
    <2>2. RowType' /\ CopyType' /\ ProcType'
        BY <1>4, <2>1, UnresolvedType, ResolvedType DEF Recheck, TypeOK
    <2> QED BY <1>4, <2>2, RestType DEF Recheck, TypeOK, Rest
<1> QED BY <1>1, <1>2, <1>3, <1>4 DEF Reconcile

LEMMA StopType ==
    ASSUME TypeOK, JobInv, NEW p \in Proc, Stop(p)
    PROVE  TypeOK' /\ JobInv'
<1>1. CASE StopRequest(p)
    BY <1>1 DEF TypeOK, JobInv, StopRequest, EnterStop, ToReconcile
<1>2. CASE RepairStop(p)
    BY <1>2 DEF TypeOK, JobInv, RepairStop, EnterStop, ToReconcile
<1>3. CASE JoinStop(p)
    BY <1>3 DEF TypeOK, JobInv, JoinStop, EnterStop, ToReconcile
<1>4. ASSUME NEW i \in Inputs, StopReconcile(p, i) PROVE TypeOK' /\ JobInv'
    BY <1>4 DEF TypeOK, JobInv, StopReconcile
<1>5. CASE StopVisited(p)
    BY <1>5 DEF TypeOK, JobInv, StopVisited, Goto
<1>6. CASE StopAbort(p)
    BY <1>6 DEF TypeOK, JobInv, StopAbort, Goto
<1>7. CASE StopGauge(p)
    BY <1>7 DEF TypeOK, JobInv, StopGauge
<1>8. CASE StopWait(p)
    BY <1>8 DEF TypeOK, JobInv, StopWait, Goto
<1>9. CASE StopTimeout(p)
    BY <1>9, ReturnType, SameRowType, RestType DEF StopTimeout, TypeOK, Rest
<1>10. CASE StopRecover(p)
    BY <1>10 DEF TypeOK, JobInv, StopRecover, Canceled, Recovered
<1>11. CASE StopClear(p)
    BY <1>11, ReturnType, SameRowType, RestType DEF StopClear, TypeOK, Rest
<1> QED BY <1>1, <1>2, <1>3, <1>4, <1>5, <1>6, <1>7, <1>8, <1>9, <1>10, <1>11 DEF Stop

LEMMA TypeStep == TypeOK /\ JobInv /\ [Next]_vars => TypeOK' /\ JobInv'
<1> SUFFICES ASSUME TypeOK, JobInv, [Next]_vars PROVE TypeOK' /\ JobInv'
    OBVIOUS
<1>1. CASE Requests  BY <1>1, RequestsType
<1>2. ASSUME NEW p \in Proc, Deliver(p) PROVE TypeOK' /\ JobInv'
    BY <1>2, DeliverType
<1>3. ASSUME NEW p \in Proc, Reconcile(p) PROVE TypeOK' /\ JobInv'
    BY <1>3, ReconcileType
<1>4. ASSUME NEW p \in Proc, Stop(p) PROVE TypeOK' /\ JobInv'
    BY <1>4, StopType
<1>5. ASSUME NEW p \in Proc, GiveUp(p) PROVE TypeOK' /\ JobInv'
    <2>1. RowType' /\ CopyType' /\ ProcType'
        BY <1>5, ReturnType, SameRowType, UnresolvedType DEF GiveUp
    <2> QED BY <1>5, <2>1, RestType DEF GiveUp, TypeOK, Rest
<1>6. CASE \E i \in Inputs : Age(i)
    BY <1>6 DEF TypeOK, JobInv, Age
<1>7. CASE Engine
    <2>1. ASSUME NEW i \in Inputs, NEW k \in flight[i], Persist(i, k)
          PROVE  TypeOK' /\ JobInv'
        BY <2>1 DEF TypeOK, JobInv, Persist, Arrived
    <2>2. ASSUME NEW i \in Inputs, NEW k \in flight[i], Drop(i, k)
          PROVE  TypeOK' /\ JobInv'
        BY <2>2 DEF TypeOK, JobInv, Drop
    <2>3. ASSUME NEW t \in Turns, TurnStep(t) PROVE TypeOK' /\ JobInv'
        BY <2>3 DEF TypeOK, JobInv, TurnStep
    <2>4. CASE TurnAge  BY <2>4 DEF TypeOK, JobInv, TurnAge
    <2> QED BY <1>7, <2>1, <2>2, <2>3, <2>4 DEF Engine
<1>8. CASE DirectPrompt
    <2>1. PICK d \in Direct : DirectAdmit(d) \/ DirectAcknowledge(d)
                             \/ DirectPersist(d) \/ DirectEnd(d)
        BY <1>8 DEF DirectPrompt
    <2>2. CASE DirectAdmit(d)
        BY <2>2 DEF TypeOK, JobInv, DirectAdmit, DirectUnchanged
    <2>3. CASE DirectAcknowledge(d)
        BY <2>3 DEF TypeOK, JobInv, DirectAcknowledge, DirectUnchanged
    <2>4. CASE DirectPersist(d)
        BY <2>4 DEF TypeOK, JobInv, DirectPersist, Arrived, DirectUnchanged
    <2>5. CASE DirectEnd(d)
        BY <2>5 DEF TypeOK, JobInv, DirectEnd, DirectUnchanged
    <2> QED BY <2>1, <2>2, <2>3, <2>4, <2>5
<1>9. CASE LoseLock
    BY <1>9 DEF TypeOK, JobInv, LoseLock
<1>10. CASE UNCHANGED vars
    BY <1>10 DEF TypeOK, JobInv
<1> QED BY <1>1, <1>2, <1>3, <1>4, <1>5, <1>6, <1>7, <1>8, <1>9, <1>10 DEF Next

LEMMA TypeInit == Init => TypeOK /\ JobInv
<1> SUFFICES ASSUME Init PROVE TypeOK /\ JobInv  OBVIOUS
<1>1. TypeOK  BY DEF Init, TypeOK
<1>2. JobInv  BY DEF Init, JobInv
<1> QED BY <1>1, <1>2

\* Every variable keeps its type, and a goroutine that works on a row has one.
THEOREM TypeCorrect == Spec => []TypeOK
<1>1. Init => TypeOK /\ JobInv  BY TypeInit
<1>2. TypeOK /\ JobInv /\ [Next]_vars => (TypeOK /\ JobInv)'  BY TypeStep
<1> QED BY <1>1, <1>2, PTL DEF Spec

-----------------------------------------------------------------------------
(***************************************************************************)
(* IdInv is preserved.  First the shared endings of the handlers' steps.   *)
(***************************************************************************)
EngineSame == UNCHANGED <<st, mid, aged, flight, hist>>

\* A goroutine that returns relies on nothing any more.
LEMMA ReturnId ==
    ASSUME IInv, NEW p \in Proc, Return(p), EngineSame
    PROVE  IdInv'
<1> USE DEF IInv, TypeOK, JobInv, IdInv, EngineSame, Return, Locals
<1>1. RowInv'     BY DEF RowInv
<1>2. CopyInv'    BY DEF CopyInv
<1>3. PromptInv'  BY DEF PromptInv
<1> QED BY <1>1, <1>2, <1>3

\* A goroutine that goes on relies on what it has just read.
LEMMA GotoId ==
    ASSUME IInv, NEW p \in Proc, NEW l \in PCs, Goto(p, l), EngineSame,
           l # "prompt",
           l \in {"status", "history", "lease", "send"} /\ job[p] \in fresh[p]
               => mid[job[p]] = 0,
           l \in {"quiet", "recheck"} /\ job[p] \in fresh[p] => aged[job[p]]
    PROVE  IdInv'
<1> USE DEF IInv, TypeOK, JobInv, IdInv, EngineSame, Goto
<1>1. RowInv'     BY DEF RowInv
<1>2. CopyInv'    BY DEF CopyInv
<1>3. PromptInv'  BY DEF PromptInv
<1> QED BY <1>1, <1>2, <1>3

\* Other goroutines keep their place; their copies of row i become stale.
Others(p, i) ==
    \A q \in Proc \ {p} :
        /\ pc'[q] = pc[q] /\ job'[q] = job[q] /\ sent'[q] = sent[q]
        /\ fresh'[q] = fresh[q] \ {i}

\* Row i may be written with message id m: the id stays, or it is cleared when
\* the engine has nothing and no other goroutine is about to send.
MayWrite(p, i, s, m) ==
    /\ s = "delivered" => m \in hist[i]
    /\ \/ m = mid[i]
       \/ /\ m = 0
          /\ flight[i] = {} /\ hist[i] = {}
          /\ \A q \in Proc \ {p} : ~(pc[q] = "prompt" /\ job[q] = i)

LEMMA SaveId ==
    ASSUME IInv, NEW p \in Proc, NEW i \in Inputs, NEW s \in States,
           NEW m \in Nat, Wrote(i, s, m), MayWrite(p, i, s, m),
           Others(p, i), pc'[p] \in {"idle", "stop"},
           UNCHANGED <<flight, hist>>
    PROVE  IdInv'
<1> USE DEF IInv, TypeOK, JobInv, IdInv, Wrote
<1>1. RowInv'
    BY DEF RowInv, MayWrite
<1>2. CopyInv'
    <2> SUFFICES ASSUME NEW q \in Proc, (job[q] \in fresh[q])'
                 PROVE  /\ (pc[q] \in {"status", "history", "lease", "send"}
                              => mid[job[q]] = 0)'
                        /\ (pc[q] \in {"quiet", "recheck"} => aged[job[q]])'
        BY DEF CopyInv
    <2>1. CASE q = p  BY <2>1
    <2>2. CASE q # p
        <3>1. /\ pc'[q] = pc[q] /\ job'[q] = job[q]
              /\ job[q] \in fresh[q] /\ job[q] # i /\ job[q] \in Inputs
            BY <2>2 DEF Others
        <3> QED BY <3>1 DEF CopyInv
    <2> QED BY <2>1, <2>2
<1>3. PromptInv'
    <2> SUFFICES ASSUME NEW q \in Proc, pc'[q] = "prompt"
                 PROVE  (/\ sent[q] = mid[job[q]]
                         /\ mid[job[q]] # 0
                         /\ flight[job[q]] = {}
                         /\ hist[job[q]] = {}
                         /\ ~aged[job[q]]
                         /\ \A r \in Proc :
                               pc[r] = "prompt" /\ job[r] = job[q] => r = q)'
        BY DEF PromptInv
    <2>1. q # p  OBVIOUS
    <2>2. /\ pc[q] = "prompt" /\ job'[q] = job[q] /\ sent'[q] = sent[q]
          /\ job[q] \in Inputs
        BY <2>1 DEF Others
    <2>3. \A r \in Proc : pc'[r] = "prompt" /\ job'[r] = job'[q] => r = q
        BY <2>2 DEF Others, PromptInv
    <2>4. mid'[job[q]] = mid[job[q]]
        BY <2>1, <2>2 DEF MayWrite
    <2> QED BY <2>2, <2>3, <2>4 DEF PromptInv
<1> QED BY <1>1, <1>2, <1>3

\* A save followed by a return.
LEMMA SaveReturnId ==
    ASSUME IInv, NEW p \in Proc, NEW i \in Inputs, NEW s \in States,
           NEW m \in Nat, Wrote(i, s, m), MayWrite(p, i, s, m),
           Stale(i, p, {}), Locals(p), UNCHANGED <<flight, hist>>
    PROVE  IdInv'
<1>1. Others(p, i) /\ pc'[p] \in {"idle", "stop"}
    BY DEF Others, Stale, Locals, IInv, TypeOK
<1> QED BY <1>1, SaveId

LEMMA ResolvedId ==
    ASSUME IInv, NEW p \in Proc, job[p] \in Inputs, NEW s \in States,
           NEW m \in Nat, Resolved(p, s, m), MayWrite(p, job[p], s, m),
           UNCHANGED <<flight, hist>>
    PROVE  IdInv'
<1>1. CASE mode[p] = "deliver"
    BY <1>1, SaveReturnId DEF Resolved
<1>2. CASE mode[p] = "stop"
    <2>1. /\ Wrote(job[p], s, m)
          /\ pc' = [pc EXCEPT ![p] = "stop"]
          /\ job' = [job EXCEPT ![p] = 0]
          /\ Stale(job[p], p, fresh[p] \ {job[p]})
          /\ UNCHANGED sent
        BY <1>2 DEF Resolved
    <2>2. Others(p, job[p]) /\ pc'[p] \in {"idle", "stop"}
        BY <2>1 DEF Others, Stale, IInv, TypeOK
    <2> QED BY <2>1, <2>2, SaveId
<1> QED BY <1>1, <1>2 DEF IInv, TypeOK

LEMMA UnresolvedId ==
    ASSUME IInv, NEW p \in Proc, Unresolved(p), UNCHANGED <<flight, hist>>
    PROVE  IdInv'
<1>0. EngineSame  BY DEF Unresolved, EngineSame
<1>1. CASE mode[p] = "deliver"
    BY <1>0, <1>1, ReturnId DEF Unresolved
<1>2. CASE mode[p] = "stop"
    <2>1. /\ pc' = [pc EXCEPT ![p] = "halt"]
          /\ job' = [job EXCEPT ![p] = 0]
          /\ UNCHANGED <<sent, fresh>>
        BY <1>2 DEF Unresolved
    <2> USE <1>0, <2>1 DEF IInv, TypeOK, JobInv, IdInv, EngineSame
    <2>2. RowInv'     BY DEF RowInv
    <2>3. CopyInv'    BY DEF CopyInv
    <2>4. PromptInv'  BY DEF PromptInv
    <2> QED BY <2>2, <2>3, <2>4
<1> QED BY <1>1, <1>2 DEF IInv, TypeOK

\* A step of a person, of the clock or of the engine moves no goroutine.
LEMMA RequestsId == IInv /\ Requests => IdInv'
<1> SUFFICES ASSUME IInv, Requests PROVE IdInv'  OBVIOUS
<1>1. ASSUME NEW i \in Inputs, NEW d \in {"queue", "steer"}, Submit(i, d) PROVE IdInv'
    <2> USE <1>1 DEF IInv, TypeOK, JobInv, IdInv, Submit, NewRow
    <2>1. RowInv'     BY DEF RowInv, CopyInv, PromptInv
    <2>2. CopyInv'    BY DEF RowInv, CopyInv, PromptInv
    <2>3. PromptInv'  BY DEF RowInv, CopyInv, PromptInv
    <2> QED BY <2>1, <2>2, <2>3
<1>2. ASSUME NEW i \in Inputs, EnqueueBackground(i) PROVE IdInv'
    <2> USE <1>2 DEF IInv, TypeOK, JobInv, IdInv, EnqueueBackground, NewRow
    <2>1. RowInv'     BY DEF RowInv, CopyInv, PromptInv
    <2>2. CopyInv'    BY DEF RowInv, CopyInv, PromptInv
    <2>3. PromptInv'  BY DEF RowInv, CopyInv, PromptInv
    <2> QED BY <2>1, <2>2, <2>3
<1>3. ASSUME NEW i \in Inputs, Edit(i) PROVE IdInv'
    <2> USE <1>3 DEF IInv, TypeOK, JobInv, IdInv, Edit, Update, Editable, Wrote
    <2>1. RowInv'     BY DEF RowInv, CopyInv, PromptInv
    <2>2. CopyInv'    BY DEF RowInv, CopyInv, PromptInv
    <2>3. PromptInv'  BY DEF RowInv, CopyInv, PromptInv
    <2> QED BY <2>1, <2>2, <2>3
<1>4. ASSUME NEW i \in Inputs, Steer(i) PROVE IdInv'
    <2> USE <1>4 DEF IInv, TypeOK, JobInv, IdInv, Steer, Update, Editable, Wrote
    <2>1. RowInv'     BY DEF RowInv, CopyInv, PromptInv
    <2>2. CopyInv'    BY DEF RowInv, CopyInv, PromptInv
    <2>3. PromptInv'  BY DEF RowInv, CopyInv, PromptInv
    <2> QED BY <2>1, <2>2, <2>3
<1>5. ASSUME NEW i \in Inputs, Retry(i) PROVE IdInv'
    <2> USE <1>5 DEF IInv, TypeOK, JobInv, IdInv, Retry, Update, Editable, Wrote
    <2>1. RowInv'     BY DEF RowInv, CopyInv, PromptInv
    <2>2. CopyInv'    BY DEF RowInv, CopyInv, PromptInv
    <2>3. PromptInv'  BY DEF RowInv, CopyInv, PromptInv
    <2> QED BY <2>1, <2>2, <2>3
<1>6. ASSUME NEW i \in Inputs, Remove(i) PROVE IdInv'
    <2> USE <1>6 DEF IInv, TypeOK, JobInv, IdInv, Remove, Update, Editable, Wrote
    <2>1. RowInv'     BY DEF RowInv, CopyInv, PromptInv
    <2>2. CopyInv'    BY DEF RowInv, CopyInv, PromptInv
    <2>3. PromptInv'  BY DEF RowInv, CopyInv, PromptInv
    <2> QED BY <2>1, <2>2, <2>3
<1> QED BY <1>1, <1>2, <1>3, <1>4, <1>5, <1>6 DEF Requests

LEMMA DeliverId ==
    ASSUME IInv, NEW p \in Proc, Deliver(p)
    PROVE  IdInv'
<1>1. ASSUME NEW i \in Inputs, Pick(p, i) PROVE IdInv'
    <2> USE <1>1 DEF IInv, TypeOK, JobInv, IdInv, Pick
    <2>1. RowInv'     BY DEF RowInv, CopyInv, PromptInv
    <2>2. CopyInv'    BY DEF RowInv, CopyInv, PromptInv
    <2>3. PromptInv'  BY DEF RowInv, CopyInv, PromptInv
    <2> QED BY <2>1, <2>2, <2>3
<1>2. CASE Denied(p)
    <2>1. job[p] \in Inputs  BY <1>2 DEF Denied, JobInv, IInv
    <2>2. CASE User(job[p]) /\ job[p] \in fresh[p]
        <3>1. MayWrite(p, job[p], "failed", mid[job[p]])  BY DEF MayWrite
        <3>2. mid[job[p]] \in Nat  BY <2>1 DEF IInv, TypeOK
        <3> QED BY <1>2, <2>1, <2>2, <3>1, <3>2, SaveReturnId DEF Denied
    <2>3. CASE ~(User(job[p]) /\ job[p] \in fresh[p])
        BY <1>2, <2>3, ReturnId DEF Denied, Return, EngineSame
    <2> QED BY <2>2, <2>3
<1>3. CASE AcquireCompletion(p)
    <2> USE <1>3 DEF IInv, TypeOK, JobInv, IdInv, AcquireCompletion, Acquire
    <2>1. RowInv'     BY DEF RowInv, CopyInv, PromptInv
    <2>2. CopyInv'    BY DEF RowInv, CopyInv, PromptInv
    <2>3. PromptInv'  BY DEF RowInv, CopyInv, PromptInv
    <2> QED BY <2>1, <2>2, <2>3
<1>4. CASE AcquireReconcile(p)
    <2> USE <1>4 DEF IInv, TypeOK, JobInv, IdInv, AcquireReconcile, Acquire
    <2>1. RowInv'     BY DEF RowInv, CopyInv, PromptInv
    <2>2. CopyInv'    BY DEF RowInv, CopyInv, PromptInv
    <2>3. PromptInv'  BY DEF RowInv, CopyInv, PromptInv
    <2> QED BY <2>1, <2>2, <2>3
<1>5. CASE AcquireHead(p)
    <2> USE <1>5 DEF IInv, TypeOK, JobInv, IdInv, AcquireHead, Acquire
    <2>1. RowInv'     BY DEF RowInv, CopyInv, PromptInv
    <2>2. CopyInv'    BY DEF RowInv, CopyInv, PromptInv
    <2>3. PromptInv'  BY DEF RowInv, CopyInv, PromptInv
    <2> QED BY <2>1, <2>2, <2>3
<1>6. CASE AcquireNothing(p)
    BY <1>6, ReturnId DEF AcquireNothing, EngineSame
<1>7. CASE ReadStatus(p)
    <2>1. EngineSame  BY <1>7 DEF ReadStatus, EngineSame
    <2>2. job[p] \in fresh[p] => mid[job[p]] = 0
        BY <1>7 DEF ReadStatus, IInv, IdInv, CopyInv
    <2> QED BY <1>7, <2>1, <2>2, ReturnId, GotoId DEF ReadStatus
<1>8. CASE ReadHistory(p)
    <2>1. job[p] \in Inputs  BY <1>8 DEF ReadHistory, JobInv, IInv
    <2>2. job[p] \in fresh[p] => mid[job[p]] = 0
        BY <1>8 DEF ReadHistory, IInv, IdInv, CopyInv
    <2>3. CASE /\ turn = "error" /\ ~resume[job[p]] /\ User(job[p])
               /\ job[p] \in fresh[p]
        <3>1. MayWrite(p, job[p], "failed", 0)  BY <2>2, <2>3 DEF MayWrite
        <3>2. Wrote(job[p], "failed", 0) /\ Stale(job[p], p, {}) /\ Locals(p)
            BY <1>8, <2>3 DEF ReadHistory, Unfinished
        <3> QED BY <1>8, <2>1, <3>1, <3>2, SaveReturnId DEF ReadHistory
    <2>4. CASE ~(/\ turn = "error" /\ ~resume[job[p]] /\ User(job[p])
                 /\ job[p] \in fresh[p])
        <3>1. EngineSame  BY <1>8, <2>4 DEF ReadHistory, EngineSame
        <3>2. Return(p) \/ Goto(p, "send") \/ Goto(p, "lease")
            BY <1>8, <2>4 DEF ReadHistory
        <3> QED BY <2>2, <3>1, <3>2, ReturnId, GotoId
    <2> QED BY <2>3, <2>4
<1>9. CASE ReadLease(p)
    <2>1. EngineSame  BY <1>9 DEF ReadLease, EngineSame
    <2>2. job[p] \in fresh[p] => mid[job[p]] = 0
        BY <1>9 DEF ReadLease, IInv, IdInv, CopyInv
    <2> QED BY <1>9, <2>1, <2>2, ReturnId, GotoId DEF ReadLease
<1>10. CASE SaveSending(p)
    <2> USE <1>10 DEF IInv, TypeOK, JobInv, IdInv, SaveSending, Wrote, Stale
    <2>1. RowInv'     BY DEF RowInv, CopyInv, PromptInv
    <2>2. CopyInv'    BY DEF RowInv, CopyInv, PromptInv
    <2>3. PromptInv'  BY DEF RowInv, CopyInv, PromptInv
    <2> QED BY <2>1, <2>2, <2>3
<1>11. CASE SaveStale(p)
    BY <1>11, ReturnId DEF SaveStale, EngineSame
<1>12. CASE PromptAccepted(p)
    <2> USE <1>12 DEF IInv, TypeOK, JobInv, IdInv, PromptAccepted, Return, Locals
    <2>1. RowInv'     BY DEF RowInv, CopyInv, PromptInv
    <2>2. CopyInv'    BY DEF RowInv, CopyInv, PromptInv
    <2>3. PromptInv'  BY DEF RowInv, CopyInv, PromptInv
    <2> QED BY <2>1, <2>2, <2>3
<1>13. CASE PromptRejected(p)
    <2>1. job[p] \in Inputs  BY <1>13 DEF PromptRejected, JobInv, IInv
    <2>2. CASE job[p] \in fresh[p]
        <3>1. MayWrite(p, job[p], "failed", 0)
            BY <1>13 DEF PromptRejected, MayWrite, IInv, IdInv, PromptInv
        <3> QED BY <1>13, <2>1, <2>2, <3>1, SaveReturnId DEF PromptRejected
    <2>3. CASE job[p] \notin fresh[p]
        BY <1>13, <2>3, ReturnId DEF PromptRejected, Return, EngineSame
    <2> QED BY <2>2, <2>3
<1>14. CASE CompleteBackground(p)
    <2>1. job[p] \in Inputs  BY <1>14 DEF CompleteBackground, JobInv, IInv
    <2>2. ASSUME NEW s \in {st[job[p]], "failed"},
                 Wrote(job[p], s, mid[job[p]]), Stale(job[p], p, {}), Locals(p)
          PROVE  IdInv'
        <3>1. s \in States /\ mid[job[p]] \in Nat  BY <2>1 DEF IInv, TypeOK
        <3>2. MayWrite(p, job[p], s, mid[job[p]])
            BY <2>1 DEF MayWrite, IInv, IdInv, RowInv
        <3> QED BY <1>14, <2>1, <2>2, <3>1, <3>2, SaveReturnId
                DEF CompleteBackground
    <2>3. CASE Return(p) /\ UNCHANGED <<st, mid, aged>>
        BY <1>14, <2>3, ReturnId DEF CompleteBackground, EngineSame
    <2> QED BY <1>14, <2>2, <2>3 DEF CompleteBackground
<1> QED BY <1>1, <1>2, <1>3, <1>4, <1>5, <1>6, <1>7, <1>8, <1>9, <1>10, <1>11, <1>12, <1>13, <1>14 DEF Deliver

LEMMA ReconcileId ==
    ASSUME IInv, NEW p \in Proc, Reconcile(p)
    PROVE  IdInv'
<1>1. CASE ReadMessage(p)
    <2>1. job[p] \in Inputs  BY <1>1 DEF ReadMessage, JobInv, IInv
    <2>2. CASE job[p] \notin fresh[p]
        BY <1>1, <2>2, UnresolvedId DEF ReadMessage
    <2>3. CASE job[p] \in fresh[p] /\ Stored(job[p])
        <3>1. MayWrite(p, job[p], "delivered", mid[job[p]])
            BY <2>3 DEF MayWrite, Stored
        <3>2. mid[job[p]] \in Nat  BY <2>1 DEF IInv, TypeOK
        <3> QED BY <1>1, <2>1, <2>3, <3>1, <3>2, ResolvedId DEF ReadMessage
    <2>4. CASE job[p] \in fresh[p] /\ ~Stored(job[p])
        BY <1>1, <2>4, GotoId DEF ReadMessage, EngineSame
    <2> QED BY <2>2, <2>3, <2>4
<1>2. CASE CheckClock(p)
    <2>1. CASE job[p] \in fresh[p] /\ aged[job[p]]
        BY <1>2, <2>1, GotoId DEF CheckClock, EngineSame
    <2>2. CASE ~(job[p] \in fresh[p] /\ aged[job[p]])
        BY <1>2, <2>2, UnresolvedId DEF CheckClock
    <2> QED BY <2>1, <2>2
<1>3. CASE CheckQuiet(p)
    <2>1. job[p] \in fresh[p] => aged[job[p]]
        BY <1>3 DEF CheckQuiet, IInv, IdInv, CopyInv
    <2>2. \/ Unresolved(p)
          \/ Goto(p, "recheck") /\ UNCHANGED <<st, mid, aged>>
        BY <1>3 DEF CheckQuiet
    <2>3. UNCHANGED <<flight, hist>>  BY <1>3 DEF CheckQuiet
    <2> QED BY <2>1, <2>2, <2>3, UnresolvedId, GotoId DEF EngineSame
<1>4. CASE Recheck(p)
    <2>1. job[p] \in Inputs  BY <1>4 DEF Recheck, JobInv, IInv
    <2>2. CASE job[p] \notin fresh[p]
        BY <1>4, <2>2, UnresolvedId DEF Recheck
    <2>3. CASE job[p] \in fresh[p] /\ Stored(job[p])
        <3>1. MayWrite(p, job[p], "delivered", mid[job[p]])
            BY <2>3 DEF MayWrite, Stored
        <3>2. mid[job[p]] \in Nat  BY <2>1 DEF IInv, TypeOK
        <3> QED BY <1>4, <2>1, <2>3, <3>1, <3>2, ResolvedId DEF Recheck
    <2>4. CASE job[p] \in fresh[p] /\ ~Stored(job[p])
        \* The copy is a minute old: nothing is in flight, nobody is about to
        \* send, and the id is not in the history.
        <3>1. aged[job[p]]
            BY <1>4, <2>4 DEF Recheck, IInv, IdInv, CopyInv
        <3>2. flight[job[p]] = {} /\ hist[job[p]] = {}
            BY <2>1, <2>4, <3>1 DEF IInv, IdInv, RowInv, Stored
        <3>3. \A q \in Proc : ~(pc[q] = "prompt" /\ job[q] = job[p])
            BY <3>1 DEF IInv, IdInv, PromptInv
        <3>4. \A s \in {"failed", "queued"} : MayWrite(p, job[p], s, 0)
            BY <3>2, <3>3 DEF MayWrite
        <3> QED BY <1>4, <2>1, <2>4, <3>4, ResolvedId DEF Recheck
    <2> QED BY <2>2, <2>3, <2>4
<1> QED BY <1>1, <1>2, <1>3, <1>4 DEF Reconcile

LEMMA StopId ==
    ASSUME IInv, NEW p \in Proc, Stop(p)
    PROVE  IdInv'
<1>1. CASE StopRequest(p)
    <2> USE <1>1 DEF IInv, TypeOK, JobInv, IdInv, StopRequest, EnterStop
    <2>1. RowInv'     BY DEF RowInv, CopyInv, PromptInv
    <2>2. CopyInv'    BY DEF RowInv, CopyInv, PromptInv
    <2>3. PromptInv'  BY DEF RowInv, CopyInv, PromptInv
    <2> QED BY <2>1, <2>2, <2>3
<1>2. CASE RepairStop(p)
    <2> USE <1>2 DEF IInv, TypeOK, JobInv, IdInv, RepairStop, EnterStop
    <2>1. RowInv'     BY DEF RowInv, CopyInv, PromptInv
    <2>2. CopyInv'    BY DEF RowInv, CopyInv, PromptInv
    <2>3. PromptInv'  BY DEF RowInv, CopyInv, PromptInv
    <2> QED BY <2>1, <2>2, <2>3
<1>3. CASE JoinStop(p)
    <2> USE <1>3 DEF IInv, TypeOK, JobInv, IdInv, JoinStop, EnterStop
    <2>1. RowInv'     BY DEF RowInv, CopyInv, PromptInv
    <2>2. CopyInv'    BY DEF RowInv, CopyInv, PromptInv
    <2>3. PromptInv'  BY DEF RowInv, CopyInv, PromptInv
    <2> QED BY <2>1, <2>2, <2>3
<1>4. ASSUME NEW i \in Inputs, StopReconcile(p, i) PROVE IdInv'
    <2> USE <1>4 DEF IInv, TypeOK, JobInv, IdInv, StopReconcile
    <2>1. RowInv'     BY DEF RowInv, CopyInv, PromptInv
    <2>2. CopyInv'    BY DEF RowInv, CopyInv, PromptInv
    <2>3. PromptInv'  BY DEF RowInv, CopyInv, PromptInv
    <2> QED BY <2>1, <2>2, <2>3
<1>5. CASE StopVisited(p)
    BY <1>5, GotoId DEF StopVisited, EngineSame
<1>6. CASE StopAbort(p)
    BY <1>6, GotoId DEF StopAbort, EngineSame
<1>7. CASE StopGauge(p)
    <2> USE <1>7 DEF IInv, TypeOK, JobInv, IdInv, StopGauge
    <2>1. RowInv'     BY DEF RowInv, CopyInv, PromptInv
    <2>2. CopyInv'    BY DEF RowInv, CopyInv, PromptInv
    <2>3. PromptInv'  BY DEF RowInv, CopyInv, PromptInv
    <2> QED BY <2>1, <2>2, <2>3
<1>8. CASE StopWait(p)
    BY <1>8, GotoId DEF StopWait, EngineSame
<1>9. CASE StopTimeout(p)
    BY <1>9, ReturnId DEF StopTimeout, EngineSame
<1>10. CASE StopRecover(p)
    <2> USE <1>10 DEF IInv, TypeOK, JobInv, IdInv, StopRecover, Canceled, Recovered
    <2>1. RowInv'     BY DEF RowInv, CopyInv, PromptInv
    <2>2. CopyInv'    BY DEF RowInv, CopyInv, PromptInv
    <2>3. PromptInv'  BY DEF RowInv, CopyInv, PromptInv
    <2> QED BY <2>1, <2>2, <2>3
<1>11. CASE StopClear(p)
    BY <1>11, ReturnId DEF StopClear, EngineSame
<1> QED BY <1>1, <1>2, <1>3, <1>4, <1>5, <1>6, <1>7, <1>8, <1>9, <1>10, <1>11 DEF Stop

LEMMA EngineId == IInv /\ Engine => IdInv'
<1> SUFFICES ASSUME IInv, Engine PROVE IdInv'  OBVIOUS
<1>1. ASSUME NEW i \in Inputs, NEW k \in flight[i], Persist(i, k)
      PROVE  IdInv'
    <2> USE <1>1 DEF IInv, TypeOK, JobInv, IdInv, Persist
    <2>1. RowInv'     BY DEF RowInv, CopyInv, PromptInv
    <2>2. CopyInv'    BY DEF RowInv, CopyInv, PromptInv
    <2>3. PromptInv'  BY DEF RowInv, CopyInv, PromptInv
    <2> QED BY <2>1, <2>2, <2>3
<1>2. ASSUME NEW i \in Inputs, NEW k \in flight[i], Drop(i, k)
      PROVE  IdInv'
    <2> USE <1>2 DEF IInv, TypeOK, JobInv, IdInv, Drop
    <2>1. RowInv'     BY DEF RowInv, CopyInv, PromptInv
    <2>2. CopyInv'    BY DEF RowInv, CopyInv, PromptInv
    <2>3. PromptInv'  BY DEF RowInv, CopyInv, PromptInv
    <2> QED BY <2>1, <2>2, <2>3
<1>3. CASE UNCHANGED <<rowVars, procVars, flight, hist>>
    BY <1>3 DEF IInv, IdInv, RowInv, CopyInv, PromptInv
<1> QED BY <1>1, <1>2, <1>3 DEF Engine, TurnStep, TurnAge

LEMMA AgeId == ASSUME IInv, NEW i \in Inputs, Age(i) PROVE IdInv'
<1> USE DEF IInv, TypeOK, JobInv, IdInv, Age
<1>1. RowInv'     BY DEF RowInv, CopyInv, PromptInv
<1>2. CopyInv'    BY DEF RowInv, CopyInv, PromptInv
<1>3. PromptInv'  BY DEF RowInv, CopyInv, PromptInv
<1> QED BY <1>1, <1>2, <1>3

LEMMA IdStep == IInv /\ [Next]_vars => IdInv'
<1> SUFFICES ASSUME IInv, [Next]_vars PROVE IdInv'  OBVIOUS
<1>1. CASE Requests  BY <1>1, RequestsId
<1>2. ASSUME NEW p \in Proc, Deliver(p) PROVE IdInv'  BY <1>2, DeliverId
<1>3. ASSUME NEW p \in Proc, Reconcile(p) PROVE IdInv'  BY <1>3, ReconcileId
<1>4. ASSUME NEW p \in Proc, Stop(p) PROVE IdInv'  BY <1>4, StopId
<1>5. ASSUME NEW p \in Proc, GiveUp(p) PROVE IdInv'
    <2>1. CASE Return(p) /\ UNCHANGED <<st, mid, aged>>
        BY <1>5, <2>1, ReturnId DEF GiveUp, EngineSame
    <2>2. CASE Unresolved(p)
        BY <1>5, <2>2, UnresolvedId DEF GiveUp
    <2> QED BY <1>5, <2>1, <2>2 DEF GiveUp
<1>6. ASSUME NEW i \in Inputs, Age(i) PROVE IdInv'  BY <1>6, AgeId
<1>7. CASE Engine  BY <1>7, EngineId
<1>8. CASE UNCHANGED <<rowVars, procVars, flight, hist>>
    BY <1>8 DEF IInv, IdInv, RowInv, CopyInv, PromptInv
<1>9. CASE DirectPrompt
    BY <1>8, <1>9 DEF DirectPrompt, DirectAdmit, DirectAcknowledge,
                      DirectPersist, DirectEnd, DirectUnchanged
<1> QED BY <1>1, <1>2, <1>3, <1>4, <1>5, <1>6, <1>7, <1>8, <1>9
        DEF Next, LoseLock

LEMMA IdInit == Init => IdInv
<1> SUFFICES ASSUME Init PROVE IdInv  OBVIOUS
<1> USE DEF Init
<1>1. RowInv     BY DEF RowInv
<1>2. CopyInv    BY DEF CopyInv
<1>3. PromptInv  BY DEF PromptInv
<1> QED BY <1>1, <1>2, <1>3 DEF IdInv

\* The inductive invariant holds of every behaviour.
THEOREM Inductive == Spec => []IInv
<1>1. Init => IInv  BY TypeInit, IdInit DEF IInv
<1>2. IInv /\ [Next]_vars => IInv'  BY TypeStep, IdStep DEF IInv
<1> QED BY <1>1, <1>2, PTL DEF Spec

\* An input reaches the conversation at most once, for any number of workers,
\* retries, faults and lost locks.
THEOREM DeliversAtMostOnce == Spec => []AtMostOnce
<1>1. IInv => AtMostOnce  BY DEF IInv, IdInv, RowInv, AtMostOnce
<1> QED BY <1>1, Inductive, PTL

\* An input its author may edit, remove or retry is not with the agent.
THEOREM NeverGhost == Spec => []NoGhost
<1>1. IInv => NoGhost  BY DEF IInv, IdInv, RowInv, NoGhost, Released
<1> QED BY <1>1, Inductive, PTL

\* An input shown as delivered is stored by the engine.
THEOREM DeliveredMeansStored == Spec => []DeliveredIsStored
<1>1. IInv => DeliveredIsStored
    BY DEF IInv, IdInv, RowInv, DeliveredIsStored
<1> QED BY <1>1, Inductive, PTL

-----------------------------------------------------------------------------
(***************************************************************************)
(* What a step does to a row, and to the goroutine that takes it.          *)
(***************************************************************************)
\* Where a goroutine holds the lock, unless it was lost; and where it is about
\* to allocate a message id.
Holding == DeliverPCs \cup ReconcilePCs \cup StopPCs
Admitting == {"status", "history", "lease", "send"}

\* A row is left alone, but for its minute.
Same(i) ==
    /\ st'[i] = st[i] /\ mid'[i] = mid[i] /\ origin'[i] = origin[i]
    /\ delivery'[i] = delivery[i] /\ resume'[i] = resume[i]
    /\ completed'[i] = completed[i]

Submitted(i) ==
    /\ lock = None
    /\ st[i] = "absent" /\ st'[i] = "queued"
    /\ \A j \in Inputs : j < i => st[j] # "absent"
    /\ mid'[i] = mid[i] /\ resume'[i] = resume[i] /\ completed'[i] = completed[i]

\* Its author edits, steers, retries or removes it.
Authored(i) ==
    /\ lock = None
    /\ User(i) /\ mid[i] = 0 /\ mid'[i] = 0
    /\ st[i] \in {"queued", "failed", "recovered"}
    /\ \/ st'[i] \in {st[i], "removed"} /\ resume'[i] = resume[i]
       \/ st'[i] = "queued" /\ resume'[i]
    /\ delivery'[i] \in {delivery[i], "steer"}
    /\ origin'[i] = origin[i] /\ completed'[i] = completed[i]

\* A goroutine with a current copy of its row saves it.
Saved(p, i) ==
    /\ i = job[p] /\ i \in fresh[p] /\ pc'[p] # pc[p]
    /\ \/ pc[p] = "picked" /\ lock = None /\ User(i) /\ st'[i] = "failed" /\ mid'[i] = mid[i]
       \/ pc[p] \in {"history", "prompt"} /\ st'[i] = "failed" /\ mid'[i] = 0
       \/ pc[p] = "send" /\ st'[i] = "sending" /\ mid'[i] # 0
       \/ /\ pc[p] \in ReconcilePCs
          /\ \/ st'[i] = "delivered" /\ mid'[i] = mid[i]
             \/ st'[i] = "failed" /\ mid'[i] = 0
             \/ ~User(i) /\ st'[i] = "queued" /\ mid'[i] = 0
    /\ completed'[i] = completed[i]

\* The turn of a notification is over.
Ended(p, i) ==
    /\ i = job[p] /\ pc[p] = "complete" /\ pc'[p] # pc[p]
    /\ ~User(i) /\ ~completed[i] /\ completed'[i]
    /\ st'[i] \in {st[i], "failed"} /\ mid'[i] = mid[i]

\* Stop took it back.
Withdrawn(i) ==
    /\ \E p \in Proc : pc[p] = "recover" /\ pc'[p] # pc[p]
    /\ \/ Canceled(i) /\ st'[i] = "removed"
       \/ Recovered(i) /\ st'[i] = "recovered" /\ completed'[i] = completed[i]
    /\ mid'[i] = mid[i]

\* The gateway writes a row.
Worked(i) ==
    /\ (\E p \in Proc : Saved(p, i) \/ Ended(p, i)) \/ Withdrawn(i)
    /\ origin'[i] = origin[i] /\ delivery'[i] = delivery[i] /\ resume'[i] = resume[i]

RowMove(i) == Same(i) \/ Submitted(i) \/ Authored(i) \/ Worked(i)

\* A goroutine does not move: the copies it still has are current, and nobody
\* takes the lock from it.
Stays(q) ==
    /\ pc'[q] = pc[q] /\ job'[q] = job[q] /\ mode'[q] = mode[q]
    /\ listed'[q] = listed[q] /\ settled'[q] = settled[q]
    /\ fresh'[q] \subseteq fresh[q]
    /\ \A i \in fresh'[q] : Same(i) \/ st[i] = "absent"
    /\ fresh'[q] = fresh[q] \/ lock = None \/ \E p \in Proc \ {q} : pc[p] \in Holding
    /\ lock = q => lock' = q \/ losses' # losses

\* Only p moves.
Actor(p) ==
    /\ \A i \in Inputs : RowMove(i)
    /\ \A q \in Proc \ {p} : Stays(q)
    /\ losses' = losses

\* The endings that steps share.
RowsSame == UNCHANGED <<st, mid, origin, delivery, resume, completed>>

\* A handler that returns writes no row.
LEMMA ReturnActor ==
    ASSUME IInv, NEW p \in Proc, Return(p), RowsSame, UNCHANGED losses
    PROVE  Actor(p)
BY NoneAssumption DEF IInv, TypeOK, Return, Locals, RowsSame, Actor, RowMove, Same, Stays

\* A handler that goes on writes no row.
LEMMA GotoActor ==
    ASSUME IInv, NEW p \in Proc, NEW l, Goto(p, l), RowsSame, UNCHANGED losses
    PROVE  Actor(p)
BY DEF IInv, TypeOK, Goto, RowsSame, Actor, RowMove, Same, Stays

\* Only row i is written, and copies of it become stale.
LEMMA SaveActor ==
    ASSUME IInv, NEW p \in Proc, NEW i \in Inputs, NEW s, NEW m, NEW own,
           Wrote(i, s, m), Stale(i, p, own), UNCHANGED <<origin, delivery, resume>>,
           \A j \in Inputs \ {i} : completed'[j] = completed[j],
           Worked(i), UNCHANGED losses, lock = None \/ pc[p] \in Holding,
           \A q \in Proc \ {p} :
               /\ pc'[q] = pc[q] /\ job'[q] = job[q] /\ mode'[q] = mode[q]
               /\ listed'[q] = listed[q] /\ settled'[q] = settled[q]
               /\ lock = q => lock' = q
    PROVE  Actor(p)
<1>1. \A j \in Inputs \ {i} : Same(j)
  BY DEF IInv, TypeOK, Wrote, Same
<1>2. \A q \in Proc \ {p} : fresh'[q] = fresh[q] \ {i} /\ fresh[q] \subseteq Inputs
  BY DEF IInv, TypeOK, Stale
<1> QED BY <1>1, <1>2 DEF Actor, RowMove, Stays

\* Requests, time, the engine and direct prompts move no goroutine.
Nobody ==
    /\ \A i \in Inputs : RowMove(i)
    /\ \A q \in Proc : Stays(q)

\* Requests run under the lock in one step, so no goroutine is at work.
LEMMA RequestActor == ASSUME IInv, Requests PROVE Nobody /\ losses' = losses
<1>1. ASSUME NEW i \in Inputs, NEW o, NEW d, NewRow(i, o, d) PROVE Nobody /\ losses' = losses
  <2>1. \A j \in Inputs \ {i} : Same(j)
    BY <1>1 DEF NewRow, Same, IInv, TypeOK
  <2>2. Submitted(i)
    BY <1>1 DEF NewRow, Submitted, IInv, TypeOK
  <2>3. \A q \in Proc : Stays(q)
    <3>1. \A q \in Proc : fresh[q] \subseteq Inputs
      BY DEF IInv, TypeOK
    <3> QED BY <1>1, <2>1, <2>2, <3>1 DEF NewRow, Submitted, Stays
  <2> QED BY <1>1, <2>1, <2>2, <2>3 DEF Nobody, RowMove, NewRow
<1>2. ASSUME NEW i \in Inputs, NEW s, NEW d, NEW r, Update(i, s, d, r),
             \/ s \in {st[i], "removed"} /\ r = resume[i]
             \/ s = "queued" /\ r = TRUE,
             d \in {delivery[i], "steer"}
      PROVE  Nobody /\ losses' = losses
  <2>1. \A j \in Inputs \ {i} : Same(j)
    BY <1>2 DEF Update, Wrote, Same, IInv, TypeOK
  <2>2. Authored(i)
    <3>1. st[i] \in {"queued", "failed", "recovered"}
      BY <1>2 DEF Update, Editable, IInv, TypeOK
    <3>2. /\ lock = None /\ User(i) /\ mid[i] = 0
          /\ st'[i] = s /\ mid'[i] = mid[i] /\ delivery'[i] = d /\ resume'[i] = r
          /\ origin'[i] = origin[i] /\ completed'[i] = completed[i]
      BY <1>2 DEF Update, Editable, Wrote, IInv, TypeOK
    <3> QED BY <1>2, <3>1, <3>2 DEF Authored
  <2>3. \A q \in Proc : Stays(q)
    <3>1. \A q \in Proc : fresh'[q] = fresh[q] \ {i} /\ fresh[q] \subseteq Inputs
      BY <1>2 DEF Update, IInv, TypeOK
    <3> QED BY <1>2, <2>1, <3>1 DEF Update, Stays
  <2> QED BY <1>2, <2>1, <2>2, <2>3 DEF Nobody, RowMove, Update
<1>3. ASSUME NEW i \in Inputs, Edit(i) PROVE Nobody /\ losses' = losses
  BY <1>2, <1>3 DEF Edit
<1>4. ASSUME NEW i \in Inputs, Steer(i) PROVE Nobody /\ losses' = losses
  BY <1>2, <1>4 DEF Steer
<1>5. ASSUME NEW i \in Inputs, Retry(i) PROVE Nobody /\ losses' = losses
  BY <1>2, <1>5 DEF Retry
<1>6. ASSUME NEW i \in Inputs, Remove(i) PROVE Nobody /\ losses' = losses
  BY <1>2, <1>6 DEF Remove
<1> QED BY <1>1, <1>3, <1>4, <1>5, <1>6 DEF Requests, Submit, EnqueueBackground

\* Neither the engine, nor a direct prompt, nor time writes a row but its minute.
LEMMA WorldActor ==
    ASSUME IInv,
           \/ LoseLock \/ (\E i \in Inputs : Age(i)) \/ Engine \/ DirectPrompt
           \/ UNCHANGED vars
    PROVE  Nobody
<1>1. CASE LoseLock
  BY <1>1 DEF LoseLock, Nobody, RowMove, Same, Stays, IInv, TypeOK
<1>2. CASE UNCHANGED <<st, mid, origin, delivery, resume, completed, procVars, lock>>
  BY <1>2 DEF Nobody, RowMove, Same, Stays
<1>3. ASSUME NEW i \in Inputs, Age(i) PROVE Nobody
  BY <1>2, <1>3 DEF Age
<1>4. CASE Engine
  BY <1>2, <1>4 DEF Engine, Persist, Drop, TurnStep, TurnAge
<1>5. CASE DirectPrompt
  BY <1>2, <1>5 DEF DirectPrompt, DirectAdmit, DirectAcknowledge, DirectPersist,
                    DirectEnd, DirectUnchanged
<1> QED BY <1>1, <1>2, <1>3, <1>4, <1>5

\* reconcileChatInput's two ways out.
LEMMA ResolvedActor ==
    ASSUME IInv, NEW p \in Proc, job[p] \in Inputs, NEW s, NEW m, Resolved(p, s, m),
           pc[p] \in ReconcilePCs, job[p] \in fresh[p],
           \/ s = "delivered" /\ m = mid[job[p]]
           \/ s = "failed" /\ m = 0
           \/ ~User(job[p]) /\ s = "queued" /\ m = 0,
           UNCHANGED <<origin, delivery, resume, completed, losses>>
    PROVE  Actor(p)
<1>1. Wrote(job[p], s, m)
  BY DEF Resolved
<1>2. Worked(job[p])
  <2>1. pc'[p] # pc[p]
    BY DEF Resolved, Locals, IInv, TypeOK
  <2> QED BY <1>1, <2>1 DEF Worked, Saved, Wrote, IInv, TypeOK
<1>3. CASE mode[p] = "deliver"
  <2>1. Locals(p) /\ Stale(job[p], p, {})
    BY <1>3 DEF Resolved
  <2>2. \A q \in Proc \ {p} :
          /\ pc'[q] = pc[q] /\ job'[q] = job[q] /\ mode'[q] = mode[q]
          /\ listed'[q] = listed[q] /\ settled'[q] = settled[q]
          /\ lock = q => lock' = q
    BY <2>1 DEF Locals, IInv, TypeOK
  <2> QED BY <1>1, <1>2, <2>1, <2>2, SaveActor DEF Holding
<1>4. CASE mode[p] = "stop"
  <2>1. /\ Stale(job[p], p, fresh[p] \ {job[p]})
        /\ pc' = [pc EXCEPT ![p] = "stop"] /\ job' = [job EXCEPT ![p] = 0]
        /\ listed' = [listed EXCEPT ![p] = @ \ {job[p]}]
        /\ UNCHANGED <<mode, sent, settled, lock>>
    BY <1>4 DEF Resolved
  <2>2. \A q \in Proc \ {p} :
          /\ pc'[q] = pc[q] /\ job'[q] = job[q] /\ mode'[q] = mode[q]
          /\ listed'[q] = listed[q] /\ settled'[q] = settled[q]
          /\ lock = q => lock' = q
    BY <2>1 DEF IInv, TypeOK
  <2> QED BY <1>1, <1>2, <2>1, <2>2, SaveActor DEF Holding
<1> QED BY <1>3, <1>4 DEF IInv, TypeOK

\* reconcileChatInput without an answer: it waits, or it gives the message up.
LEMMA UnresolvedActor ==
    ASSUME IInv, NEW p \in Proc, Unresolved(p),
           UNCHANGED <<origin, delivery, resume, completed, losses>>
    PROVE  Actor(p)
<1>1. RowsSame
  BY DEF Unresolved, RowsSame
<1>2. CASE Return(p)
  BY <1>1, <1>2, ReturnActor
<1>3. CASE /\ pc' = [pc EXCEPT ![p] = "halt"] /\ job' = [job EXCEPT ![p] = 0]
           /\ UNCHANGED <<mode, sent, fresh, listed, settled, lock>>
  BY <1>1, <1>3 DEF IInv, TypeOK, RowsSame, Actor, RowMove, Same, Stays
<1> QED BY <1>2, <1>3 DEF Unresolved

\* A save after which the handler returns.
LEMMA SaveReturnActor ==
    ASSUME IInv, NEW p \in Proc, NEW i \in Inputs, NEW s, NEW m,
           Wrote(i, s, m), Stale(i, p, {}), Locals(p),
           UNCHANGED <<origin, delivery, resume>>,
           \A j \in Inputs \ {i} : completed'[j] = completed[j],
           Saved(p, i) \/ Ended(p, i), UNCHANGED losses
    PROVE  Actor(p)
<1>1. Worked(i)
  BY DEF Worked
<1>2. \A q \in Proc \ {p} :
        /\ pc'[q] = pc[q] /\ job'[q] = job[q] /\ mode'[q] = mode[q]
        /\ listed'[q] = listed[q] /\ settled'[q] = settled[q]
        /\ lock = q => lock' = q
  BY DEF Locals, IInv, TypeOK
<1>3. lock = None \/ pc[p] \in Holding
  BY DEF Saved, Ended, Holding
<1> QED BY <1>1, <1>2, <1>3, SaveActor

\* One step of deliverNextChatInput writes at most the goroutine's own row.
LEMMA DeliverActor ==
    ASSUME IInv, NEW p \in Proc, Deliver(p)
    PROVE  Actor(p)
<1>1. ASSUME NEW i \in Inputs, Pick(p, i) PROVE Actor(p)
  BY <1>1 DEF Pick, IInv, TypeOK, Actor, RowMove, Same, Stays
<1>2. CASE Denied(p)
  <2>1. job[p] \in Inputs
    BY <1>2 DEF Denied, JobInv, IInv
  <2>2. CASE User(job[p]) /\ job[p] \in fresh[p]
    <3>1. /\ Wrote(job[p], "failed", mid[job[p]]) /\ Stale(job[p], p, {}) /\ Locals(p)
          /\ UNCHANGED <<origin, delivery, resume, completed, losses>>
      BY <1>2, <2>2 DEF Denied
    <3>2. Saved(p, job[p])
      BY <1>2, <2>1, <2>2, <3>1 DEF Denied, Saved, Wrote, Locals, IInv, TypeOK
    <3> QED BY <2>1, <3>1, <3>2, SaveReturnActor
  <2>3. CASE ~(User(job[p]) /\ job[p] \in fresh[p])
    BY <1>2, <2>3, ReturnActor DEF Denied, Return, RowsSame
  <2> QED BY <2>2, <2>3
<1>3. CASE AcquireCompletion(p) \/ AcquireReconcile(p) \/ AcquireHead(p)
  <2>1. PICK l \in {"complete", "message", "status"} : Acquire(p, l)
    BY <1>3 DEF AcquireCompletion, AcquireReconcile, AcquireHead
  <2> QED BY <2>1, NoneAssumption DEF Acquire, IInv, TypeOK, Actor, RowMove, Same, Stays
<1>4. CASE AcquireNothing(p)
  BY <1>4, ReturnActor DEF AcquireNothing, RowsSame
<1>5. CASE ReadStatus(p)
  BY <1>5, ReturnActor, GotoActor DEF ReadStatus, RowsSame
<1>6. CASE ReadHistory(p)
  <2>1. job[p] \in Inputs
    BY <1>6 DEF ReadHistory, JobInv, IInv
  <2>2. CASE Wrote(job[p], "failed", 0) /\ Stale(job[p], p, {}) /\ Locals(p) /\ job[p] \in fresh[p]
    <3>1. Saved(p, job[p])
      BY <1>6, <2>1, <2>2 DEF ReadHistory, Saved, Wrote, Locals, IInv, TypeOK
    <3> QED BY <1>6, <2>1, <2>2, <3>1, SaveReturnActor DEF ReadHistory
  <2>3. CASE UNCHANGED <<st, mid, aged>> /\ (Return(p) \/ Goto(p, "send") \/ Goto(p, "lease"))
    BY <1>6, <2>3, ReturnActor, GotoActor DEF ReadHistory, RowsSame
  <2> QED BY <1>6, <2>2, <2>3 DEF ReadHistory
<1>7. CASE ReadLease(p)
  BY <1>7, ReturnActor, GotoActor DEF ReadLease, RowsSame
<1>8. CASE SaveSending(p)
  <2>1. job[p] \in Inputs
    BY <1>8 DEF SaveSending, JobInv, IInv
  <2>2. Worked(job[p])
    BY <1>8, <2>1 DEF SaveSending, Worked, Saved, Wrote, IInv, TypeOK
  <2>3. \A q \in Proc \ {p} :
          /\ pc'[q] = pc[q] /\ job'[q] = job[q] /\ mode'[q] = mode[q]
          /\ listed'[q] = listed[q] /\ settled'[q] = settled[q]
          /\ lock = q => lock' = q
    BY <1>8 DEF SaveSending, IInv, TypeOK
  <2> QED BY <1>8, <2>1, <2>2, <2>3, SaveActor DEF SaveSending, Holding
<1>9. CASE SaveStale(p)
  BY <1>9, ReturnActor DEF SaveStale, RowsSame
<1>10. CASE PromptAccepted(p)
  BY <1>10, ReturnActor DEF PromptAccepted, RowsSame
<1>11. CASE PromptRejected(p)
  <2>1. job[p] \in Inputs
    BY <1>11 DEF PromptRejected, JobInv, IInv
  <2>2. CASE job[p] \in fresh[p]
    <3>1. /\ Wrote(job[p], "failed", 0) /\ Stale(job[p], p, {}) /\ Locals(p)
          /\ UNCHANGED <<origin, delivery, resume, completed, losses>>
      BY <1>11, <2>2 DEF PromptRejected
    <3>2. Saved(p, job[p])
      BY <1>11, <2>1, <2>2, <3>1 DEF PromptRejected, Saved, Wrote, Locals, IInv, TypeOK
    <3> QED BY <2>1, <3>1, <3>2, SaveReturnActor
  <2>3. CASE job[p] \notin fresh[p]
    BY <1>11, <2>3, ReturnActor DEF PromptRejected, Return, RowsSame
  <2> QED BY <2>2, <2>3
<1>12. CASE CompleteBackground(p)
  <2>1. job[p] \in Inputs
    BY <1>12 DEF CompleteBackground, JobInv, IInv
  <2>2. ASSUME NEW s \in {st[job[p]], "failed"}, Wrote(job[p], s, mid[job[p]]),
               ~completed[job[p]], ~User(job[p]),
               completed' = [completed EXCEPT ![job[p]] = TRUE],
               Stale(job[p], p, {}), Locals(p)
        PROVE  Actor(p)
    <3>1. Ended(p, job[p])
      BY <1>12, <2>1, <2>2 DEF CompleteBackground, Ended, Wrote, Locals, IInv, TypeOK
    <3>2. \A j \in Inputs \ {job[p]} : completed'[j] = completed[j]
      BY <2>2 DEF IInv, TypeOK
    <3> QED BY <1>12, <2>1, <2>2, <3>1, <3>2, SaveReturnActor DEF CompleteBackground
  <2>3. CASE Return(p) /\ UNCHANGED <<st, mid, aged, completed>>
    BY <1>12, <2>3, ReturnActor DEF CompleteBackground, RowsSame
  <2> QED BY <1>12, <2>2, <2>3 DEF CompleteBackground
<1> QED
  BY <1>1, <1>2, <1>3, <1>4, <1>5, <1>6, <1>7, <1>8, <1>9, <1>10, <1>11, <1>12 DEF Deliver

\* One step of the reconciliation writes at most the goroutine's own row.
LEMMA ReconcileActor ==
    ASSUME IInv, NEW p \in Proc, Reconcile(p)
    PROVE  Actor(p)
<1>1. job[p] \in Inputs /\ pc[p] \in ReconcilePCs
  BY DEF Reconcile, ReadMessage, CheckClock, CheckQuiet, Recheck, JobInv, IInv
<1>2. UNCHANGED <<origin, delivery, resume, completed, losses>>
  BY DEF Reconcile, ReadMessage, CheckClock, CheckQuiet, Recheck
<1>3. \/ Unresolved(p)
      \/ (\E l : Goto(p, l)) /\ UNCHANGED <<st, mid, aged>>
      \/ job[p] \in fresh[p] /\ Resolved(p, "delivered", mid[job[p]])
      \/ job[p] \in fresh[p] /\ Resolved(p, IF User(job[p]) THEN "failed" ELSE "queued", 0)
  BY DEF Reconcile, ReadMessage, CheckClock, CheckQuiet, Recheck
<1> QED
  BY <1>1, <1>2, <1>3, UnresolvedActor, GotoActor, ResolvedActor DEF RowsSame

\* StopChat takes the lock and writes no row yet.
LEMMA EnterActor ==
    ASSUME IInv, NEW p \in Proc, EnterStop(p)
    PROVE  Actor(p)
BY NoneAssumption DEF EnterStop, IInv, TypeOK, Actor, RowMove, Same, Stays

\* One step of StopChat writes at most one row.
LEMMA StopActor ==
    ASSUME IInv, NEW p \in Proc, Stop(p)
    PROVE  Actor(p)
<1>1. CASE StopRequest(p) \/ RepairStop(p) \/ JoinStop(p)
  BY <1>1, EnterActor DEF StopRequest, RepairStop, JoinStop
<1>2. ASSUME NEW i \in Inputs, StopReconcile(p, i) PROVE Actor(p)
  BY <1>2 DEF StopReconcile, IInv, TypeOK, Actor, RowMove, Same, Stays
<1>3. CASE StopVisited(p) \/ StopAbort(p) \/ StopWait(p)
  BY <1>3, GotoActor DEF StopVisited, StopAbort, StopWait, RowsSame
<1>4. CASE StopGauge(p)
  BY <1>4 DEF StopGauge, IInv, TypeOK, Actor, RowMove, Same, Stays
<1>5. CASE StopTimeout(p) \/ StopClear(p)
  BY <1>5, ReturnActor DEF StopTimeout, StopClear, RowsSame
<1>6. CASE StopRecover(p)
  <2>1. \A i \in Inputs : Canceled(i) \/ Recovered(i) \/ Same(i)
    BY <1>6 DEF StopRecover, Same, IInv, TypeOK
  <2>2. \A i \in Inputs : Canceled(i) \/ Recovered(i) => Worked(i)
    BY <1>6 DEF StopRecover, Worked, Withdrawn, Canceled, Recovered, IInv, TypeOK
  <2>3. \A q \in Proc : fresh'[q] = fresh[q] \ {i \in Inputs : Canceled(i) \/ Recovered(i)}
                        /\ fresh[q] \subseteq Inputs
    BY <1>6 DEF StopRecover, IInv, TypeOK
  <2>4. \A q \in Proc \ {p} : Stays(q)
    BY <1>6, <2>1, <2>3 DEF StopRecover, Stays, Holding, IInv, TypeOK
  <2> QED BY <1>6, <2>1, <2>2, <2>4 DEF Actor, RowMove, StopRecover
<1> QED BY <1>1, <1>2, <1>3, <1>4, <1>5, <1>6 DEF Stop

\* Whatever handler a goroutine is in, its step is that of one actor.
LEMMA ProcessActor ==
    ASSUME IInv, NEW p \in Proc, Deliver(p) \/ Reconcile(p) \/ Stop(p) \/ GiveUp(p)
    PROVE  Actor(p)
<1>1. CASE GiveUp(p)
  BY <1>1, ReturnActor, UnresolvedActor DEF GiveUp, RowsSame
<1> QED BY <1>1, DeliverActor, ReconcileActor, StopActor

(***************************************************************************)
(* What a goroutine's own step does to its locals.                         *)
(***************************************************************************)
TurnInv == turnAged => turn \in {"stalled", "toolcalls"}

Locally(p) ==
    /\ mode'[p] = mode[p] /\ fresh'[p] = fresh[p]
    /\ listed'[p] = listed[p] /\ settled'[p] = settled[p]

\* The rest of the world, but for the engine's turn.
Quietly == RowsSame /\ UNCHANGED <<stopping, lock, flight, direct>>

Leaves(p) == pc'[p] = "idle" /\ mode'[p] = "deliver" /\ fresh'[p] = {}

Chooses(p) ==
    /\ pc[p] = "idle" /\ pc'[p] = "picked" /\ mode'[p] = mode[p]
    /\ job'[p] \in Inputs /\ Pending(job'[p]) /\ fresh'[p] = {job'[p]}
    /\ Quietly

\* It gets the lock for its row.
Begins(p) ==
    /\ lock = None /\ lock' = p
    /\ pc[p] = "picked" /\ job'[p] = job[p] /\ mode'[p] = mode[p]
    /\ fresh'[p] = {job[p]}
    /\ RowsSame /\ UNCHANGED <<stopping, flight>>
    /\ \/ /\ pc'[p] = "status" /\ Deliverable(job[p])
          /\ ~stopping /\ mid[job[p]] = 0 /\ IsHead(job[p])
       \/ pc'[p] = "message" /\ Deliverable(job[p]) /\ mid[job[p]] # 0
       \/ pc'[p] = "complete" /\ ~User(job[p]) /\ Finished(job[p])

Proceeds(p) ==
    /\ Locally(p) /\ job'[p] = job[p] /\ Quietly
    /\ turn' = turn \/ turn' \in {"stalled", "error"}
    /\ \/ pc[p] = "status" /\ pc'[p] = "history"
       \/ pc[p] = "status" /\ pc'[p] = "send" /\ delivery[job[p]] # "queue"
       \/ pc[p] = "history" /\ pc'[p] \in {"lease", "send"} /\ turn \notin Active
       \/ pc[p] = "lease" /\ pc'[p] = "send"
       \/ pc[p] \in ReconcilePCs /\ pc'[p] \in ReconcilePCs
       \/ pc[p] = "stop" /\ pc'[p] = "halt"
       \/ pc[p] = "halt" /\ pc'[p] = "gauge"
       \/ pc[p] = "wait" /\ pc'[p] = "stop" /\ turn # "pending"

Sends(p) ==
    /\ pc[p] = "send" /\ pc'[p] = "prompt"
    /\ job'[p] = job[p] /\ mode'[p] = mode[p] /\ listed'[p] = listed[p]
    /\ job[p] \in fresh[p] /\ fresh'[p] = {job[p]}
    /\ st'[job[p]] = "sending"
    /\ UNCHANGED <<origin, delivery, resume, completed, stopping, lock, flight,
                   turn, direct>>

\* It raises the barrier, or takes over from one that did.
Enters(p) ==
    /\ lock = None /\ lock' = p
    /\ pc'[p] = "stop" /\ mode'[p] = "stop"
    /\ listed'[p] = ToReconcile /\ fresh'[p] = ToReconcile /\ ~settled'[p]
    /\ RowsSame /\ UNCHANGED flight

Visits(p) ==
    /\ Locally(p) /\ Quietly /\ UNCHANGED turn
    /\ pc[p] = "stop" /\ pc'[p] = "message" /\ job'[p] \in listed[p]

Resolves(p) ==
    /\ mode[p] = "stop" /\ pc[p] \in ReconcilePCs
    /\ mode'[p] = mode[p] /\ pc'[p] = "stop" /\ settled'[p] = settled[p]
    /\ listed'[p] = listed[p] \ {job[p]} /\ fresh'[p] = fresh[p] \ {job[p]}
    /\ \A i \in Inputs \ {job[p]} : Same(i)
    /\ \/ mid[job[p]] \in hist[job[p]]
       \/ mid'[job[p]] = 0
    /\ UNCHANGED <<lock, stopping, flight, turn, direct>>

\* The round over the rows ends early.
Breaks(p) ==
    /\ Locally(p) /\ Quietly /\ UNCHANGED turn
    /\ mode[p] = "stop" /\ pc[p] \in ReconcilePCs /\ pc'[p] = "halt"

Gauges(p) ==
    /\ mode'[p] = mode[p] /\ fresh'[p] = fresh[p] /\ listed'[p] = listed[p]
    /\ Quietly /\ UNCHANGED turn
    /\ pc[p] = "gauge" /\ pc'[p] \in {"recover", "wait"}
    /\ settled'[p] => listed[p] = {} /\ ~Leased /\ turn \notin Busy
    /\ pc'[p] = "recover" => settled[p] /\ settled'[p]

Recovers(p) ==
    /\ pc[p] = "recover" /\ pc'[p] = "clear"
    /\ mode'[p] = mode[p] /\ listed'[p] = listed[p] /\ settled'[p] = settled[p]
    /\ fresh'[p] \subseteq fresh[p] /\ \A i \in fresh'[p] : Same(i)
    /\ UNCHANGED <<lock, stopping, flight, turn, direct>>

Own(p) ==
    \/ Leaves(p) \/ Chooses(p) \/ Begins(p) \/ Proceeds(p) \/ Sends(p)
    \/ Enters(p) \/ Visits(p) \/ Resolves(p) \/ Breaks(p) \/ Gauges(p)
    \/ Recovers(p)

\* A handler that returns releases what it held.
LEMMA ReturnOwn == ASSUME IInv, NEW p \in Proc, Return(p) PROVE Leaves(p)
BY DEF IInv, TypeOK, Return, Locals, Leaves

\* A save refused for its revision ends the handler.
LEMMA LocalsOwn ==
    ASSUME IInv, NEW p \in Proc, Locals(p), NEW i, Stale(i, p, {})
    PROVE  Leaves(p)
BY DEF IInv, TypeOK, Stale, Locals, Leaves

\* A settled message is saved by the one who asked the engine about it.
LEMMA ResolvedOwn ==
    ASSUME IInv, NEW p \in Proc, job[p] \in Inputs, NEW s, NEW m, Resolved(p, s, m),
           pc[p] \in ReconcilePCs, mid[job[p]] \in hist[job[p]] \/ m = 0,
           UNCHANGED <<origin, delivery, resume, completed, stopping, flight, turn, direct>>
    PROVE  Own(p)
<1>1. CASE mode[p] = "deliver"
  BY <1>1, LocalsOwn DEF Resolved, Own
<1>2. CASE mode[p] = "stop"
  <2>1. /\ Wrote(job[p], s, m)
        /\ pc' = [pc EXCEPT ![p] = "stop"]
        /\ listed' = [listed EXCEPT ![p] = @ \ {job[p]}]
        /\ Stale(job[p], p, fresh[p] \ {job[p]})
        /\ UNCHANGED <<mode, settled, lock>>
    BY <1>2 DEF Resolved
  <2>2. \A i \in Inputs \ {job[p]} : Same(i)
    BY <2>1 DEF Wrote, Same, IInv, TypeOK
  <2>3. mid'[job[p]] = m
    BY <2>1 DEF Wrote, IInv, TypeOK
  <2>4. Resolves(p)
    BY <1>2, <2>1, <2>2, <2>3 DEF Resolves, Stale, IInv, TypeOK
  <2> QED BY <2>4 DEF Own
<1> QED BY <1>1, <1>2 DEF IInv, TypeOK

\* An unsettled message ends the visit, or is given up after its minute.
LEMMA UnresolvedOwn ==
    ASSUME IInv, NEW p \in Proc, Unresolved(p), pc[p] \in ReconcilePCs,
           UNCHANGED <<origin, delivery, resume, completed, stopping, flight, turn, direct>>
    PROVE  Own(p)
<1>1. CASE Return(p)
  BY <1>1, ReturnOwn DEF Own
<1>2. CASE /\ mode[p] = "stop" /\ pc' = [pc EXCEPT ![p] = "halt"]
           /\ UNCHANGED <<mode, sent, fresh, listed, settled, lock, st, mid, aged>>
  <2>1. Breaks(p)
    BY <1>2 DEF Breaks, Locally, Quietly, RowsSame, IInv, TypeOK
  <2> QED BY <2>1 DEF Own
<1> QED BY <1>1, <1>2 DEF Unresolved

\* The control flow of deliverNextChatInput.
LEMMA DeliverOwn ==
    ASSUME IInv, TurnInv, NEW p \in Proc, Deliver(p)
    PROVE  Own(p)
<1>1. ASSUME NEW i \in Inputs, Pick(p, i) PROVE Own(p)
  <2>1. Chooses(p)
    BY <1>1 DEF Pick, IsPick, Chooses, Quietly, RowsSame, IInv, TypeOK
  <2> QED BY <2>1 DEF Own
<1>2. CASE Denied(p)
  <2>1. fresh'[p] = {}
    BY <1>2 DEF Denied, Stale, IInv, TypeOK
  <2>2. Leaves(p)
    BY <1>2, <2>1 DEF Denied, Locals, Leaves, IInv, TypeOK
  <2> QED BY <2>2 DEF Own
<1>3. CASE AcquireCompletion(p) \/ AcquireReconcile(p) \/ AcquireHead(p)
  <2>1. Begins(p)
    BY <1>3 DEF AcquireCompletion, AcquireReconcile, AcquireHead, Acquire, Begins,
                RowsSame, IInv, TypeOK
  <2> QED BY <2>1 DEF Own
<1>4. CASE AcquireNothing(p)
  BY <1>4, ReturnOwn DEF AcquireNothing, Own
<1>5. CASE ReadStatus(p)
  <2>1. CASE Goto(p, IF delivery[job[p]] = "queue" THEN "history" ELSE "send")
    <3>1. Proceeds(p)
      BY <1>5, <2>1 DEF ReadStatus, Goto, Proceeds, Locally, Quietly, RowsSame, IInv, TypeOK
    <3> QED BY <3>1 DEF Own
  <2> QED BY <1>5, <2>1, ReturnOwn DEF ReadStatus, Own
<1>6. CASE ReadHistory(p)
  <2>1. CASE /\ Goto(p, "send") \/ Goto(p, "lease")
             /\ turn \notin Active /\ UNCHANGED <<st, mid, aged>>
    <3>1. Proceeds(p)
      BY <1>6, <2>1 DEF ReadHistory, Goto, Proceeds, Locally, Quietly, RowsSame, IInv, TypeOK
    <3> QED BY <3>1 DEF Own
  <2>2. CASE Stale(job[p], p, {}) /\ Locals(p)
    BY <2>2, LocalsOwn DEF Own
  <2>3. CASE Return(p)
    BY <2>3, ReturnOwn DEF Own
  <2> QED BY <1>6, <2>1, <2>2, <2>3 DEF ReadHistory, Unfinished, TurnInv
<1>7. CASE ReadLease(p)
  <2>1. CASE Goto(p, "send")
    <3>1. Proceeds(p)
      BY <1>7, <2>1 DEF ReadLease, Goto, Proceeds, Locally, Quietly, RowsSame, IInv, TypeOK
    <3> QED BY <3>1 DEF Own
  <2> QED BY <1>7, <2>1, ReturnOwn DEF ReadLease, Own
<1>8. CASE SaveSending(p)
  <2>1. job[p] \in Inputs
    BY <1>8 DEF SaveSending, JobInv, IInv
  <2>2. Sends(p)
    BY <1>8, <2>1 DEF SaveSending, Wrote, Stale, Sends, IInv, TypeOK
  <2> QED BY <2>2 DEF Own
<1>9. CASE SaveStale(p) \/ PromptAccepted(p)
  BY <1>9, ReturnOwn DEF SaveStale, PromptAccepted, Own
<1>10. CASE PromptRejected(p)
  <2>1. fresh'[p] = {}
    BY <1>10 DEF PromptRejected, Stale, IInv, TypeOK
  <2>2. Leaves(p)
    BY <1>10, <2>1 DEF PromptRejected, Locals, Leaves, IInv, TypeOK
  <2> QED BY <2>2 DEF Own
<1>11. CASE CompleteBackground(p)
  BY <1>11, ReturnOwn, LocalsOwn DEF CompleteBackground, Own
<1> QED
  BY <1>1, <1>2, <1>3, <1>4, <1>5, <1>6, <1>7, <1>8, <1>9, <1>10, <1>11 DEF Deliver

\* The control flow of reconcileChatInput, on its own or under Stop.
LEMMA ReconcileOwn ==
    ASSUME IInv, NEW p \in Proc, Reconcile(p)
    PROVE  Own(p)
<1>1. job[p] \in Inputs /\ pc[p] \in ReconcilePCs
  BY DEF Reconcile, ReadMessage, CheckClock, CheckQuiet, Recheck, JobInv, IInv
<1>2. UNCHANGED <<origin, delivery, resume, completed, stopping, flight, turn, direct>>
  BY DEF Reconcile, ReadMessage, CheckClock, CheckQuiet, Recheck
<1>3. \/ Unresolved(p)
      \/ (\E l \in ReconcilePCs : Goto(p, l)) /\ UNCHANGED <<st, mid, aged>>
      \/ Stored(job[p]) /\ Resolved(p, "delivered", mid[job[p]])
      \/ \E s \in {"failed", "queued"} : Resolved(p, s, 0)
  BY DEF Reconcile, ReadMessage, CheckClock, CheckQuiet, Recheck
<1>4. ASSUME NEW l \in ReconcilePCs, Goto(p, l), UNCHANGED <<st, mid, aged>> PROVE Own(p)
  <2>1. Proceeds(p)
    BY <1>1, <1>2, <1>4 DEF Goto, Proceeds, Locally, Quietly, RowsSame, IInv, TypeOK
  <2> QED BY <2>1 DEF Own
<1> QED
  BY <1>1, <1>2, <1>3, <1>4, UnresolvedOwn, ResolvedOwn DEF Stored

\* The control flow of StopChat.
LEMMA StopOwn ==
    ASSUME IInv, NEW p \in Proc, Stop(p)
    PROVE  Own(p)
<1>1. CASE StopRequest(p) \/ RepairStop(p) \/ JoinStop(p)
  <2>1. Enters(p)
    BY <1>1 DEF StopRequest, RepairStop, JoinStop, EnterStop, Enters, RowsSame, IInv, TypeOK
  <2> QED BY <2>1 DEF Own
<1>2. ASSUME NEW i \in Inputs, StopReconcile(p, i) PROVE Own(p)
  <2>1. Visits(p)
    BY <1>2 DEF StopReconcile, Visits, Locally, Quietly, RowsSame, IInv, TypeOK
  <2> QED BY <2>1 DEF Own
<1>3. CASE StopVisited(p) \/ StopAbort(p) \/ StopWait(p)
  <2>1. Proceeds(p)
    BY <1>3 DEF StopVisited, StopAbort, StopWait, Goto, Proceeds, Locally, Quietly,
                RowsSame, IInv, TypeOK
  <2> QED BY <2>1 DEF Own
<1>4. CASE StopGauge(p)
  <2>1. Gauges(p)
    BY <1>4 DEF StopGauge, Gauges, Quietly, RowsSame, IInv, TypeOK
  <2> QED BY <2>1 DEF Own
<1>5. CASE StopTimeout(p) \/ StopClear(p)
  BY <1>5, ReturnOwn DEF StopTimeout, StopClear, Own
<1>6. CASE StopRecover(p)
  <2>1. /\ fresh'[p] = fresh[p] \ {i \in Inputs : Canceled(i) \/ Recovered(i)}
        /\ fresh[p] \subseteq Inputs
    BY <1>6 DEF StopRecover, IInv, TypeOK
  <2>2. \A i \in Inputs : Canceled(i) \/ Recovered(i) \/ Same(i)
    BY <1>6 DEF StopRecover, Same, IInv, TypeOK
  <2>3. Recovers(p)
    BY <1>6, <2>1, <2>2 DEF StopRecover, Recovers, IInv, TypeOK
  <2> QED BY <2>3 DEF Own
<1> QED BY <1>1, <1>2, <1>3, <1>4, <1>5, <1>6 DEF Stop

\* Every step of a goroutine is one of Own's ways to go on.
LEMMA OwnStep ==
    ASSUME IInv, TurnInv, NEW p \in Proc,
           Deliver(p) \/ Reconcile(p) \/ Stop(p) \/ GiveUp(p)
    PROVE  Own(p)
<1>1. CASE GiveUp(p)
  BY <1>1, ReturnOwn, UnresolvedOwn DEF GiveUp, Own
<1> QED BY <1>1, DeliverOwn, ReconcileOwn, StopOwn

(***************************************************************************)
(* What any step may do to the engine, to direct prompts and to the        *)
(* barrier.                                                                *)
(***************************************************************************)
\* A message is on its way, and is stored: a turn begins.
Arrives(i) ==
    \E k \in flight[i] : hist'[i] = hist[i] \cup {k} /\ flight'[i] = flight[i] \ {k}

World ==
    /\ \A i \in Inputs :
          \/ hist'[i] = hist[i] /\ flight'[i] \subseteq flight[i]
          \/ /\ hist'[i] = hist[i] /\ flight'[i] = flight[i] \cup {mid[i]}
             /\ \E p \in Proc : pc[p] = "prompt" /\ job[p] = i /\ pc'[p] # pc[p]
          \/ Arrives(i)
    /\ turn' \in Active \ {turn} /\ (turn \notin Active \/ turn' = "pending")
       => (\E i \in Inputs : Arrives(i)) \/ (\E d \in Direct : direct[d] # "none")
    /\ turnAged' => (turnAged /\ turn' = turn) \/ turn' \in {"stalled", "toolcalls"}
    /\ \A d \in Direct : direct'[d] = "none" => direct[d] = "none"
    /\ Leased' => Leased \/ lock = None
    /\ stopping' => stopping \/ lock = None
    /\ stopping => stopping' \/ \E p \in Proc : pc[p] = "clear"
    /\ losses' # losses => losses' # 0

EngineQuiet == UNCHANGED <<flight, hist, turn, turnAged, direct>>

\* A step that leaves the engine alone lets nothing arrive.
LEMMA QuietWorld ==
    ASSUME IInv, EngineQuiet, stopping' => stopping \/ lock = None,
           stopping => stopping' \/ \E p \in Proc : pc[p] = "clear",
           losses' # losses => losses' # 0
    PROVE  World
BY DEF EngineQuiet, World, Leased

\* The engine stores messages on their way and runs its turn.
LEMMA EngineWorld == ASSUME IInv, Engine PROVE World
<1>1. ASSUME NEW i \in Inputs, NEW k \in flight[i], Persist(i, k) PROVE World
  <2>1. Arrives(i)
    BY <1>1 DEF Persist, Arrives, IInv, TypeOK
  <2>2. \A j \in Inputs \ {i} : hist'[j] = hist[j] /\ flight'[j] = flight[j]
    BY <1>1 DEF Persist, IInv, TypeOK
  <2> QED BY <1>1, <2>1, <2>2 DEF Persist, Arrived, World, Leased
<1>2. ASSUME NEW i \in Inputs, NEW k \in flight[i], Drop(i, k) PROVE World
  <2>1. \A j \in Inputs : hist'[j] = hist[j] /\ flight'[j] \subseteq flight[j]
    BY <1>2 DEF Drop, IInv, TypeOK
  <2> QED BY <1>2, <2>1 DEF Drop, World, Leased
<1>3. ASSUME NEW t \in Turns, TurnStep(t) PROVE World
  BY <1>3 DEF TurnStep, TurnSteps, World, Leased
<1>4. CASE TurnAge
  BY <1>4 DEF TurnAge, World, Leased
<1> QED BY <1>1, <1>2, <1>3, <1>4 DEF Engine

\* Prompts beside the queue leave rows and goroutines alone.
LEMMA DirectWorld == ASSUME IInv, DirectPrompt PROVE World
<1>1. PICK d \in Direct : DirectAdmit(d) \/ DirectAcknowledge(d) \/ DirectPersist(d) \/ DirectEnd(d)
  BY DEF DirectPrompt
<1>2. \A e \in Direct \ {d} : direct'[e] = direct[e]
  BY <1>1 DEF DirectAdmit, DirectAcknowledge, DirectPersist, DirectEnd, IInv, TypeOK
<1>3. UNCHANGED <<flight, hist, stopping, losses>>
  BY <1>1 DEF DirectAdmit, DirectAcknowledge, DirectPersist, DirectEnd, DirectUnchanged
<1>4. /\ direct'[d] # "none"
      /\ direct[d] \notin {"leased", "served"} =>
            direct'[d] \notin {"leased", "served"} \/ lock = None
  BY <1>1 DEF DirectAdmit, DirectAcknowledge, DirectPersist, DirectEnd, IInv, TypeOK
<1>5. \/ UNCHANGED <<turn, turnAged>>
      \/ ~turnAged' /\ direct[d] # "none"
  BY <1>1 DEF DirectAdmit, DirectAcknowledge, DirectPersist, DirectEnd, Arrived
<1> QED BY <1>2, <1>3, <1>4, <1>5 DEF World, Leased

\* Delivery reaches the engine only by its prompt.
LEMMA DeliverWorld == ASSUME IInv, NEW p \in Proc, Deliver(p) PROVE World
<1>1. CASE EngineQuiet /\ UNCHANGED <<stopping, losses>>
  BY <1>1, QuietWorld
<1>2. CASE PromptAccepted(p)
  <2>1. sent[p] = mid[job[p]] /\ job[p] \in Inputs
    BY <1>2 DEF PromptAccepted, IInv, IdInv, PromptInv, JobInv
  <2>2. flight'[job[p]] = flight[job[p]] \cup {mid[job[p]]}
    BY <1>2, <2>1 DEF PromptAccepted, IInv, TypeOK
  <2>3. \A j \in Inputs \ {job[p]} : flight'[j] = flight[j]
    BY <1>2 DEF PromptAccepted, IInv, TypeOK
  <2> QED BY <1>2, <2>1, <2>2, <2>3 DEF PromptAccepted, Return, Locals, World, Leased, IInv, TypeOK
<1> QED
  BY <1>1, <1>2 DEF Deliver, EngineQuiet, Pick, Denied, AcquireCompletion, AcquireReconcile,
     AcquireHead, Acquire, AcquireNothing, ReadStatus, ReadHistory, ReadLease, SaveSending,
     SaveStale, PromptRejected, CompleteBackground

\* StopChat reaches the engine only by its abort.
LEMMA StopWorld == ASSUME IInv, NEW p \in Proc, Stop(p) PROVE World
<1>1. CASE /\ EngineQuiet /\ UNCHANGED losses
           /\ \/ UNCHANGED stopping
              \/ stopping' /\ lock = None
              \/ pc[p] = "clear" /\ ~stopping'
  BY <1>1, QuietWorld
<1>2. CASE StopAbort(p)
  BY <1>2 DEF StopAbort, World, Leased
<1> QED
  BY <1>1, <1>2 DEF Stop, EngineQuiet, StopRequest, RepairStop, JoinStop, EnterStop,
     StopReconcile, StopVisited, StopGauge, StopWait, StopTimeout, StopRecover, StopClear

\* No other step does more to the engine.
LEMMA WorldStep == ASSUME IInv, [Next]_vars PROVE World
<1>1. CASE EngineQuiet /\ UNCHANGED <<stopping, losses>>
  BY <1>1, QuietWorld
<1>2. CASE LoseLock
  BY <1>2, QuietWorld DEF LoseLock, EngineQuiet, IInv, TypeOK
<1>3. CASE Requests
  BY <1>1, <1>3 DEF EngineQuiet, Requests, Submit, EnqueueBackground, NewRow, Edit, Steer, Retry,
                    Remove, Update
<1>4. ASSUME NEW p \in Proc, Reconcile(p) \/ GiveUp(p) PROVE World
  BY <1>1, <1>4 DEF EngineQuiet, Reconcile, ReadMessage, CheckClock, CheckQuiet, Recheck, GiveUp
<1>5. CASE \E i \in Inputs : Age(i)
  BY <1>1, <1>5 DEF EngineQuiet, Age
<1> QED
  BY <1>1, <1>2, <1>3, <1>4, <1>5, DeliverWorld, StopWorld, EngineWorld, DirectWorld
  DEF Next, EngineQuiet

\* Every step is a step of one goroutine, or moves none.
LEMMA Movers ==
    ASSUME IInv, TurnInv, [Next]_vars
    PROVE  \/ \E p \in Proc : Actor(p) /\ Own(p)
           \/ Nobody
<1> QED BY ProcessActor, OwnStep, RequestActor, WorldActor DEF Next

-----------------------------------------------------------------------------
(***************************************************************************)
(* Rows and copies, whoever holds the lock.                                *)
(***************************************************************************)
\* A message id was allocated for it, and its fate is open.
Asked(i) == st[i] \in {"sending", "failed"} /\ mid[i] # 0

Shape(i) ==
    /\ st[i] \in {"absent", "queued", "recovered"} => mid[i] = 0
    /\ st[i] = "removed" /\ User(i) => mid[i] = 0
    /\ st[i] = "sending" => mid[i] # 0
    /\ st[i] = "absent" => User(i)
    /\ st[i] # "absent" => \A j \in Inputs : j < i => st[j] # "absent"
    /\ flight[i] \cap hist[i] = {}

\* What a goroutine with a current copy knows of its row.
Copy(p) ==
    /\ pc[p] = "picked" /\ User(job[p]) => st[job[p]] \in {"queued", "sending", "failed"}
    /\ pc[p] \in Admitting => st[job[p]] = "queued"
    /\ pc[p] = "prompt" => st[job[p]] = "sending"
    /\ pc[p] \in ReconcilePCs => Asked(job[p])

Knows(p) ==
    /\ job[p] \in fresh[p] => Copy(p)
    /\ \A i \in fresh[p] : st[i] # "absent"
    /\ pc[p] \in StopPCs => mode[p] = "stop"
    /\ mode[p] = "stop" =>
          /\ pc[p] \in StopPCs \cup ReconcilePCs
          /\ pc[p] \in ReconcilePCs => job[p] \in listed[p]
          /\ \A i \in listed[p] \cap fresh[p] : Asked(i)

ShapeInv ==
    /\ \A i \in Inputs : Shape(i)
    /\ \A p \in Proc : Knows(p)
    /\ TurnInv

\* A row that exists goes on existing, and its author stays its author.
LEMMA RowStays ==
    ASSUME IInv, ShapeInv, NEW i \in Inputs, RowMove(i)
    PROVE  /\ st[i] # "absent" => st'[i] # "absent"
           /\ st[i] # "absent" => origin'[i] = origin[i]
           /\ st[i] # "absent" /\ delivery'[i] = "queue" => delivery[i] = "queue"
           /\ st[i] = "absent" => Same(i) \/ Submitted(i)
           /\ origin'[i] = "user" => User(i)
<1>1. CASE Same(i) \/ Submitted(i) \/ Authored(i)
  BY <1>1 DEF Same, Submitted, Authored, User, ShapeInv, Shape
<1>2. CASE Worked(i)
  <2>1. st[i] # "absent" /\ st'[i] # "absent"
    <3>1. ASSUME NEW p \in Proc, Saved(p, i) PROVE st[i] # "absent" /\ st'[i] # "absent"
      BY <3>1 DEF Saved, ShapeInv, Knows
    <3>2. ASSUME NEW p \in Proc, Ended(p, i) PROVE st[i] # "absent" /\ st'[i] # "absent"
      BY <3>2 DEF Ended, ShapeInv, Shape
    <3>3. CASE Withdrawn(i)
      BY <3>3 DEF Withdrawn, Canceled, Recovered
    <3> QED BY <1>2, <3>1, <3>2, <3>3 DEF Worked
  <2> QED BY <1>2, <2>1 DEF Worked, User
<1> QED BY <1>1, <1>2 DEF RowMove

\* What the gateway's writes leave behind.
LEMMA WorkedShape ==
    ASSUME IInv, ShapeInv, NEW i \in Inputs, Worked(i)
    PROVE  /\ st'[i] \in {"absent", "queued", "recovered"} => mid'[i] = 0
           /\ st'[i] = "removed" /\ User(i) => mid'[i] = 0
           /\ st'[i] = "sending" => mid'[i] # 0
<1>1. ASSUME NEW p \in Proc, Saved(p, i)
      PROVE  /\ st'[i] \notin {"absent", "recovered", "removed"}
             /\ st'[i] = "queued" => mid'[i] = 0
             /\ st'[i] = "sending" => mid'[i] # 0
  BY <1>1 DEF Saved
<1>2. ASSUME NEW p \in Proc, Ended(p, i)
      PROVE  st'[i] \in {st[i], "failed"} /\ mid'[i] = mid[i] /\ ~User(i)
  BY <1>2 DEF Ended
<1>3. CASE Withdrawn(i)
  BY <1>3 DEF Withdrawn, Canceled, Recovered
<1> QED BY <1>1, <1>2, <1>3 DEF Worked, ShapeInv, Shape

\* Every move of a row keeps its shape.
LEMMA ShapeStep ==
    ASSUME IInv, ShapeInv, World, \A i \in Inputs : RowMove(i)
    PROVE  \A i \in Inputs : Shape(i)'
<1> SUFFICES ASSUME NEW i \in Inputs PROVE Shape(i)'
  OBVIOUS
<1>1. RowMove(i) /\ Shape(i)
  BY DEF ShapeInv
<1>2. st'[i] # "absent" => \A j \in Inputs : j < i => st'[j] # "absent"
  <2>1. \A j \in Inputs : st[j] # "absent" => st'[j] # "absent"
    BY RowStays
  <2>2. st[i] = "absent" => Same(i) \/ Submitted(i)
    BY RowStays
  <2> QED BY <1>1, <2>1, <2>2 DEF Same, Submitted, Shape
<1>3. flight'[i] \cap hist'[i] = {}
  <2>1. \A p \in Proc : pc[p] = "prompt" /\ job[p] = i => hist[i] = {}
    BY DEF IInv, IdInv, PromptInv
  <2> QED BY <1>1, <2>1 DEF World, Arrives, Shape
<1>4. /\ st'[i] \in {"absent", "queued", "recovered"} => mid'[i] = 0
      /\ st'[i] = "removed" /\ origin'[i] = "user" => mid'[i] = 0
      /\ st'[i] = "sending" => mid'[i] # 0
  <2>1. CASE Worked(i)
    BY <2>1, WorkedShape DEF Worked, User
  <2>2. CASE Same(i)
    BY <1>1, <2>2 DEF Same, Shape, User
  <2>3. CASE Submitted(i)
    BY <1>1, <2>3 DEF Submitted, Shape
  <2>4. CASE Authored(i)
    BY <2>4 DEF Authored
  <2> QED BY <1>1, <2>1, <2>2, <2>3, <2>4 DEF RowMove
<1>5. st'[i] = "absent" => origin'[i] = "user"
  <2>1. st'[i] = "absent" => st[i] = "absent"
    BY RowStays
  <2>2. st'[i] = "absent" => Same(i)
    BY <2>1, RowStays DEF Submitted
  <2> QED BY <1>1, <2>1, <2>2 DEF Same, Shape, User
<1> QED BY <1>2, <1>3, <1>4, <1>5 DEF Shape, User

\* Current copies stay what they were.
LEMMA StaysKnows ==
    ASSUME IInv, ShapeInv, NEW q \in Proc, Stays(q)
    PROVE  Knows(q)'
<1>1. Knows(q)
  BY DEF ShapeInv
<1>2. \A i \in fresh'[q] : i \in fresh[q] /\ Same(i) /\ st[i] # "absent"
  BY <1>1 DEF Stays, Knows
<1>3. job'[q] \in fresh'[q] => Copy(q)'
  BY <1>1, <1>2 DEF Stays, Knows, Copy, Asked, Same, User
<1>4. mode'[q] = "stop" => \A i \in listed'[q] \cap fresh'[q] : Asked(i)'
  BY <1>1, <1>2 DEF Stays, Knows, Asked, Same
<1> QED BY <1>1, <1>2, <1>3, <1>4 DEF Stays, Knows, Same

\* The goroutine that moves knows its row afterwards.
LEMMA OwnKnows ==
    ASSUME IInv, ShapeInv, NEW p \in Proc, Own(p)
    PROVE  Knows(p)'
<1>1. Knows(p)
  BY DEF ShapeInv
<1>2. RowsSame => \A i \in Inputs : Same(i)
  BY DEF RowsSame, Same
<1>3. fresh[p] \subseteq Inputs /\ listed[p] \subseteq Inputs
  BY DEF IInv, TypeOK
<1>4. CASE Leaves(p)
  BY <1>4 DEF Leaves, Knows
<1>5. CASE Chooses(p)
  BY <1>1, <1>5 DEF Chooses, Quietly, RowsSame, Knows, Copy, Pending, User, Admitting
<1>6. CASE Begins(p)
  <2>1. job[p] \in Inputs
    BY <1>6 DEF Begins, IInv, JobInv
  <2>2. Shape(job[p])
    BY <2>1 DEF ShapeInv
  <2>3. pc'[p] = "status" => st[job[p]] = "queued"
    BY <1>6, <2>2 DEF Begins, Shape, Deliverable, Outstanding
  <2>4. pc'[p] = "message" => Asked(job[p])
    BY <1>6, <2>2 DEF Begins, Shape, Deliverable, Outstanding, Asked
  <2>5. st[job[p]] # "absent"
    BY <1>6, <2>3, <2>4 DEF Begins, Finished, Asked
  <2> QED
    BY <1>1, <1>6, <2>3, <2>4, <2>5 DEF Begins, RowsSame, Knows, Copy, Asked, Admitting, User
<1>7. CASE Proceeds(p)
  BY <1>1, <1>7 DEF Proceeds, Locally, Quietly, RowsSame, Knows, Copy, Asked, Admitting, User
<1>8. CASE Sends(p)
  BY <1>1, <1>8 DEF Sends, Knows, Copy, Admitting
<1>9. CASE Enters(p)
  <2>1. \A i \in ToReconcile : Asked(i)
    <3>1. \A i \in ToReconcile : i \in Inputs /\ Shape(i)
      BY DEF ToReconcile, ShapeInv
    <3> QED BY <3>1 DEF ToReconcile, Shape, Asked, IInv, TypeOK
  <2>2. \A i \in ToReconcile : Asked(i)' /\ st'[i] # "absent"
    BY <1>9, <2>1 DEF Enters, RowsSame, Asked
  <2> QED
    BY <1>9, <2>2 DEF Enters, Knows, Copy, Admitting
<1>10. CASE Visits(p)
  BY <1>1, <1>10 DEF Visits, Locally, Quietly, RowsSame, Knows, Copy, Asked, Admitting
<1>11. CASE Resolves(p)
  <2>1. \A i \in fresh'[p] : i \in fresh[p] /\ Same(i)
    BY <1>3, <1>11 DEF Resolves
  <2> QED
    BY <1>1, <1>11, <2>1 DEF Resolves, Knows, Copy, Asked, Admitting, Same
<1>12. CASE Breaks(p)
  BY <1>1, <1>12 DEF Breaks, Locally, Quietly, RowsSame, Knows, Copy, Asked, Admitting
<1>13. CASE Gauges(p)
  BY <1>1, <1>13 DEF Gauges, Quietly, RowsSame, Knows, Copy, Asked, Admitting
<1>14. CASE Recovers(p)
  BY <1>1, <1>14 DEF Recovers, Knows, Copy, Asked, Admitting, Same
<1> QED
  BY <1>4, <1>5, <1>6, <1>7, <1>8, <1>9, <1>10, <1>11, <1>12, <1>13, <1>14 DEF Own

\* Shapes and copies are kept by every step, whoever holds the lock.
LEMMA ShapeNext == IInv /\ ShapeInv /\ [Next]_vars => ShapeInv'
<1> SUFFICES ASSUME IInv, ShapeInv, [Next]_vars PROVE ShapeInv'
  OBVIOUS
<1>1. World
  BY WorldStep
<1>2. TurnInv'
  BY <1>1 DEF World, TurnInv, ShapeInv
<1>3. ASSUME NEW p \in Proc, Actor(p), Own(p) PROVE ShapeInv'
  <2>1. \A q \in Proc : Knows(q)'
    BY <1>3, StaysKnows, OwnKnows DEF Actor
  <2> QED BY <1>1, <1>2, <1>3, <2>1, ShapeStep DEF Actor, ShapeInv
<1>4. CASE Nobody
  BY <1>1, <1>2, <1>4, ShapeStep, StaysKnows DEF Nobody, ShapeInv
<1> QED BY <1>3, <1>4, Movers DEF ShapeInv

-----------------------------------------------------------------------------
(***************************************************************************)
(* Order among the messages of people.                                     *)
(***************************************************************************)
\* A message that waits and was not sent again by its author.
Blocks(i) == User(i) /\ st[i] \in {"queued", "sending", "failed"} /\ ~resume[i]

\* A follow-up that was not steered.
Follows(j) == User(j) /\ delivery[j] = "queue"

\* Nothing waits before a follow-up that has a message id, or is about to.
Cleared(p) ==
    pc[p] \in Admitting /\ job[p] \in fresh[p] /\ Follows(job[p]) =>
        \A i \in Inputs : i < job[p] => ~Blocks(i)

OrderInv ==
    /\ \A i, j \in Inputs : i < j /\ Follows(j) /\ mid[j] # 0 => ~Blocks(i)
    /\ \A p \in Proc : Cleared(p)

\* A row that exists begins to wait only when its author sends it again.
LEMMA BlocksBack ==
    ASSUME IInv, ShapeInv, NEW i \in Inputs, RowMove(i), Blocks(i)', st[i] # "absent"
    PROVE  Blocks(i)
<1>1. CASE Same(i) \/ Authored(i)
  BY <1>1 DEF Same, Authored, Blocks, User
<1>2. ASSUME NEW p \in Proc, Saved(p, i), Worked(i) PROVE Blocks(i)
  <2>1. Copy(p) /\ User(i) /\ ~resume[i]
    BY <1>2 DEF Saved, ShapeInv, Knows, Worked, Blocks, User
  <2>2. st[i] \in {"queued", "sending", "failed"}
    BY <1>2, <2>1 DEF Saved, Copy, Admitting, Asked
  <2> QED BY <2>1, <2>2 DEF Blocks
<1>3. ASSUME NEW p \in Proc, Ended(p, i), Worked(i) PROVE FALSE
  BY <1>3 DEF Ended, Worked, Blocks, User
<1>4. CASE Withdrawn(i)
  BY <1>4 DEF Withdrawn, Blocks
<1> QED BY <1>1, <1>2, <1>3, <1>4 DEF RowMove, Worked, Submitted

\* Only delivery allocates message ids.
LEMMA Allocated ==
    ASSUME IInv, ShapeInv, NEW i \in Inputs, RowMove(i), mid[i] = 0, mid'[i] # 0
    PROVE  \E p \in Proc : pc[p] = "send" /\ job[p] = i /\ i \in fresh[p]
BY DEF RowMove, Same, Submitted, Authored, Worked, Saved, Ended, Withdrawn

\* Rows that wait before another exist already.
LEMMA EarlierBlocks ==
    ASSUME IInv, ShapeInv, NEW i \in Inputs, NEW j \in Inputs, i < j, st[j] # "absent",
           RowMove(i), Blocks(i)'
    PROVE  Blocks(i)
<1>1. st[i] # "absent"
  BY DEF ShapeInv, Shape
<1> QED BY <1>1, BlocksBack

\* A message gets its id only after those that wait before it.
LEMMA MidOrder ==
    ASSUME IInv, ShapeInv, OrderInv, \A i \in Inputs : RowMove(i),
           NEW i \in Inputs, NEW j \in Inputs, i < j, Follows(j)', mid'[j] # 0
    PROVE  ~Blocks(i)'
<1> SUFFICES ASSUME Blocks(i)' PROVE FALSE
  OBVIOUS
<1>1. st[j] # "absent"
  BY RowStays DEF ShapeInv, Shape, Same, Submitted
<1>2. Blocks(i)
  BY <1>1, EarlierBlocks
<1>3. Follows(j)
  BY <1>1, RowStays DEF Follows, User
<1>4. mid[j] = 0
  BY <1>2, <1>3 DEF OrderInv
<1>5. PICK p \in Proc : pc[p] = "send" /\ job[p] = j /\ j \in fresh[p]
  BY <1>4, Allocated
<1> QED BY <1>2, <1>3, <1>5 DEF OrderInv, Cleared, Admitting

\* What a goroutine has cleared stays cleared while others move.
LEMMA StaysCleared ==
    ASSUME IInv, ShapeInv, OrderInv, \A i \in Inputs : RowMove(i),
           NEW q \in Proc, Stays(q)
    PROVE  Cleared(q)'
<1> SUFFICES ASSUME pc'[q] \in Admitting, job'[q] \in fresh'[q], Follows(job[q])',
                    NEW i \in Inputs, i < job[q], Blocks(i)'
             PROVE  FALSE
  BY DEF Cleared, Stays, Follows, User
<1>1. job[q] \in fresh[q] /\ job[q] \in Inputs /\ pc[q] \in Admitting
  BY DEF Stays, IInv, TypeOK
<1>2. st[job[q]] # "absent"
  BY <1>1 DEF ShapeInv, Knows
<1>3. Blocks(i)
  BY <1>1, <1>2, EarlierBlocks
<1>4. Follows(job[q])
  BY <1>1, <1>2 DEF Stays, Same, Follows, User
<1> QED BY <1>1, <1>3, <1>4 DEF OrderInv, Cleared

\* The head has no message of a person waiting before it.
LEMMA HeadFirst ==
    ASSUME IInv, NEW j \in Inputs, IsHead(j), Follows(j), ~Outstanding(j),
           NEW i \in Inputs, i < j
    PROVE  ~Blocks(i)
<1> SUFFICES ASSUME Blocks(i) PROVE FALSE
  OBVIOUS
<1>1. Waiting(i) /\ User(i) /\ i # j
  BY DEF Blocks, Waiting, Inputs
<1>2. HeadRank(j) < HeadRank(i) \/ (HeadRank(j) = HeadRank(i) /\ j < i)
  BY <1>1 DEF IsHead
<1>3. HeadRank(j) = 2
  BY DEF HeadRank, Follows
<1>4. HeadRank(i) \in {0, 1, 2}
  BY <1>1 DEF HeadRank
<1>5. ~(j < i)
  BY DEF Inputs
<1> QED BY <1>2, <1>3, <1>4, <1>5

\* A goroutine about to allocate an id has chosen the head of the queue.
LEMMA OwnCleared ==
    ASSUME IInv, ShapeInv, OrderInv, NEW p \in Proc, Own(p)
    PROVE  Cleared(p)'
<1>1. CASE Begins(p)
  <2> SUFFICES ASSUME pc'[p] = "status", Follows(job[p])', NEW i \in Inputs, i < job[p],
                      Blocks(i)'
               PROVE  FALSE
    BY <1>1 DEF Begins, Cleared, Follows, User, Admitting
  <2>1. job[p] \in Inputs /\ Shape(job[p])
    BY <1>1 DEF Begins, IInv, JobInv, ShapeInv
  <2>2. ~Outstanding(job[p])
    BY <1>1, <2>1 DEF Begins, Outstanding, Shape
  <2>3. Follows(job[p]) /\ Blocks(i)
    BY <1>1 DEF Begins, RowsSame, Follows, Blocks, User
  <2> QED BY <1>1, <2>1, <2>2, <2>3, HeadFirst DEF Begins
<1>2. CASE Proceeds(p) /\ pc[p] \in Admitting
  BY <1>2 DEF Proceeds, Locally, Quietly, RowsSame, OrderInv, Cleared, Follows, Blocks, User
<1>3. CASE pc'[p] \notin Admitting
  BY <1>3 DEF Cleared
<1> QED
  BY <1>1, <1>2, <1>3 DEF Own, Leaves, Chooses, Proceeds, Sends, Enters, Visits, Resolves,
     Breaks, Gauges, Recovers, Admitting

\* The order is kept by every step, whoever holds the lock.
LEMMA OrderNext == IInv /\ ShapeInv /\ OrderInv /\ [Next]_vars => OrderInv'
<1> SUFFICES ASSUME IInv, ShapeInv, OrderInv, [Next]_vars PROVE OrderInv'
  OBVIOUS
<1>1. ASSUME \A i \in Inputs : RowMove(i), \A p \in Proc : Cleared(p)' PROVE OrderInv'
  BY <1>1, MidOrder DEF OrderInv
<1>2. ASSUME NEW p \in Proc, Actor(p), Own(p) PROVE OrderInv'
  BY <1>1, <1>2, StaysCleared, OwnCleared DEF Actor
<1>3. CASE Nobody
  BY <1>1, <1>3, StaysCleared DEF Nobody
<1> QED BY <1>2, <1>3, Movers DEF ShapeInv

\* The second half of InOrder.
LEMMA NothingOvertakes ==
    ASSUME IInv, OrderInv
    PROVE  NoOvertaking
<1>1. \A j \in Inputs : hist[j] \cup flight[j] # {} => mid[j] # 0
  BY DEF IInv, IdInv, RowInv
<1> QED BY <1>1 DEF OrderInv, NoOvertaking, Follows, Blocks

-----------------------------------------------------------------------------
(***************************************************************************)
(* The lock, as long as it is not lost.                                    *)
(***************************************************************************)
\* The fate of a message of row i is open, and holds up the others.
Open(i) == Waiting(i) /\ Outstanding(i)

Held(p) ==
    /\ pc[p] \in Holding => lock = p
    /\ pc[p] \in Admitting => IsHead(job[p]) /\ ~stopping
    /\ pc[p] \in Admitting \cup {"prompt"} => job[p] \in fresh[p]
    /\ pc[p] = "prompt" => Waiting(job[p])
    /\ pc[p] = "complete" => ~User(job[p]) /\ Finished(job[p])

HoldInv ==
    /\ \A p \in Proc : Held(p)
    /\ \A i, j \in Inputs : Open(i) /\ Open(j) => i = j
    /\ \A i \in Inputs :
          ~User(i) /\ completed[i] /\ st[i] # "removed" => flight[i] = {}

\* Nothing else moves while a goroutine is under the lock, but the engine.
LEMMA Guarded ==
    ASSUME IInv, ShapeInv, HoldInv, World, losses' = losses,
           \A i \in Inputs : RowMove(i), NEW q \in Proc, pc[q] \in Holding, Stays(q)
    PROVE  /\ \A i \in Inputs : Same(i) /\ flight'[i] \subseteq flight[i]
           /\ lock' = q /\ fresh'[q] = fresh[q]
           /\ stopping' => stopping
           /\ Leased' => Leased
<1>1. lock = q /\ lock # None
  BY NoneAssumption DEF HoldInv, Held
<1>2. \A p \in Proc : pc[p] \in Holding => p = q
  BY <1>1 DEF HoldInv, Held
<1>3. pc'[q] = pc[q]
  BY DEF Stays
<1>4. \A i \in Inputs : ~Worked(i)
  BY <1>1, <1>2, <1>3 DEF Worked, Saved, Ended, Withdrawn, Holding
<1>5. \A i \in Inputs : Same(i)
  BY <1>1, <1>4 DEF RowMove, Submitted, Authored
<1>6. \A i \in Inputs : flight'[i] \subseteq flight[i]
  BY <1>2, <1>3 DEF World, Arrives, Holding
<1> QED BY <1>1, <1>2, <1>5, <1>6 DEF World, Stays

\* Ranks depend on the rows alone.
LEMMA HeadSame ==
    ASSUME \A i \in Inputs : Same(i), NEW j \in Inputs
    PROVE  /\ IsHead(j)' <=> IsHead(j)
           /\ Waiting(j)' <=> Waiting(j)
           /\ Outstanding(j)' <=> Outstanding(j)
           /\ User(j)' <=> User(j)
           /\ Finished(j)' <=> Finished(j)
           /\ ToReconcile' = ToReconcile
<1>1. \A i \in Inputs : Waiting(i)' <=> Waiting(i)
  BY DEF Waiting, Same, User
<1>2. \A i \in Inputs : HeadRank(i)' = HeadRank(i)
  BY DEF HeadRank, Outstanding, Same, User
<1>3. IsHead(j)' <=> IsHead(j)
  BY <1>1, <1>2 DEF IsHead
<1>4. ToReconcile' = ToReconcile
  BY DEF ToReconcile, Same, User
<1> QED BY <1>1, <1>3, <1>4 DEF Outstanding, Finished, Same, User

\* Under the lock, the row of a goroutine stays the head.
LEMMA StaysHeld ==
    ASSUME IInv, ShapeInv, HoldInv, World, losses' = losses,
           \A i \in Inputs : RowMove(i), NEW q \in Proc, Stays(q)
    PROVE  Held(q)'
<1>1. pc'[q] = pc[q] /\ job'[q] = job[q]
  BY DEF Stays
<1>2. CASE pc[q] \in Holding
  <2>1. /\ \A i \in Inputs : Same(i)
        /\ lock' = q /\ fresh'[q] = fresh[q] /\ (stopping' => stopping)
    BY <1>2, Guarded
  <2>2. pc[q] \in DeliverPCs => job[q] \in Inputs
    BY DEF IInv, JobInv
  <2>3. pc[q] \in DeliverPCs => /\ IsHead(job[q])' <=> IsHead(job[q])
                                /\ Waiting(job[q])' <=> Waiting(job[q])
                                /\ User(job[q])' <=> User(job[q])
                                /\ Finished(job[q])' <=> Finished(job[q])
    BY <1>1, <2>1, <2>2, HeadSame DEF IsHead, Waiting, User, Finished
  <2>4. Held(q)
    BY DEF HoldInv
  <2> QED BY <1>1, <2>1, <2>3, <2>4 DEF Held, Holding, Admitting
<1>3. CASE pc[q] \notin Holding
  BY <1>1, <1>3 DEF Held, Holding, Admitting
<1> QED BY <1>2, <1>3

\* The goroutine that moves still holds the head, or has left.
LEMMA OwnHeld ==
    ASSUME IInv, ShapeInv, HoldInv, NEW p \in Proc, Own(p)
    PROVE  Held(p)'
<1>0. Held(p) /\ Knows(p)
  BY DEF HoldInv, ShapeInv
<1>1. RowsSame => \A i \in Inputs : Same(i)
  BY DEF RowsSame, Same
<1>2. CASE Begins(p)
  <2>1. job[p] \in Inputs /\ job'[p] = job[p]
    BY <1>2 DEF Begins, IInv, JobInv
  <2>2. /\ IsHead(job[p])' <=> IsHead(job[p])
        /\ User(job[p])' <=> User(job[p])
        /\ Finished(job[p])' <=> Finished(job[p])
    BY <1>1, <1>2, <2>1, HeadSame DEF Begins, IsHead, User, Finished
  <2> QED BY <1>2, <2>1, <2>2 DEF Begins, Held, Holding, Admitting
<1>3. CASE Proceeds(p) /\ pc[p] \in Admitting
  <2>1. job[p] \in Inputs /\ job'[p] = job[p]
    BY <1>3 DEF Proceeds, IInv, JobInv, Admitting
  <2>2. IsHead(job[p])' <=> IsHead(job[p])
    BY <1>1, <1>3, <2>1, HeadSame DEF Proceeds, Quietly, IsHead
  <2> QED BY <1>0, <1>3, <2>1, <2>2 DEF Proceeds, Locally, Quietly, Held, Holding, Admitting
<1>4. CASE Sends(p)
  <2>1. job[p] \in Inputs /\ job'[p] = job[p]
    BY <1>4 DEF Sends, IInv, JobInv
  <2>2. Waiting(job[p])
    BY <1>0, <1>4 DEF Sends, Held, Admitting, IsHead
  <2>3. Waiting(job[p])'
    BY <1>4, <2>1, <2>2 DEF Sends, Waiting, User
  <2> QED BY <1>0, <1>4, <2>1, <2>3 DEF Sends, Held, Holding, Admitting
<1>5. CASE pc'[p] \notin Holding
  BY <1>5 DEF Held, Holding, Admitting
<1>6. CASE /\ pc'[p] \in StopPCs \cup ReconcilePCs
           /\ lock' = p \/ (pc[p] \in Holding /\ lock' = lock)
  BY <1>0, <1>6 DEF Held, Holding, Admitting
<1>7. CASE Proceeds(p) /\ pc[p] \notin Admitting
  BY <1>6, <1>7 DEF Proceeds, Quietly, Holding, Admitting
<1>8. CASE Enters(p) \/ Visits(p) \/ Resolves(p) \/ Breaks(p) \/ Gauges(p) \/ Recovers(p)
  BY <1>6, <1>8 DEF Enters, Visits, Resolves, Breaks, Gauges, Recovers, Quietly, Holding
<1>9. CASE Leaves(p) \/ Chooses(p)
  BY <1>5, <1>9 DEF Leaves, Chooses, Holding
<1> QED BY <1>2, <1>3, <1>4, <1>7, <1>8, <1>9 DEF Own

\* A row gets open only by the allocation of a message id.
LEMMA Opens ==
    ASSUME IInv, ShapeInv, NEW i \in Inputs, RowMove(i), Open(i)', ~Open(i)
    PROVE  \E p \in Proc : pc[p] = "send" /\ job[p] = i /\ pc'[p] # pc[p]
<1>1. Shape(i)
  BY DEF ShapeInv
<1>2. ~Same(i)
  BY DEF Same, Open, Waiting, Outstanding, User
<1>3. ~Submitted(i) /\ ~Authored(i)
  BY <1>1 DEF Submitted, Authored, Open, Waiting, Outstanding, Shape
<1>4. ~Withdrawn(i)
  BY DEF Withdrawn, Open, Outstanding
<1>5. Worked(i) /\ User(i)' = User(i)
  BY <1>2, <1>3 DEF RowMove, Worked, User
<1>6. ASSUME NEW p \in Proc, Ended(p, i) PROVE FALSE
  BY <1>5, <1>6 DEF Ended, Open, Waiting, User
<1>7. ASSUME NEW p \in Proc, Saved(p, i), pc[p] # "send" PROVE FALSE
  <2>1. CASE pc[p] = "picked"
    <3>1. Copy(p) /\ User(i)
      BY <1>7, <2>1 DEF Saved, ShapeInv, Knows
    <3>2. st[i] \in {"queued", "sending", "failed"} /\ mid'[i] = mid[i] /\ st'[i] = "failed"
      BY <1>7, <2>1, <3>1 DEF Saved, Copy
    <3>3. mid[i] # 0
      BY <3>2 DEF Open, Outstanding
    <3> QED BY <1>1, <3>1, <3>2, <3>3 DEF Shape, Open, Waiting, Outstanding
  <2>2. CASE pc[p] # "picked"
    BY <1>7, <2>2 DEF Saved, Open, Outstanding
  <2> QED BY <2>1, <2>2
<1>8. PICK p \in Proc : Saved(p, i)
  BY <1>4, <1>5, <1>6 DEF Worked
<1> QED BY <1>7, <1>8 DEF Saved

\* A head that has no message id has no open row beside it.
LEMMA HeadAlone ==
    ASSUME NEW a \in Inputs, NEW b \in Inputs, IsHead(a), st[a] = "queued", mid[a] = 0,
           Open(b)
    PROVE  FALSE
<1>1. a # b
  BY DEF Open, Outstanding
<1>2. HeadRank(a) < HeadRank(b) \/ (HeadRank(a) = HeadRank(b) /\ a < b)
  BY <1>1 DEF IsHead, Open
<1>3. HeadRank(b) = 0 /\ HeadRank(a) \in {1, 2, 3}
  BY DEF HeadRank, Open, Outstanding
<1> QED BY <1>2, <1>3

\* No step opens a second row, as long as the lock is not lost.
LEMMA OpenNext ==
    ASSUME IInv, ShapeInv, HoldInv, \A i \in Inputs : RowMove(i),
           NEW i \in Inputs, NEW j \in Inputs, Open(i)', Open(j)'
    PROVE  i = j
<1>1. ASSUME NEW a \in Inputs, NEW b \in Inputs, Open(a)', ~Open(a), Open(b), a # b
      PROVE  FALSE
  <2>1. PICK p \in Proc : pc[p] = "send" /\ job[p] = a
    BY <1>1, Opens
  <2>2. IsHead(a) /\ st[a] = "queued" /\ mid[a] = 0
    <3>1. IsHead(a) /\ a \in fresh[p]
      BY <2>1 DEF HoldInv, Held, Admitting
    <3>2. st[a] = "queued"
      BY <2>1, <3>1 DEF ShapeInv, Knows, Copy, Admitting
    <3> QED BY <3>1, <3>2 DEF ShapeInv, Shape
  <2> QED BY <1>1, <2>2, HeadAlone
<1>2. CASE Open(i) /\ Open(j)
  BY <1>2 DEF HoldInv
<1>3. CASE ~Open(i) /\ ~Open(j)
  <2>1. PICK p \in Proc : pc[p] = "send" /\ job[p] = i
    BY <1>3, Opens
  <2>2. PICK q \in Proc : pc[q] = "send" /\ job[q] = j
    BY <1>3, Opens
  <2>3. p = q
    BY <2>1, <2>2 DEF HoldInv, Held, Holding
  <2> QED BY <2>1, <2>2, <2>3
<1> QED BY <1>1, <1>2, <1>3

\* No step spends the head under a goroutine that works on it.
LEMMA SpentNext ==
    ASSUME IInv, ShapeInv, HoldInv, World, \A i \in Inputs : RowMove(i),
           NEW i \in Inputs, ~User(i)', completed'[i], st'[i] # "removed"
    PROVE  flight'[i] = {}
<1>1. Shape(i) /\ RowMove(i)
  BY DEF ShapeInv
<1>2. ~User(i) \/ Submitted(i)
  BY RowStays DEF User, RowMove, Same, Authored, Worked
<1>3. CASE Submitted(i) /\ User(i)
  <2>1. flight[i] = {}
    BY <1>1, <1>3 DEF Submitted, Shape, IInv, IdInv, RowInv
  <2>2. \A p \in Proc : pc[p] = "prompt" => job[p] # i
    BY <1>1, <1>3 DEF Submitted, Shape, IInv, IdInv, PromptInv
  <2> QED BY <2>1, <2>2 DEF World, Arrives
<1>4. CASE ~User(i) /\ completed[i]
  <2>1. st[i] # "removed"
    <3> SUFFICES ASSUME st[i] = "removed" PROVE FALSE
      OBVIOUS
    <3>1. ~Same(i) /\ ~Submitted(i) /\ ~Authored(i)
      BY DEF Same, Submitted, Authored
    <3>2. ASSUME NEW p \in Proc, Saved(p, i) PROVE FALSE
      BY <1>4, <3>2 DEF Saved, ShapeInv, Knows, Copy, Admitting, Asked
    <3> QED BY <1>1, <1>4, <3>1, <3>2 DEF RowMove, Worked, Ended, Withdrawn, Canceled, Recovered
  <2>2. flight[i] = {}
    BY <1>4, <2>1 DEF HoldInv
  <2>3. \A p \in Proc : pc[p] = "prompt" => job[p] # i
    BY <1>4 DEF HoldInv, Held, Waiting
  <2> QED BY <2>2, <2>3 DEF World, Arrives
<1>5. CASE ~User(i) /\ ~completed[i]
  <2>1. ~Same(i) /\ ~Submitted(i) /\ ~Authored(i) /\ ~Withdrawn(i)
    BY <1>1, <1>5 DEF Same, Submitted, Authored, Withdrawn, Shape
  <2>2. \A p \in Proc : ~Saved(p, i)
    BY <1>5 DEF Saved
  <2>3. PICK p \in Proc : Ended(p, i)
    BY <1>1, <2>1, <2>2 DEF RowMove, Worked
  <2>4. Finished(i) /\ lock = p
    BY <2>3 DEF Ended, HoldInv, Held, Holding
  <2>5. flight[i] = {}
    BY <1>1, <2>4 DEF Finished, Shape, IInv, IdInv, RowInv
  <2>6. \A q \in Proc : pc[q] = "prompt" => job[q] # i
    BY <2>3, <2>4 DEF HoldInv, Held, Holding, Ended
  <2> QED BY <2>5, <2>6 DEF World, Arrives
<1> QED BY <1>2, <1>3, <1>4, <1>5

\* The lock keeps its promise until it is lost.
LEMMA HoldNext ==
    IInv /\ ShapeInv /\ (losses = 0 => HoldInv) /\ [Next]_vars => (losses' = 0 => HoldInv')
<1> SUFFICES ASSUME IInv, ShapeInv, losses = 0 => HoldInv, [Next]_vars, losses' = 0
             PROVE  HoldInv'
  OBVIOUS
<1>1. World
  BY WorldStep
<1>2. losses' = losses /\ HoldInv
  BY <1>1 DEF World
<1>3. ASSUME \A i \in Inputs : RowMove(i), \A p \in Proc : Held(p)' PROVE HoldInv'
  BY <1>1, <1>2, <1>3, OpenNext, SpentNext DEF HoldInv
<1>4. ASSUME NEW p \in Proc, Actor(p), Own(p) PROVE HoldInv'
  BY <1>1, <1>2, <1>3, <1>4, StaysHeld, OwnHeld DEF Actor
<1>5. CASE Nobody
  BY <1>1, <1>2, <1>3, <1>5, StaysHeld DEF Nobody
<1> QED BY <1>4, <1>5, Movers DEF ShapeInv

-----------------------------------------------------------------------------
(***************************************************************************)
(* Stop.                                                                   *)
(***************************************************************************)
\* What settleChatStop knows.  A round that was good found every row resolved
\* and no lease; after the tick no turn is about to begin.
Settling(p) ==
    mode[p] = "stop" =>
        /\ \A i \in Inputs : User(i) /\ i \notin listed[p] => flight[i] = {}
        /\ settled[p] => listed[p] = {} /\ ~Leased
        /\ settled[p] /\ pc[p] # "wait" /\ OnlyQueued => turn # "pending"
        /\ pc[p] \in {"recover", "clear"} => settled[p] /\ (OnlyQueued => turn \notin Active)

StopInv == \A p \in Proc : Settling(p)

\* Notifications and prompts beside the queue leave their trace.
LEMMA OnlyBack ==
    ASSUME IInv, ShapeInv, World, \A i \in Inputs : RowMove(i), OnlyQueued'
    PROVE  OnlyQueued
<1>1. \A i \in Inputs : User(i)
  BY RowStays DEF OnlyQueued, User
<1> QED BY <1>1 DEF World, OnlyQueued

\* A row whose message is on its way has a message id, and is not resolved.
LEMMA FlightAsked ==
    ASSUME IInv, ShapeInv, NEW i \in Inputs, flight[i] # {}
    PROVE  Asked(i) \/ (~User(i) /\ st[i] = "removed" /\ mid[i] # 0)
<1>1. mid[i] # 0 /\ flight[i] = {mid[i]} /\ mid[i] \notin hist[i]
  BY DEF IInv, IdInv, RowInv, ShapeInv, Shape
<1>2. st[i] \in States
  BY DEF IInv, TypeOK
<1> QED BY <1>1, <1>2 DEF ShapeInv, Shape, Asked, IInv, IdInv, RowInv

\* What Stop has settled stays settled while the engine moves.
LEMMA StaysSettling ==
    ASSUME IInv, ShapeInv, HoldInv, StopInv, World, losses' = losses,
           \A i \in Inputs : RowMove(i), NEW q \in Proc, Stays(q)
    PROVE  Settling(q)'
<1> SUFFICES ASSUME mode[q] = "stop" PROVE Settling(q)'
  BY DEF Settling, Stays
<1>1. pc[q] \in Holding /\ Settling(q)
  BY DEF ShapeInv, Knows, Holding, StopInv
<1>2. /\ \A i \in Inputs : Same(i) /\ flight'[i] \subseteq flight[i]
      /\ Leased' => Leased
  BY <1>1, Guarded
<1>3. OnlyQueued' => OnlyQueued
  BY OnlyBack
<1>4. settled[q] /\ OnlyQueued /\ turn' \in Active =>
        turn \in Active /\ (turn' = "pending" => turn = "pending")
  BY <1>1 DEF Settling, World, Arrives, OnlyQueued
<1> QED BY <1>1, <1>2, <1>3, <1>4 DEF Settling, Stays, Same, User

\* Each of Stop's own steps settles one thing more.
LEMMA OwnSettling ==
    ASSUME IInv, IInv', ShapeInv, StopInv, World, \A i \in Inputs : RowMove(i),
           NEW p \in Proc, Own(p)
    PROVE  Settling(p)'
<1>0. Settling(p) /\ Knows(p)
  BY DEF StopInv, ShapeInv
<1>1. OnlyQueued' => OnlyQueued
  BY OnlyBack
<1>2. \A i \in Inputs : User(i)' => User(i)
  BY RowStays DEF User
<1>3. UNCHANGED direct => Leased' = Leased
  BY DEF Leased
<1>4. CASE mode'[p] # "stop"
  BY <1>4 DEF Settling
<1>5. CASE Leaves(p) \/ Chooses(p) \/ Begins(p) \/ Sends(p)
  BY <1>0, <1>4, <1>5 DEF Leaves, Chooses, Begins, Sends, Knows
<1>6. CASE Proceeds(p) /\ mode[p] = "stop"
  <2>1. pc[p] \in ReconcilePCs => ~settled[p]
    BY <1>0, <1>6 DEF Settling, Knows
  <2> QED
    BY <1>0, <1>1, <1>2, <1>3, <1>6, <2>1 DEF Proceeds, Locally, Quietly, Settling, Knows
<1>7. CASE Enters(p)
  <2>1. ASSUME NEW i \in Inputs, User(i), i \notin ToReconcile PROVE flight[i] = {}
    <3>1. ~Asked(i)
      BY <2>1 DEF ToReconcile, Asked
    <3> QED BY <2>1, <3>1, FlightAsked
  <2> QED BY <1>2, <1>7, <2>1 DEF Enters, Settling
<1>8. CASE Visits(p) \/ Breaks(p)
  <2>1. mode[p] = "stop" => ~settled[p]
    BY <1>0, <1>8 DEF Visits, Breaks, Settling, Knows
  <2> QED
    BY <1>0, <1>2, <1>3, <1>8, <2>1 DEF Visits, Breaks, Locally, Quietly, Settling
<1>9. CASE Resolves(p)
  <2>1. ~settled[p]
    BY <1>0, <1>9 DEF Resolves, Settling, Knows
  <2>2. job[p] \in Inputs => flight'[job[p]] = {}
    BY <1>9 DEF Resolves, ShapeInv, Shape, IInv, IdInv, RowInv
  <2>3. ASSUME NEW i \in Inputs, User(i)', i \notin listed'[p] PROVE flight'[i] = {}
    BY <1>0, <1>2, <1>9, <2>2, <2>3 DEF Resolves, Settling
  <2> QED BY <1>9, <2>1, <2>3 DEF Resolves, Settling
<1>10. CASE Gauges(p)
  BY <1>0, <1>1, <1>2, <1>3, <1>10 DEF Gauges, Quietly, Settling, Knows
<1>11. CASE Recovers(p)
  BY <1>0, <1>1, <1>2, <1>3, <1>11 DEF Recovers, Settling
<1> QED
  BY <1>4, <1>5, <1>6, <1>7, <1>8, <1>9, <1>10, <1>11 DEF Own, Proceeds, Locally

\* Stop's progress is kept by every step, as long as the lock is not lost.
LEMMA StopNext ==
    IInv /\ IInv' /\ ShapeInv /\ (losses = 0 => HoldInv /\ StopInv) /\ [Next]_vars
    => (losses' = 0 => StopInv')
<1> SUFFICES ASSUME IInv, IInv', ShapeInv, losses = 0 => HoldInv /\ StopInv, [Next]_vars,
                    losses' = 0
             PROVE  StopInv'
  OBVIOUS
<1>1. World
  BY WorldStep
<1>2. losses' = losses /\ HoldInv /\ StopInv
  BY <1>1 DEF World
<1>3. ASSUME NEW p \in Proc, Actor(p), Own(p) PROVE StopInv'
  BY <1>1, <1>2, <1>3, StaysSettling, OwnSettling DEF Actor, StopInv
<1>4. CASE Nobody
  BY <1>1, <1>2, <1>4, StaysSettling DEF Nobody, StopInv
<1> QED BY <1>3, <1>4, Movers DEF ShapeInv

\* The barrier: nothing is admitted under it, and what holds when it falls.
LEMMA StopStep ==
    ASSUME IInv, ShapeInv, losses = 0 => HoldInv /\ StopInv, [Next]_vars,
           stopping, losses = 0
    PROVE  /\ \A i \in Inputs : st'[i] = "sending" => st[i] = "sending"
           /\ ~stopping' =>
                 /\ \A i \in Inputs : User(i) => flight[i] = {}
                 /\ \A d \in Direct : direct[d] \notin {"leased", "served"}
                 /\ OnlyQueued => turn \notin Active
<1>1. HoldInv /\ StopInv /\ World
  BY WorldStep
<1>2. \A i \in Inputs : RowMove(i)
  BY Movers DEF ShapeInv, Actor, Nobody
<1>3. ASSUME NEW i \in Inputs, st'[i] = "sending" PROVE st[i] = "sending"
  <2>1. \A p \in Proc : Saved(p, i) => pc[p] # "send"
    BY <1>1 DEF HoldInv, Held, Admitting
  <2> QED
    BY <1>2, <1>3, <2>1 DEF RowMove, Same, Submitted, Authored, Worked, Saved, Ended, Withdrawn
<1>4. ASSUME ~stopping'
      PROVE  /\ \A i \in Inputs : User(i) => flight[i] = {}
             /\ \A d \in Direct : direct[d] \notin {"leased", "served"}
             /\ OnlyQueued => turn \notin Active
  <2>1. PICK p \in Proc : pc[p] = "clear"
    BY <1>1, <1>4 DEF World
  <2>2. mode[p] = "stop"
    BY <2>1 DEF ShapeInv, Knows
  <2> QED BY <1>1, <2>1, <2>2 DEF StopInv, Settling, Leased
<1> QED BY <1>3, <1>4

-----------------------------------------------------------------------------
(***************************************************************************)
(* Follow-ups and unfinished turns.                                        *)
(***************************************************************************)
\* Neither while a follow-up is on its way, nor between the reading of the
\* history and its prompt, is a turn under way.
InjectInv ==
    Alone =>
        /\ \A i \in Inputs : flight[i] # {} /\ delivery[i] = "queue" => turn \notin Active
        /\ \A p \in Proc :
              pc[p] \in {"lease", "send", "prompt"} /\ delivery[job[p]] = "queue"
              => turn \notin Active

\* Whoever starts turns beside the queue leaves a trace.
LEMMA AloneBack ==
    ASSUME IInv, ShapeInv, HoldInv, World, \A i \in Inputs : RowMove(i), Alone'
    PROVE  Alone
<1>1. ASSUME NEW i \in Inputs, ~User(i), st[i] = "removed", mid[i] # 0 PROVE FALSE
  <2>1. ~Submitted(i) /\ ~Authored(i)
    BY <1>1 DEF Submitted, Authored
  <2>2. \A p \in Proc : ~Saved(p, i)
    BY <1>1 DEF Saved, ShapeInv, Knows, Copy, Admitting, Asked
  <2>3. \A p \in Proc : ~Ended(p, i)
    BY <1>1 DEF Ended, HoldInv, Held, Finished
  <2>4. Same(i) \/ (Worked(i) /\ Withdrawn(i))
    BY <2>1, <2>2, <2>3 DEF RowMove, Worked
  <2>5. ~User(i)' /\ st'[i] = "removed" /\ mid'[i] # 0
    BY <1>1, <2>4 DEF Same, Worked, Withdrawn, Recovered, User
  <2> QED BY <2>5 DEF Alone, Canceling
<1> QED BY <1>1 DEF Alone, Canceling, World

\* A message on its way belongs to an open row, as long as Stop is alone.
LEMMA FlightOpen ==
    ASSUME IInv, ShapeInv, HoldInv, Alone, NEW i \in Inputs, flight[i] # {}
    PROVE  Open(i)
<1>1. Asked(i)
  BY FlightAsked DEF Alone, Canceling
<1>2. User(i) \/ ~completed[i]
  BY <1>1 DEF HoldInv, Asked
<1> QED BY <1>1, <1>2 DEF Asked, Open, Waiting, Outstanding

\* At the prompt the row is open, and nothing of it is on its way.
LEMMA PromptOpen ==
    ASSUME IInv, ShapeInv, HoldInv, NEW p \in Proc, pc[p] = "prompt"
    PROVE  job[p] \in Inputs /\ Open(job[p]) /\ flight[job[p]] = {} /\ mid[job[p]] # 0
<1>1. job[p] \in Inputs /\ flight[job[p]] = {} /\ mid[job[p]] # 0
  BY DEF IInv, JobInv, IdInv, PromptInv
<1>2. st[job[p]] = "sending" /\ Waiting(job[p])
  BY DEF HoldInv, Held, ShapeInv, Knows, Copy
<1> QED BY <1>1, <1>2 DEF Open, Outstanding

\* When a turn begins, the message of the one open row has arrived.
LEMMA Rises ==
    ASSUME IInv, ShapeInv, HoldInv, Alone, World, turn' \in Active, turn \notin Active
    PROVE  \E i \in Inputs : Open(i) /\ flight[i] # {} /\ flight'[i] = {}
<1>1. PICK i \in Inputs : Arrives(i)
  BY DEF World, Alone
<1>2. flight[i] # {} /\ flight'[i] = {}
  BY <1>1 DEF Arrives, IInv, IdInv, RowInv
<1> QED BY <1>2, FlightOpen

\* A follow-up on its way finds no unfinished turn.
LEMMA FlightNext ==
    ASSUME IInv, ShapeInv, HoldInv, InjectInv, Alone, World, \A i \in Inputs : RowMove(i),
           NEW i \in Inputs, flight'[i] # {}, delivery'[i] = "queue"
    PROVE  turn' \notin Active
<1> SUFFICES ASSUME turn' \in Active PROVE FALSE
  OBVIOUS
<1>1. flight[i] # {} \/ \E p \in Proc : pc[p] = "prompt" /\ job[p] = i
  BY DEF World, Arrives
<1>2. mid[i] # 0 /\ Open(i)
  BY <1>1, FlightOpen, PromptOpen DEF IInv, IdInv, RowInv
<1>3. delivery[i] = "queue"
  BY <1>2, RowStays DEF ShapeInv, Shape
<1>4. turn \notin Active
  BY <1>1, <1>3 DEF InjectInv
<1>5. PICK j \in Inputs : Open(j) /\ flight[j] # {} /\ flight'[j] = {}
  BY <1>4, Rises
<1>6. i = j
  BY <1>2, <1>5 DEF HoldInv
<1> QED BY <1>5, <1>6

\* Nobody else starts a turn between a goroutine's look at it and its prompt.
LEMMA StaysInject ==
    ASSUME IInv, ShapeInv, HoldInv, InjectInv, Alone, World, losses' = losses,
           \A i \in Inputs : RowMove(i), NEW q \in Proc, Stays(q),
           pc'[q] \in {"lease", "send", "prompt"}, delivery'[job'[q]] = "queue"
    PROVE  turn' \notin Active
<1> SUFFICES ASSUME turn' \in Active PROVE FALSE
  OBVIOUS
<1>1. pc[q] \in {"lease", "send", "prompt"} /\ job'[q] = job[q] /\ job[q] \in Inputs
  BY DEF Stays, IInv, JobInv
<1>2. delivery[job[q]] = "queue"
  BY <1>1, Guarded DEF Holding, Same
<1>3. turn \notin Active
  BY <1>1, <1>2 DEF InjectInv
<1>4. PICK j \in Inputs : Open(j) /\ flight[j] # {}
  BY <1>3, Rises
<1>5. CASE pc[q] = "prompt"
  BY <1>4, <1>5, PromptOpen DEF HoldInv
<1>6. CASE pc[q] \in {"lease", "send"}
  <2>1. IsHead(job[q]) /\ st[job[q]] = "queued"
    BY <1>6 DEF HoldInv, Held, ShapeInv, Knows, Copy, Admitting
  <2>2. mid[job[q]] = 0
    BY <1>1, <2>1 DEF ShapeInv, Shape
  <2> QED BY <1>1, <1>4, <2>1, <2>2, HeadAlone
<1> QED BY <1>1, <1>5, <1>6

\* The goroutine that moves has seen the turn finished.
LEMMA OwnInject ==
    ASSUME IInv, InjectInv, Alone, NEW p \in Proc, Own(p),
           pc'[p] \in {"lease", "send", "prompt"}, delivery'[job'[p]] = "queue"
    PROVE  turn' \notin Active
<1>1. CASE Proceeds(p)
  <2>1. delivery[job[p]] = "queue" /\ (turn' = turn \/ turn' \notin Active)
    BY <1>1 DEF Proceeds, Quietly, RowsSame
  <2>2. \/ pc[p] = "history" /\ turn \notin Active
        \/ pc[p] = "lease"
    BY <1>1, <2>1 DEF Proceeds
  <2> QED BY <2>1, <2>2 DEF InjectInv
<1>2. CASE Sends(p)
  BY <1>2 DEF Sends, InjectInv
<1> QED
  BY <1>1, <1>2 DEF Own, Leaves, Chooses, Begins, Enters, Visits, Resolves, Breaks, Gauges,
     Recovers

\* No step brings a follow-up and an unfinished turn together.
LEMMA InjectNext ==
    IInv /\ ShapeInv /\ (losses = 0 => HoldInv /\ InjectInv) /\ [Next]_vars
    => (losses' = 0 => InjectInv')
<1> SUFFICES ASSUME IInv, ShapeInv, losses = 0 => HoldInv /\ InjectInv, [Next]_vars,
                    losses' = 0, Alone'
             PROVE  /\ \A i \in Inputs :
                          flight'[i] # {} /\ delivery'[i] = "queue" => turn' \notin Active
                    /\ \A p \in Proc :
                          pc'[p] \in {"lease", "send", "prompt"} /\ delivery'[job'[p]] = "queue"
                          => turn' \notin Active
  BY DEF InjectInv
<1>1. World
  BY WorldStep
<1>2. losses' = losses /\ HoldInv /\ InjectInv
  BY <1>1 DEF World
<1>3. \A i \in Inputs : RowMove(i)
  BY Movers DEF ShapeInv, Actor, Nobody
<1>4. Alone
  BY <1>1, <1>2, <1>3, AloneBack
<1>5. \A i \in Inputs : flight'[i] # {} /\ delivery'[i] = "queue" => turn' \notin Active
  BY <1>1, <1>2, <1>3, <1>4, FlightNext
<1>6. \A q \in Proc : Stays(q) \/ Own(q)
  BY Movers DEF ShapeInv, Actor, Nobody
<1>7. ASSUME NEW p \in Proc, pc'[p] \in {"lease", "send", "prompt"}, delivery'[job'[p]] = "queue"
      PROVE  turn' \notin Active
  BY <1>1, <1>2, <1>3, <1>4, <1>6, <1>7, StaysInject, OwnInject
<1> QED BY <1>5, <1>7

\* What is stored into an unfinished turn was no follow-up.
LEMMA InjectStep ==
    ASSUME IInv, ShapeInv, losses = 0 => HoldInv /\ InjectInv, [Next]_vars, losses = 0, Alone,
           NEW i \in Inputs, hist'[i] # hist[i], delivery[i] = "queue"
    PROVE  turn \notin Active
<1>1. World
  BY WorldStep
<1>2. flight[i] # {}
  BY <1>1 DEF World, Arrives
<1> QED BY <1>2 DEF InjectInv

-----------------------------------------------------------------------------
\* Everything holds of an empty queue.
LEMMA QueueInit == ASSUME Init PROVE ShapeInv /\ OrderInv /\ HoldInv /\ StopInv /\ InjectInv
<1>1. ShapeInv
  BY DEF Init, ShapeInv, Shape, Knows, Copy, Asked, TurnInv, User, Admitting
<1>2. OrderInv
  BY DEF Init, OrderInv, Cleared, Admitting
<1>3. HoldInv
  BY DEF Init, HoldInv, Held, Holding, Admitting, Open, Waiting
<1>4. StopInv
  BY DEF Init, StopInv, Settling
<1>5. InjectInv
  BY DEF Init, InjectInv
<1> QED BY <1>1, <1>2, <1>3, <1>4, <1>5

QueueInv == ShapeInv /\ OrderInv /\ (losses = 0 => HoldInv /\ StopInv /\ InjectInv)

\* The invariant of the queue holds of every behaviour.
LEMMA QueueInvariance == Spec => [](IInv /\ QueueInv)
<1>1. Init => QueueInv
  BY QueueInit DEF QueueInv
<1>2. IInv /\ IInv' /\ QueueInv /\ [Next]_vars => QueueInv'
  BY ShapeNext, OrderNext, HoldNext, StopNext, InjectNext DEF QueueInv
<1> QED BY <1>1, <1>2, Inductive, PTL DEF Spec

\* Messages go out one at a time as long as the lock is not lost, and a
\* follow-up never overtakes what waits before it, with or without the lock.
THEOREM KeepsOrder == Spec => []InOrder
<1>1. IInv /\ QueueInv => OneOutstanding
  BY DEF QueueInv, HoldInv, Open, OneOutstanding
<1>2. IInv /\ QueueInv => NoOvertaking
  BY NothingOvertakes DEF QueueInv
<1> QED BY <1>1, <1>2, QueueInvariance, PTL DEF InOrder

\* As long as the lock is not lost nothing is admitted under the barrier, and
\* when it comes down nothing is left that could start a run.
THEOREM StopKeepsPromise == Spec => StopHolds
<1>1. IInv /\ QueueInv /\ [Next]_vars =>
        [stopping /\ losses = 0 =>
          /\ \A i \in Inputs : st'[i] = "sending" => st[i] = "sending"
          /\ ~stopping' =>
                /\ \A i \in Inputs : User(i) => flight[i] = {}
                /\ \A d \in Direct : direct[d] \notin {"leased", "served"}
                /\ OnlyQueued => turn \notin Active]_vars
  BY StopStep DEF QueueInv
<1> QED BY <1>1, QueueInvariance, PTL DEF Spec, StopHolds

\* A follow-up is never stored into an unfinished turn, as long as the lock is
\* not lost and nobody starts turns beside the queue.
THEOREM NeverInjects == Spec => NoInjection
<1>1. IInv /\ QueueInv /\ [Next]_vars =>
        [losses = 0 /\ Alone =>
          \A i \in Inputs :
              hist'[i] # hist[i] /\ delivery[i] = "queue" => turn \notin Active]_vars
  BY InjectStep DEF QueueInv
<1> QED BY <1>1, QueueInvariance, PTL DEF Spec, NoInjection
=============================================================================
