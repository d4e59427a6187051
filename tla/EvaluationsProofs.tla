------------------------- MODULE EvaluationsProofs -------------------------
(***************************************************************************)
(* Proofs that judgments are kept, that a run is started only with them    *)
(* saved, that no run is started twice, that no more executions are at     *)
(* work than there are slots, and that an evaluation ends with nothing at  *)
(* work, for any number of replicas, executions, slots and mishaps.        *)
(*                                                                         *)
(* IInv says of each worker how its copy of the executions relates to the  *)
(* row while the row is its own; QInv, proved on top of it, what that copy *)
(* says of the runs and judges there are, in the order of the executions.  *)
(***************************************************************************)
EXTENDS Evaluations, FiniteSetTheorems, TLAPS

\* While no pass outlived its lease, a worker that works has the row.
Held(w) == Prompt /\ pc[w] # "idle" => holder = w /\ leased

\* A row that a worker has, or had last, is open.
RowOpen(w) == holder = w => row \in {"queued", "running"}

\* A judge works on an execution that waits for judgment.
JudgeOK(w) == \A i \in Execs : judge[w][i] # "none" =>
                 res[w][i].state = "judging" /\ pc[w] \notin {"idle", "cancel"}

\* Who has the row knows its judgments ...
Knows(w) == holder = w /\ pc[w] # "idle" =>
               \A i \in Execs : saved[i].state = "completed" => res[w][i].state = "completed"

\* ... and has saved its own before it looks at runs.
HasSaved(w) == Prompt /\ pc[w] \in {"runs", "create", "wait"} =>
                  \A i \in Execs : res[w][i].state = "completed" => saved[i].state = "completed"

\* What it takes for queued is queued in the row.
Queued(w) == Prompt /\ pc[w] # "idle" =>
                \A i \in Execs : res[w][i].state = "queued" => saved[i].state = "queued"

\* It creates the run of a queued execution.
Creating(w) == pc[w] = "create" => k[w] \in Execs /\ res[w][k[w]].state = "queued"

Good(w) == Held(w) /\ RowOpen(w) /\ JudgeOK(w) /\ Knows(w) /\ HasSaved(w) /\ Queued(w) /\ Creating(w)

IInv == TypeOK /\ \A w \in Workers : Good(w)

-----------------------------------------------------------------------------
(* What steps have in common *)

\* A mishap only makes a behaviour less prompt.
LEMMA Spending ==
    ASSUME spent \in [Kinds -> Nat],
           (\E kind \in Kinds : Spend(kind)) \/ UNCHANGED spent
    PROVE  spent' \in [Kinds -> Nat] /\ (Prompt' => Prompt)
<1>1. CASE UNCHANGED spent
  BY <1>1 DEF Prompt
<1>2. ASSUME NEW kind \in Kinds, Spend(kind)
      PROVE  spent' \in [Kinds -> Nat] /\ (Prompt' => Prompt)
  <2>1. spent' = [spent EXCEPT ![kind] = spent[kind] + 1]
    BY <1>2 DEF Spend
  <2>2. spent[kind] \in Nat /\ spent["slow"] \in Nat
    BY DEF Kinds
  <2>. QED
    BY <2>1, <2>2 DEF Prompt, Kinds
<1>. QED
  BY <1>1, <1>2

\* The kinds of mishap.
LEMMA KindsOf == {"loss", "fault", "slow", "access", "rejudge", "kill"} = Kinds
  BY DEF Kinds

\* A worker that does nothing keeps its part of the invariant when nobody
\* touches the row, or when the row was not its own and is not afterwards.
LEMMA Stays ==
    ASSUME NEW v \in Workers, Good(v),
           pc'[v] = pc[v], k'[v] = k[v], res'[v] = res[v], judge'[v] = judge[v],
           Prompt' => Prompt,
           \/ UNCHANGED <<row, saved, holder, leased>>
           \/ holder' # v /\ (holder # v \/ ~leased)
    PROVE  Good(v)'
<1>1. CASE UNCHANGED <<row, saved, holder, leased>>
  BY <1>1 DEF Good, Held, RowOpen, JudgeOK, Knows, HasSaved, Queued, Creating
<1>2. CASE holder' # v /\ (holder # v \/ ~leased)
  <2>1. Prompt' => pc[v] = "idle"
    BY <1>2 DEF Good, Held
  <2>. QED
    BY <1>2, <2>1 DEF Good, Held, RowOpen, JudgeOK, Knows, HasSaved, Queued, Creating
<1>. QED
  BY <1>1, <1>2

\* Moving one worker leaves the others where they are.
LEMMA Moved ==
    ASSUME NEW p \in Procs, NEW place \in Places, pc \in [Procs -> Places], Goto(p, place)
    PROVE  /\ pc' \in [Procs -> Places] /\ pc'[p] = place
           /\ \A q \in Procs \ {p} : pc'[q] = pc[q]
  BY DEF Goto

\* Workers are processes.
LEMMA AreProcs == Workers \subseteq Procs /\ Cleaners \subseteq Procs
  BY DEF Procs

\* Nobody is a worker and a cleaner.
LEMMA Apart == \A c \in Cleaners : c \notin Workers
  BY ConstantsAssumption

\* What Step does to the copy of a worker.
LEMMA Stepped ==
    ASSUME NEW w \in Workers, NEW i \in Execs, NEW state \in States,
           res \in [Workers -> [Execs -> Execution]], k \in [Workers -> 1 .. N + 1],
           Step(w, i, state)
    PROVE  /\ res' \in [Workers -> [Execs -> Execution]] /\ k' \in [Workers -> 1 .. N + 1]
           /\ res'[w][i].state = state
           /\ \A j \in Execs \ {i} : res'[w][j] = res[w][j]
           /\ \A v \in Workers \ {w} : res'[v] = res[v] /\ k'[v] = k[v]
<1>1. res' = [res EXCEPT ![w] = [res[w] EXCEPT ![i] = [res[w][i] EXCEPT !.state = state]]]
  BY DEF Step
<1>2. k' = [k EXCEPT ![w] = i + 1]
  BY DEF Step
<1>3. i + 1 \in 1 .. N + 1
  BY ConstantsAssumption DEF Execs
<1>4. res[w] \in [Execs -> Execution] /\ res[w][i] \in Execution
  OBVIOUS
<1>5. [res[w][i] EXCEPT !.state = state] \in Execution /\ [res[w][i] EXCEPT !.state = state].state = state
  BY <1>4 DEF Execution
<1>. QED
  BY <1>1, <1>2, <1>3, <1>4, <1>5

\* What Cleared does.
LEMMA Clearing ==
    ASSUME NEW w \in Workers, Cleared(w),
           res \in [Workers -> [Execs -> Execution]], k \in [Workers -> 1 .. N + 1]
    PROVE  /\ res' \in [Workers -> [Execs -> Execution]] /\ k' \in [Workers -> 1 .. N + 1]
           /\ \A v \in Workers \ {w} : res'[v] = res[v] /\ k'[v] = k[v]
<1>1. Fresh \in Execution
  BY DEF Fresh, Execution, States
<1>2. 1 \in 1 .. N + 1
  BY ConstantsAssumption
<1>. QED
  BY <1>1, <1>2 DEF Cleared

\* An idle worker without judges has no more to keep than an open row.
LEMMA Rests ==
    ASSUME NEW w \in Workers, pc'[w] = "idle", judge'[w] = NoJudges, RowOpen(w)'
    PROVE  Good(w)'
  BY DEF Good, Held, RowOpen, JudgeOK, Knows, HasSaved, Queued, Creating, NoJudges

-----------------------------------------------------------------------------
(* What every step does *)

\* Judgments in the row stay, but for a request to judge again.
Keeps == \A i \in Execs : saved[i].state = "completed" /\ saved'[i].state # "completed"
            => row = "completed" /\ row' = "queued"

\* No run is started whose start is in the row.
Once == \A i \in Execs : Prompt /\ saved[i].state # "queued" => ~Starts(i)

Effect == Keeps /\ Once

\* A step that touches neither the executions of the row nor the runs has no
\* effect.
LEMMA Harmless ==
    ASSUME UNCHANGED <<saved, run>>
    PROVE  Effect
  BY DEF Effect, Keeps, Once, Starts

\* RunEvaluationSave by a worker at work keeps the judgments.
LEMMA Saving ==
    ASSUME NEW w \in Workers, NEW state, IInv, pc[w] # "idle", Saved(w, state), UNCHANGED run
    PROVE  Effect /\ saved' \in [Execs -> Execution] /\ holder = w
<1>1. Good(w) /\ holder = w /\ saved' = res[w]
  BY DEF IInv, Saved
<1>2. Keeps
  BY <1>1 DEF Keeps, Good, Knows
<1>3. Once
  BY DEF Once, Starts
<1>. QED
  BY <1>1, <1>2, <1>3 DEF Effect, IInv, TypeOK

\* A run that the API server creates.
LEMMA Starting ==
    ASSUME NEW i \in Execs, TypeOK, Started(i)
    PROVE  /\ run' \in [Execs -> {"none", "active", "ended", "bare"}]
           /\ dying' \in SUBSET Owned' /\ late' \in SUBSET Owned'
           /\ \A j \in Execs \ {i} : ~Starts(j)
<1>1. CASE run[i] = "none"
  <2>1. run' = [run EXCEPT ![i] = "active"] /\ UNCHANGED <<dying, late>>
    BY <1>1 DEF Started
  <2>2. Owned \subseteq Owned'
    BY <2>1 DEF Owned, TypeOK
  <2>. QED
    BY <2>1, <2>2 DEF TypeOK, Starts
<1>2. CASE run[i] # "none"
  BY <1>2 DEF Started, cluster, TypeOK, Owned, Starts
<1>. QED
  BY <1>1, <1>2

-----------------------------------------------------------------------------
(* Requests and the lease *)

\* CreateWorkflowEvaluation keeps the invariant.
LEMMA CreateStep ==
    ASSUME IInv, CreateWorkflowEvaluation
    PROVE  IInv' /\ Effect
<1>. USE DEF CreateWorkflowEvaluation, request, local, cluster, agent
<1>1. TypeOK'
  BY DEF IInv, TypeOK, Owned
<1>2. Effect
  BY Harmless
<1>3. ASSUME NEW v \in Workers PROVE Good(v)'
  BY <1>3 DEF IInv, Good, Held, RowOpen, JudgeOK, Knows, HasSaved, Queued, Creating, Prompt
<1>. QED
  BY <1>1, <1>2, <1>3 DEF IInv

\* DeleteWorkflowEvaluation keeps the invariant.
LEMMA DeleteStep ==
    ASSUME IInv, DeleteWorkflowEvaluation
    PROVE  IInv' /\ Effect
<1>. USE DEF DeleteWorkflowEvaluation, request, local, cluster, agent
<1>1. TypeOK'
  BY DEF IInv, TypeOK, Owned
<1>2. Effect
  BY Harmless
<1>3. ASSUME NEW v \in Workers PROVE Good(v)'
  BY <1>3, Stays DEF IInv, Prompt
<1>. QED
  BY <1>1, <1>2, <1>3 DEF IInv

\* UpdateWorkflowEvaluation keeps the invariant: no worker has a completed row.
LEMMA UpdateStep ==
    ASSUME IInv, UpdateWorkflowEvaluation
    PROVE  IInv' /\ Effect
<1>1. /\ row = "completed" /\ row' = "queued" /\ Spend("rejudge")
      /\ UNCHANGED <<deleting, holder, leased, request, pc, local, judge, cluster, agent>>
  BY DEF UpdateWorkflowEvaluation
<1>2. spent' \in [Kinds -> Nat] /\ (Prompt' => Prompt)
  BY <1>1, Spending, KindsOf DEF IInv, TypeOK
<1>3. saved' \in [Execs -> Execution]
  <2>1. ASSUME NEW e \in Execution PROVE [e EXCEPT !.state = "judging"] \in Execution
    BY DEF Execution, States
  <2>2. saved \in [Execs -> Execution]
    BY DEF IInv, TypeOK
  <2>. QED
    BY <2>1, <2>2 DEF UpdateWorkflowEvaluation
<1>4. TypeOK'
  BY <1>1, <1>2, <1>3 DEF IInv, TypeOK, Owned, request, local, cluster, agent
<1>5. Effect
  BY <1>1 DEF Effect, Keeps, Once, Starts, cluster
<1>6. ASSUME NEW v \in Workers PROVE Good(v)'
  <2>1. holder # v
    BY <1>1, <1>6 DEF IInv, Good, RowOpen
  <2>. QED
    BY <1>1, <1>2, <1>6, <2>1, Stays DEF IInv, local
<1>. QED
  BY <1>4, <1>5, <1>6 DEF IInv

\* Expire keeps the invariant: the row is with nobody who works.
LEMMA ExpireStep ==
    ASSUME IInv, Expire
    PROVE  IInv' /\ Effect
<1>. USE DEF Expire, request, local, cluster, agent
<1>1. TypeOK'
  BY DEF IInv, TypeOK, Owned
<1>2. Effect
  BY Harmless
<1>3. ASSUME NEW v \in Workers PROVE Good(v)'
  <2>1. CASE holder = v
    BY <1>3, <2>1 DEF IInv, Good, Held, RowOpen, JudgeOK, Knows, HasSaved, Queued, Creating
  <2>2. CASE holder # v
    BY <1>3, <2>2, Stays DEF IInv, Prompt
  <2>. QED
    BY <2>1, <2>2
<1>. QED
  BY <1>1, <1>2, <1>3 DEF IInv

\* Outlive keeps the invariant: the behaviour is no longer prompt.
LEMMA OutliveStep ==
    ASSUME IInv, Outlive
    PROVE  IInv' /\ Effect
<1>1. /\ Spend("slow") /\ leased' = FALSE
      /\ UNCHANGED <<row, saved, deleting, holder, request, pc, local, judge, cluster, agent>>
  BY DEF Outlive
<1>2. spent' \in [Kinds -> Nat]
  BY <1>1, Spending, KindsOf DEF IInv, TypeOK
<1>3. ~Prompt'
  <2>1. spent["slow"] \in Nat /\ "slow" \in Kinds /\ spent \in [Kinds -> Nat]
    BY DEF IInv, TypeOK, Kinds
  <2>. QED
    BY <1>1, <2>1 DEF Prompt, Spend
<1>4. TypeOK'
  BY <1>1, <1>2 DEF IInv, TypeOK, Owned, request, local, cluster, agent
<1>5. Effect
  BY <1>1, Harmless DEF cluster
<1>6. ASSUME NEW v \in Workers PROVE Good(v)'
  BY <1>1, <1>3, <1>6 DEF IInv, Good, Held, RowOpen, JudgeOK, Knows, HasSaved, Queued, Creating, local
<1>. QED
  BY <1>4, <1>5, <1>6 DEF IInv

\* Claim keeps the invariant: the copy is the row.
LEMMA ClaimStep ==
    ASSUME NEW w \in Workers, IInv, Claim(w)
    PROVE  IInv' /\ Effect
<1>1. /\ row \in {"queued", "running"} /\ pc[w] = "idle" /\ ~leased
      /\ holder' = w /\ leased' = TRUE
      /\ res' = [res EXCEPT ![w] = saved] /\ k' = [k EXCEPT ![w] = 1]
      /\ Goto(w, IF allowed THEN "runs" ELSE "cancel")
      /\ UNCHANGED <<row, saved, deleting, request, judge, cluster, agent, spent>>
  BY DEF Claim, Claimed
<1>2. /\ pc' \in [Procs -> Places] /\ pc'[w] \in {"runs", "cancel"}
      /\ \A q \in Procs \ {w} : pc'[q] = pc[q]
  BY <1>1, Moved, AreProcs DEF IInv, TypeOK, Places, Working
<1>3. TypeOK'
  <2>1. 1 \in 1 .. N + 1 /\ w \in Procs /\ w # None
    BY ConstantsAssumption, AreProcs
  <2>. QED
    BY <1>1, <1>2, <2>1 DEF IInv, TypeOK, Owned, request, cluster, agent
<1>4. Effect
  BY <1>1, Harmless DEF cluster
<1>5. Good(w)'
  <2>1. res'[w] = saved
    BY <1>1 DEF IInv, TypeOK
  <2>2. \A i \in Execs : judge'[w][i] = "none"
    BY <1>1 DEF IInv, Good, JudgeOK
  <2>. QED
    BY <1>1, <1>2, <2>1, <2>2 DEF Good, Held, RowOpen, JudgeOK, Knows, HasSaved, Queued, Creating
<1>6. ASSUME NEW v \in Workers, v # w PROVE Good(v)'
  <2>1. pc'[v] = pc[v] /\ k'[v] = k[v] /\ res'[v] = res[v] /\ judge'[v] = judge[v]
    BY <1>1, <1>2, <1>6, AreProcs DEF IInv, TypeOK
  <2>. QED
    BY <1>1, <1>6, <2>1, Stays DEF IInv, Prompt
<1>. QED
  BY <1>3, <1>4, <1>5, <1>6 DEF IInv

-----------------------------------------------------------------------------
(* Workers *)

\* A worker moves one execution that is not over; the row stays.
LEMMA Walks ==
    ASSUME NEW w \in Workers, NEW i \in Execs, NEW state \in States,
           Good(w), res'[w][i].state = state,
           \A j \in Execs \ {i} : res'[w][j] = res[w][j],
           res[w][i].state \in {"queued", "running"},
           state \in {"running", "judging", "error"},
           pc[w] \in {"runs", "create"}, pc'[w] = "runs",
           UNCHANGED <<row, saved, holder, leased, judge, spent>>
    PROVE  Good(w)'
<1>1. \A j \in Execs : judge[w][j] # "none" => j # i
  BY DEF Good, JudgeOK
<1>2. Held(w)' /\ RowOpen(w)' /\ Creating(w)'
  BY DEF Good, Held, RowOpen, Creating, Prompt
<1>3. JudgeOK(w)'
  BY <1>1 DEF Good, JudgeOK
<1>4. Knows(w)'
  BY DEF Good, Knows
<1>5. HasSaved(w)'
  BY DEF Good, HasSaved, Prompt
<1>6. Queued(w)'
  BY DEF Good, Queued, Prompt
<1>. QED
  BY <1>2, <1>3, <1>4, <1>5, <1>6 DEF Good

\* Visit keeps the invariant.
LEMMA VisitStep ==
    ASSUME NEW w \in Workers, IInv, Visit(w)
    PROVE  IInv' /\ Effect
<1>1. PICK i \in Due(w) :
          \/ /\ Startable(i, res[w][i])
             /\ k' = [k EXCEPT ![w] = i]
             /\ Goto(w, "create")
             /\ UNCHANGED res
          \/ /\ \/ \E state \in {"error", "running"} : Step(w, i, state)
                \/ Collect(w, i)
             /\ UNCHANGED pc
  BY DEF Visit
<1>2. pc[w] = "runs" /\ UNCHANGED <<record, request, judge, cluster, agent, spent>>
  BY DEF Visit
<1>3. i \in Execs /\ res[w][i].state \in {"queued", "running"}
  BY DEF Due
<1>4. Effect
  BY <1>2, Harmless DEF record, cluster
<1>5. w \in Procs
  BY AreProcs
<1>6. CASE /\ Startable(i, res[w][i])
           /\ k' = [k EXCEPT ![w] = i] /\ Goto(w, "create") /\ UNCHANGED res
  <2>1. /\ pc' \in [Procs -> Places] /\ pc'[w] = "create"
        /\ \A q \in Procs \ {w} : pc'[q] = pc[q]
    BY <1>5, <1>6, Moved DEF IInv, TypeOK, Places, Working
  <2>2. i \in 1 .. N + 1
    BY <1>3, ConstantsAssumption DEF Execs
  <2>3. TypeOK'
    BY <1>2, <1>6, <2>1, <2>2 DEF IInv, TypeOK, Owned, record, request, cluster, agent
  <2>4. k'[w] = i
    BY <1>6 DEF IInv, TypeOK
  <2>5. Good(w)'
    BY <1>2, <1>3, <1>6, <2>1, <2>4
       DEF IInv, Good, Held, RowOpen, JudgeOK, Knows, HasSaved, Queued, Creating, Prompt, Startable, record
  <2>6. ASSUME NEW v \in Workers, v # w PROVE Good(v)'
    <3>1. pc'[v] = pc[v] /\ k'[v] = k[v]
      BY <1>6, <2>1, <2>6, AreProcs DEF IInv, TypeOK
    <3>. QED
      BY <1>2, <1>6, <2>6, <3>1, Stays DEF IInv, Prompt, record
  <2>. QED
    BY <1>4, <2>3, <2>5, <2>6 DEF IInv
<1>7. CASE UNCHANGED pc /\ ((\E state \in {"error", "running"} : Step(w, i, state)) \/ Collect(w, i))
  <2>1. PICK state \in {"error", "running", "judging"} :
           /\ res' \in [Workers -> [Execs -> Execution]] /\ k' \in [Workers -> 1 .. N + 1]
           /\ res'[w][i].state = state
           /\ \A j \in Execs \ {i} : res'[w][j] = res[w][j]
           /\ \A v \in Workers \ {w} : res'[v] = res[v] /\ k'[v] = k[v]
    <3>1. CASE \E state \in {"error", "running"} : Step(w, i, state)
      <4>1. PICK state \in {"error", "running"} : Step(w, i, state)
        BY <3>1
      <4>2. state \in States
        BY <4>1 DEF States
      <4>. QED
        BY <1>3, <4>1, <4>2, Stepped DEF IInv, TypeOK
    <3>2. CASE Collect(w, i)
      <4>1. res' = [res EXCEPT ![w] = [res[w] EXCEPT ![i] = [state |-> "judging", transcript |-> TRUE]]]
        BY <3>2 DEF Collect
      <4>2. [state |-> "judging", transcript |-> TRUE] \in Execution
        BY DEF Execution, States
      <4>3. i + 1 \in 1 .. N + 1
        BY <1>3, ConstantsAssumption DEF Execs
      <4>4. k' = [k EXCEPT ![w] = i + 1]
        BY <3>2 DEF Collect
      <4>. QED
        BY <1>3, <4>1, <4>2, <4>3, <4>4 DEF IInv, TypeOK
    <3>. QED
      BY <1>7, <3>1, <3>2
  <2>2. TypeOK'
    BY <1>2, <1>7, <2>1 DEF IInv, TypeOK, Owned, record, request, cluster, agent
  <2>3. Good(w)'
    BY <1>2, <1>3, <1>7, <2>1, Walks DEF IInv, record, States
  <2>4. ASSUME NEW v \in Workers, v # w PROVE Good(v)'
    BY <1>2, <1>7, <2>1, <2>4, Stays DEF IInv, Prompt, record
  <2>. QED
    BY <1>4, <2>2, <2>3, <2>4 DEF IInv
<1>. QED
  BY <1>1, <1>6, <1>7

\* CreateRun keeps the invariant; the execution was queued in the row.
LEMMA CreateRunStep ==
    ASSUME NEW w \in Workers, IInv, CreateRun(w)
    PROVE  IInv' /\ Effect
<1>1. /\ pc[w] = "create" /\ Started(k[w]) /\ Step(w, k[w], "running") /\ Goto(w, "runs")
      /\ UNCHANGED <<record, request, judge, agent, spent>>
  BY DEF CreateRun
<1>2. k[w] \in Execs /\ res[w][k[w]].state = "queued"
  BY <1>1 DEF IInv, Good, Creating
<1>3. /\ pc' \in [Procs -> Places] /\ pc'[w] = "runs"
      /\ \A q \in Procs \ {w} : pc'[q] = pc[q]
  BY <1>1, Moved, AreProcs DEF IInv, TypeOK, Places, Working
<1>4. /\ res' \in [Workers -> [Execs -> Execution]] /\ k' \in [Workers -> 1 .. N + 1]
      /\ res'[w][k[w]].state = "running"
      /\ \A j \in Execs \ {k[w]} : res'[w][j] = res[w][j]
      /\ \A v \in Workers \ {w} : res'[v] = res[v] /\ k'[v] = k[v]
  BY <1>1, <1>2, Stepped DEF IInv, TypeOK, States
<1>5. /\ run' \in [Execs -> {"none", "active", "ended", "bare"}]
      /\ dying' \in SUBSET Owned' /\ late' \in SUBSET Owned'
      /\ \A j \in Execs \ {k[w]} : ~Starts(j)
  BY <1>1, <1>2, Starting DEF IInv
<1>6. TypeOK'
  BY <1>1, <1>3, <1>4, <1>5 DEF IInv, TypeOK, record, request, agent
<1>7. Effect
  <2>1. Prompt => saved[k[w]].state = "queued"
    BY <1>1, <1>2 DEF IInv, Good, Queued
  <2>. QED
    BY <1>1, <1>5, <2>1 DEF Effect, Keeps, Once, record
<1>8. Good(w)'
  BY <1>1, <1>2, <1>3, <1>4, Walks DEF IInv, record, States
<1>9. ASSUME NEW v \in Workers, v # w PROVE Good(v)'
  BY <1>1, <1>3, <1>4, <1>9, AreProcs, Stays DEF IInv, Prompt, record
<1>. QED
  BY <1>6, <1>7, <1>8, <1>9 DEF IInv

\* SaveAndRelease keeps the invariant.
LEMMA ReleaseStep ==
    ASSUME NEW w \in Workers, NEW state \in {"running", "completed", "cancelled"},
           IInv, pc[w] # "idle", SaveAndRelease(w, state)
    PROVE  IInv' /\ Effect
<1>1. /\ Goto(w, "idle") /\ Cleared(w)
      /\ judge' = [judge EXCEPT ![w] = NoJudges]
      /\ UNCHANGED <<deleting, request, cluster, agent>>
  BY DEF SaveAndRelease
<1>2. \/ Saved(w, state) /\ holder' = None /\ leased' = FALSE /\ UNCHANGED spent
      \/ /\ UNCHANGED <<row, saved, holder, leased>>
         /\ (\E kind \in Kinds : Spend(kind)) \/ UNCHANGED spent
  BY KindsOf DEF SaveAndRelease
<1>3. spent' \in [Kinds -> Nat] /\ (Prompt' => Prompt)
  BY <1>2, Spending DEF IInv, TypeOK
<1>4. /\ pc' \in [Procs -> Places] /\ pc'[w] = "idle"
      /\ \A q \in Procs \ {w} : pc'[q] = pc[q]
  BY <1>1, Moved, AreProcs DEF IInv, TypeOK, Places
<1>5. /\ res' \in [Workers -> [Execs -> Execution]] /\ k' \in [Workers -> 1 .. N + 1]
      /\ \A v \in Workers \ {w} : res'[v] = res[v] /\ k'[v] = k[v]
  BY <1>1, Clearing DEF IInv, TypeOK
<1>6. UNCHANGED <<run, dying, late, sess, strays, concurrency, allowed, deleting>>
  BY <1>1 DEF cluster, agent, request
<1>7. /\ row' \in {"none", "queued", "running", "completed", "cancelled", "gone"}
      /\ saved' \in [Execs -> Execution]
      /\ holder' \in Procs \cup {None} /\ (leased' => holder' # None) /\ leased' \in BOOLEAN
      /\ Effect
      /\ UNCHANGED <<row, saved, holder, leased>> \/ (holder = w /\ holder' = None)
  <2>1. CASE Saved(w, state) /\ holder' = None /\ leased' = FALSE
    BY <1>6, <2>1, Saving DEF Saved
  <2>2. CASE UNCHANGED <<row, saved, holder, leased>>
    BY <1>6, <2>2, Harmless DEF IInv, TypeOK
  <2>. QED
    BY <1>2, <2>1, <2>2
<1>8. judge' \in [Workers -> [Execs -> {"none", "start", "open", "completed", "error"}]]
  <2>1. NoJudges \in [Execs -> {"none", "start", "open", "completed", "error"}]
    BY DEF NoJudges
  <2>. QED
    BY <1>1, <2>1 DEF IInv, TypeOK
<1>9. TypeOK'
  BY <1>3, <1>4, <1>5, <1>6, <1>7, <1>8 DEF IInv, TypeOK, Owned
<1>10. judge'[w] = NoJudges /\ \A v \in Workers \ {w} : judge'[v] = judge[v]
  BY <1>1 DEF IInv, TypeOK
<1>11. None \notin Workers
  BY ConstantsAssumption DEF Procs
<1>12. Good(w)'
  <2>1. RowOpen(w)'
    BY <1>7, <1>11 DEF IInv, Good, RowOpen
  <2>. QED
    BY <1>4, <1>10, <2>1, Rests
<1>13. ASSUME NEW v \in Workers, v # w PROVE Good(v)'
  <2>1. UNCHANGED <<row, saved, holder, leased>> \/ (holder' # v /\ holder # v)
    BY <1>7, <1>11, <1>13
  <2>2. pc'[v] = pc[v] /\ k'[v] = k[v] /\ res'[v] = res[v] /\ judge'[v] = judge[v]
    BY <1>4, <1>5, <1>10, <1>13, AreProcs
  <2>. QED
    BY <1>3, <1>13, <2>1, <2>2, Stays DEF IInv
<1>. QED
  BY <1>7, <1>9, <1>12, <1>13 DEF IInv

\* A checkpoint keeps the invariant: the row and the copy are the same.
LEMMA Checkpointed ==
    ASSUME NEW w \in Workers, IInv, Saved(w, "running"), leased' = TRUE, UNCHANGED <<holder, res, run>>,
           pc'[w] # "idle", pc[w] # "idle", Prompt' => Prompt,
           pc'[w] # "create",
           \A i \in Execs : judge'[w][i] # "none" => res[w][i].state = "judging" /\ pc'[w] # "cancel"
    PROVE  Good(w)' /\ Effect /\ saved' \in [Execs -> Execution] /\ holder = w
<1>1. saved' = res[w] /\ row' = "running" /\ holder = w
  BY DEF Saved
<1>2. Good(w)'
  BY <1>1 DEF Good, Held, RowOpen, JudgeOK, Knows, HasSaved, Queued, Creating
<1>. QED
  BY <1>2, Saving

\* Checkpoint keeps the invariant.
LEMMA CheckpointStep ==
    ASSUME NEW w \in Workers, IInv, Checkpoint(w)
    PROVE  IInv' /\ Effect
<1>1. pc[w] = "runs" /\ UNCHANGED <<deleting, holder, request, local, cluster, agent, spent>>
  BY DEF Checkpoint, Waits
<1>2. CASE /\ Saved(w, "running") /\ leased' = TRUE
           /\ judge' = [judge EXCEPT ![w] = [i \in Execs |-> IF i \in Chosen(w) THEN "start"
                                                             ELSE judge[w][i]]]
           /\ Goto(w, "wait")
  <2>1. /\ pc' \in [Procs -> Places] /\ pc'[w] = "wait"
        /\ \A q \in Procs \ {w} : pc'[q] = pc[q]
    BY <1>2, Moved, AreProcs DEF IInv, TypeOK, Places, Working
  <2>2. /\ judge' \in [Workers -> [Execs -> {"none", "start", "open", "completed", "error"}]]
        /\ \A v \in Workers \ {w} : judge'[v] = judge[v]
        /\ \A i \in Execs : judge'[w][i] # "none" => i \in Chosen(w) \/ judge[w][i] # "none"
    BY <1>2 DEF IInv, TypeOK
  <2>3. \A i \in Execs : judge'[w][i] # "none" => res[w][i].state = "judging"
    BY <2>2 DEF Chosen, Judging, IInv, Good, JudgeOK
  <2>4. Good(w)' /\ Effect /\ saved' \in [Execs -> Execution] /\ holder = w
    BY <1>1, <1>2, <2>1, <2>3, Checkpointed DEF local, cluster, Prompt
  <2>5. TypeOK'
    <3>1. holder' # None /\ leased' \in BOOLEAN /\ row' = "running"
      BY <1>1, <1>2, <2>4, ConstantsAssumption, AreProcs DEF Saved
    <3>. QED
      BY <1>1, <2>1, <2>2, <2>4, <3>1 DEF IInv, TypeOK, Owned, request, local, cluster, agent
  <2>6. ASSUME NEW v \in Workers, v # w PROVE Good(v)'
    <3>1. holder # v /\ holder' # v
      BY <1>1, <2>4, <2>6
    <3>. QED
      BY <1>1, <2>1, <2>2, <2>6, <3>1, AreProcs, Stays DEF IInv, Prompt, local
  <2>. QED
    BY <2>4, <2>5, <2>6 DEF IInv
<1>3. CASE Goto(w, "unwind") /\ UNCHANGED <<row, saved, leased, judge>>
  <2>1. /\ pc' \in [Procs -> Places] /\ pc'[w] = "unwind"
        /\ \A q \in Procs \ {w} : pc'[q] = pc[q]
    BY <1>3, Moved, AreProcs DEF IInv, TypeOK, Places
  <2>2. TypeOK'
    BY <1>1, <1>3, <2>1 DEF IInv, TypeOK, Owned, request, local, cluster, agent
  <2>3. Effect
    BY <1>1, <1>3, Harmless DEF cluster
  <2>4. Good(w)'
    BY <1>1, <1>3, <2>1
       DEF IInv, Good, Held, RowOpen, JudgeOK, Knows, HasSaved, Queued, Creating, Prompt, local
  <2>5. ASSUME NEW v \in Workers, v # w PROVE Good(v)'
    BY <1>1, <1>3, <2>1, <2>5, AreProcs, Stays DEF IInv, Prompt, local
  <2>. QED
    BY <2>2, <2>3, <2>4, <2>5 DEF IInv
<1>. QED
  BY <1>2, <1>3 DEF Checkpoint

\* Poll keeps the invariant.
LEMMA PollStep ==
    ASSUME NEW w \in Workers, IInv, Poll(w)
    PROVE  IInv' /\ Effect
<1>1. /\ pc[w] = "wait" /\ k' = [k EXCEPT ![w] = 1] /\ Goto(w, "runs")
      /\ UNCHANGED <<record, request, res, judge, cluster, agent, spent>>
  BY DEF Poll
<1>2. /\ pc' \in [Procs -> Places] /\ pc'[w] = "runs"
      /\ \A q \in Procs \ {w} : pc'[q] = pc[q]
  BY <1>1, Moved, AreProcs DEF IInv, TypeOK, Places, Working
<1>3. 1 \in 1 .. N + 1
  BY ConstantsAssumption
<1>4. TypeOK'
  BY <1>1, <1>2, <1>3 DEF IInv, TypeOK, Owned, record, request, cluster, agent
<1>5. Effect
  BY <1>1, Harmless DEF record, cluster
<1>6. Good(w)'
  BY <1>1, <1>2
     DEF IInv, Good, Held, RowOpen, JudgeOK, Knows, HasSaved, Queued, Creating, Prompt, record
<1>7. ASSUME NEW v \in Workers, v # w PROVE Good(v)'
  <2>1. k'[v] = k[v]
    BY <1>1, <1>7 DEF IInv, TypeOK
  <2>. QED
    BY <1>1, <1>2, <1>7, <2>1, AreProcs, Stays DEF IInv, Prompt, record
<1>. QED
  BY <1>4, <1>5, <1>6, <1>7 DEF IInv

\* Receive keeps the invariant: what was judged waited for judgment.
LEMMA ReceiveStep ==
    ASSUME NEW w \in Workers, NEW i \in Execs, IInv, Receive(w, i)
    PROVE  IInv' /\ Effect
<1>1. /\ pc[w] = "wait" /\ judge[w][i] \in {"completed", "error"} /\ Goto(w, "record")
      /\ res' = [res EXCEPT ![w] = [res[w] EXCEPT ![i] = [res[w][i] EXCEPT !.state = judge[w][i]]]]
      /\ judge' = [judge EXCEPT ![w] = [judge[w] EXCEPT ![i] = "none"]]
      /\ UNCHANGED <<record, request, k, cluster, agent, spent>>
  BY DEF Receive
<1>2. /\ pc' \in [Procs -> Places] /\ pc'[w] = "record"
      /\ \A q \in Procs \ {w} : pc'[q] = pc[q]
  BY <1>1, Moved, AreProcs DEF IInv, TypeOK, Places, Working
<1>3. /\ res' \in [Workers -> [Execs -> Execution]]
      /\ res'[w][i].state = judge[w][i]
      /\ \A j \in Execs \ {i} : res'[w][j] = res[w][j]
      /\ \A v \in Workers \ {w} : res'[v] = res[v]
  <2>1. res \in [Workers -> [Execs -> Execution]] /\ res[w][i] \in Execution
    BY DEF IInv, TypeOK
  <2>2. /\ [res[w][i] EXCEPT !.state = judge[w][i]] \in Execution
        /\ [res[w][i] EXCEPT !.state = judge[w][i]].state = judge[w][i]
    BY <1>1, <2>1 DEF Execution, States
  <2>. QED
    BY <1>1, <2>1, <2>2
<1>4. /\ judge' \in [Workers -> [Execs -> {"none", "start", "open", "completed", "error"}]]
      /\ judge'[w][i] = "none"
      /\ \A j \in Execs \ {i} : judge'[w][j] = judge[w][j]
      /\ \A v \in Workers \ {w} : judge'[v] = judge[v]
  BY <1>1 DEF IInv, TypeOK
<1>5. TypeOK'
  BY <1>1, <1>2, <1>3, <1>4 DEF IInv, TypeOK, Owned, record, request, cluster, agent
<1>6. Effect
  BY <1>1, Harmless DEF record, cluster
<1>7. Good(w)'
  <2>1. res[w][i].state = "judging"
    BY <1>1 DEF IInv, Good, JudgeOK
  <2>2. Held(w)' /\ RowOpen(w)' /\ HasSaved(w)' /\ Creating(w)'
    BY <1>1, <1>2 DEF IInv, Good, Held, RowOpen, HasSaved, Creating, Prompt, record
  <2>3. JudgeOK(w)'
    BY <1>2, <1>3, <1>4 DEF IInv, Good, JudgeOK
  <2>4. Knows(w)'
    BY <1>1, <1>2, <1>3, <2>1 DEF IInv, Good, Knows, record
  <2>5. Queued(w)'
    BY <1>1, <1>2, <1>3 DEF IInv, Good, Queued, Prompt, record
  <2>. QED
    BY <2>2, <2>3, <2>4, <2>5 DEF Good
<1>8. ASSUME NEW v \in Workers, v # w PROVE Good(v)'
  BY <1>1, <1>2, <1>3, <1>4, <1>8, AreProcs, Stays DEF IInv, Prompt, record
<1>. QED
  BY <1>5, <1>6, <1>7, <1>8 DEF IInv

\* Record keeps the invariant.
LEMMA RecordStep ==
    ASSUME NEW w \in Workers, IInv, Record(w)
    PROVE  IInv' /\ Effect
<1>1. /\ pc[w] = "record"
      /\ UNCHANGED <<deleting, holder, request, res, judge, cluster, agent, spent>>
  BY DEF Record
<1>2. CASE Saved(w, "running") /\ leased' = TRUE /\ k' = [k EXCEPT ![w] = 1] /\ Goto(w, "runs")
  <2>1. /\ pc' \in [Procs -> Places] /\ pc'[w] = "runs"
        /\ \A q \in Procs \ {w} : pc'[q] = pc[q]
    BY <1>2, Moved, AreProcs DEF IInv, TypeOK, Places, Working
  <2>2. \A i \in Execs : judge'[w][i] # "none" => res[w][i].state = "judging"
    BY <1>1 DEF IInv, Good, JudgeOK
  <2>3. Good(w)' /\ Effect /\ saved' \in [Execs -> Execution] /\ holder = w
    BY <1>1, <1>2, <2>1, <2>2, Checkpointed DEF cluster, Prompt
  <2>4. holder' # None /\ leased' \in BOOLEAN /\ row' = "running" /\ 1 \in 1 .. N + 1
    BY <1>1, <1>2, <2>3, ConstantsAssumption, AreProcs DEF Saved
  <2>5. TypeOK'
    BY <1>1, <1>2, <2>1, <2>3, <2>4 DEF IInv, TypeOK, Owned, request, cluster, agent
  <2>6. ASSUME NEW v \in Workers, v # w PROVE Good(v)'
    <3>1. holder # v /\ holder' # v /\ k'[v] = k[v]
      BY <1>1, <1>2, <2>3, <2>6 DEF IInv, TypeOK
    <3>. QED
      BY <1>1, <2>1, <2>6, <3>1, AreProcs, Stays DEF IInv, Prompt
  <2>. QED
    BY <2>3, <2>5, <2>6 DEF IInv
<1>3. CASE Goto(w, "unwind") /\ UNCHANGED <<row, saved, leased, k>>
  <2>1. /\ pc' \in [Procs -> Places] /\ pc'[w] = "unwind"
        /\ \A q \in Procs \ {w} : pc'[q] = pc[q]
    BY <1>3, Moved, AreProcs DEF IInv, TypeOK, Places
  <2>2. TypeOK'
    BY <1>1, <1>3, <2>1 DEF IInv, TypeOK, Owned, request, cluster, agent
  <2>3. Effect
    BY <1>1, <1>3, Harmless DEF cluster
  <2>4. Good(w)'
    BY <1>1, <1>3, <2>1
       DEF IInv, Good, Held, RowOpen, JudgeOK, Knows, HasSaved, Queued, Creating, Prompt
  <2>5. ASSUME NEW v \in Workers, v # w PROVE Good(v)'
    BY <1>1, <1>3, <2>1, <2>5, AreProcs, Stays DEF IInv, Prompt
  <2>. QED
    BY <2>2, <2>3, <2>4, <2>5 DEF IInv
<1>. QED
  BY <1>2, <1>3 DEF Record

\* CancelRun keeps the invariant: it ends or keeps executions that are not over.
LEMMA CancelStep ==
    ASSUME NEW w \in Workers, IInv, CancelRun(w)
    PROVE  IInv' /\ Effect
<1>1. pc[w] = "cancel" /\ UNCHANGED <<record, request, pc, judge, run, late, agent, spent>>
  BY DEF CancelRun
<1>2. PICK i \in Undone(w) :
        \/ Step(w, i, "cancelled") /\ UNCHANGED dying
        \/ run[i] # "none" /\ Step(w, i, res[w][i].state) /\ dying' = dying \cup {i}
  BY DEF CancelRun
<1>3. i \in Execs /\ res[w][i].state \in {"queued", "running", "judging"}
  BY DEF Undone, Pending
<1>4. PICK state \in {"cancelled", res[w][i].state} : Step(w, i, state)
  BY <1>2
<1>5. state \in States
  BY <1>3, <1>4 DEF States
<1>6. /\ res' \in [Workers -> [Execs -> Execution]] /\ k' \in [Workers -> 1 .. N + 1]
      /\ res'[w][i].state = state
      /\ \A j \in Execs \ {i} : res'[w][j] = res[w][j]
      /\ \A v \in Workers \ {w} : res'[v] = res[v] /\ k'[v] = k[v]
  BY <1>3, <1>4, <1>5, Stepped DEF IInv, TypeOK
<1>7. dying' \in SUBSET Owned'
  BY <1>1, <1>2, <1>3 DEF IInv, TypeOK, Owned
<1>8. TypeOK'
  BY <1>1, <1>6, <1>7 DEF IInv, TypeOK, Owned, record, request, agent
<1>9. Effect
  BY <1>1, Harmless DEF record
<1>10. Good(w)'
  <2>1. Held(w)' /\ RowOpen(w)' /\ HasSaved(w)' /\ Creating(w)'
    BY <1>1 DEF IInv, Good, Held, RowOpen, HasSaved, Creating, Prompt, record
  <2>2. JudgeOK(w)'
    BY <1>1 DEF IInv, Good, JudgeOK
  <2>3. Knows(w)'
    BY <1>1, <1>3, <1>6 DEF IInv, Good, Knows, record
  <2>4. Queued(w)'
    BY <1>1, <1>3, <1>6 DEF IInv, Good, Queued, Prompt, record
  <2>. QED
    BY <2>1, <2>2, <2>3, <2>4 DEF Good
<1>11. ASSUME NEW v \in Workers, v # w PROVE Good(v)'
  BY <1>1, <1>6, <1>11, Stays DEF IInv, Prompt, record
<1>. QED
  BY <1>8, <1>9, <1>10, <1>11 DEF IInv

\* Interrupt keeps the invariant, whether or not the call took effect.
LEMMA InterruptStep ==
    ASSUME NEW w \in Workers, IInv, Interrupt(w)
    PROVE  IInv' /\ Effect
<1>1. /\ pc[w] \in Working /\ Goto(w, "unwind")
      /\ UNCHANGED <<deleting, holder, request, local, judge, agent>>
      /\ (\E kind \in Kinds : Spend(kind)) \/ UNCHANGED spent
  BY KindsOf DEF Interrupt
<1>2. spent' \in [Kinds -> Nat] /\ (Prompt' => Prompt)
  BY <1>1, Spending DEF IInv, TypeOK
<1>3. /\ pc' \in [Procs -> Places] /\ pc'[w] = "unwind"
      /\ \A q \in Procs \ {w} : pc'[q] = pc[q]
  BY <1>1, Moved, AreProcs DEF IInv, TypeOK, Places
<1>4. CASE UNCHANGED <<row, saved, leased>> /\ (UNCHANGED cluster \/ (pc[w] = "create" /\ Started(k[w])))
  <2>1. /\ run' \in [Execs -> {"none", "active", "ended", "bare"}]
        /\ dying' \in SUBSET Owned' /\ late' \in SUBSET Owned'
        /\ Effect
    <3>1. CASE UNCHANGED cluster
      BY <1>4, <3>1, Harmless DEF cluster, IInv, TypeOK, Owned
    <3>2. CASE pc[w] = "create" /\ Started(k[w])
      <4>1. k[w] \in Execs /\ res[w][k[w]].state = "queued"
        BY <3>2 DEF IInv, Good, Creating
      <4>2. Prompt => saved[k[w]].state = "queued"
        BY <3>2, <4>1 DEF IInv, Good, Queued
      <4>3. \A j \in Execs \ {k[w]} : ~Starts(j)
        BY <3>2, <4>1, Starting DEF IInv
      <4>. QED
        BY <1>4, <3>2, <4>1, <4>2, <4>3, Starting DEF IInv, Effect, Keeps, Once
    <3>. QED
      BY <1>4, <3>1, <3>2
  <2>2. TypeOK'
    BY <1>1, <1>2, <1>3, <1>4, <2>1 DEF IInv, TypeOK, request, local, agent
  <2>3. Good(w)'
    <3>1. pc[w] # "idle"
      BY <1>1 DEF Working
    <3>. QED
      BY <1>1, <1>2, <1>3, <1>4, <3>1
         DEF IInv, Good, Held, RowOpen, JudgeOK, Knows, HasSaved, Queued, Creating, local
  <2>4. ASSUME NEW v \in Workers, v # w PROVE Good(v)'
    BY <1>1, <1>2, <1>3, <1>4, <2>4, AreProcs, Stays DEF IInv, local
  <2>. QED
    BY <2>1, <2>2, <2>3, <2>4 DEF IInv
<1>5. CASE Saved(w, "running") /\ leased' = TRUE /\ UNCHANGED cluster
  <2>1. pc[w] # "idle" /\ UNCHANGED res
    BY <1>1 DEF Working, local
  <2>2. \A i \in Execs : judge'[w][i] # "none" => res[w][i].state = "judging"
    BY <1>1 DEF IInv, Good, JudgeOK
  <2>3. Good(w)' /\ Effect /\ saved' \in [Execs -> Execution] /\ holder = w
    BY <1>1, <1>2, <1>3, <1>5, <2>1, <2>2, Checkpointed DEF cluster
  <2>4. holder' # None /\ leased' \in BOOLEAN /\ row' = "running"
    BY <1>1, <1>5, <2>3, ConstantsAssumption, AreProcs DEF Saved
  <2>5. TypeOK'
    BY <1>1, <1>2, <1>3, <1>5, <2>3, <2>4 DEF IInv, TypeOK, Owned, request, local, cluster, agent
  <2>6. ASSUME NEW v \in Workers, v # w PROVE Good(v)'
    <3>1. holder # v /\ holder' # v
      BY <1>1, <2>3, <2>6
    <3>. QED
      BY <1>1, <1>2, <1>3, <2>6, <3>1, AreProcs, Stays DEF IInv, local
  <2>. QED
    BY <2>3, <2>5, <2>6 DEF IInv
<1>. QED
  BY <1>4, <1>5 DEF Interrupt

-----------------------------------------------------------------------------
(* Judges *)

\* The steps of a judge keep the invariant.
LEMMA JudgeStep ==
    ASSUME NEW w \in Workers, NEW i \in Execs, IInv, Judge(w, i)
    PROVE  IInv' /\ Effect
<1>1. PICK now \in {"open", "completed", "error"} :
        /\ judge[w][i] \in {"start", "open"}
        /\ judge' = [judge EXCEPT ![w] = [judge[w] EXCEPT ![i] = now]]
  BY DEF Judge, OpenJudge, CloseJudge
<1>2. /\ UNCHANGED <<record, request, pc, local, cluster>>
      /\ (\E kind \in Kinds : Spend(kind)) \/ UNCHANGED spent
  BY KindsOf DEF Judge, OpenJudge, CloseJudge
<1>3. sess' \in SUBSET (Workers \X Execs) /\ strays' \in BOOLEAN
  <2>1. <<w, i>> \in Workers \X Execs /\ sess \in SUBSET (Workers \X Execs) /\ strays \in BOOLEAN
    BY DEF IInv, TypeOK
  <2>2. CASE OpenJudge(w, i)
    BY <2>1, <2>2 DEF OpenJudge
  <2>3. ASSUME NEW verdict \in {"completed", "error"}, CloseJudge(w, i, verdict)
        PROVE  sess' \in SUBSET (Workers \X Execs) /\ strays' \in BOOLEAN
    BY <2>1, <2>3 DEF CloseJudge
  <2>. QED
    BY <2>2, <2>3 DEF Judge
<1>4. spent' \in [Kinds -> Nat] /\ (Prompt' => Prompt)
  BY <1>2, Spending DEF IInv, TypeOK
<1>5. /\ judge' \in [Workers -> [Execs -> {"none", "start", "open", "completed", "error"}]]
      /\ \A j \in Execs : judge'[w][j] # "none" => judge[w][j] # "none"
      /\ \A v \in Workers \ {w} : judge'[v] = judge[v]
  BY <1>1 DEF IInv, TypeOK
<1>6. TypeOK'
  BY <1>2, <1>3, <1>4, <1>5 DEF IInv, TypeOK, Owned, record, request, local, cluster
<1>7. Effect
  BY <1>2, Harmless DEF record, cluster
<1>8. Good(w)'
  BY <1>2, <1>4, <1>5
     DEF IInv, Good, Held, RowOpen, JudgeOK, Knows, HasSaved, Queued, Creating, record, local
<1>9. ASSUME NEW v \in Workers, v # w PROVE Good(v)'
  BY <1>2, <1>4, <1>5, <1>9, Stays DEF IInv, record, local
<1>. QED
  BY <1>6, <1>7, <1>8, <1>9 DEF IInv

-----------------------------------------------------------------------------
(* Cleaners, crashes and the cluster *)

\* A step that moves no worker keeps the invariant when the row stays, or when
\* it passes from no worker at work to no worker.
LEMMA Elsewhere ==
    ASSUME IInv, TypeOK', Effect, UNCHANGED <<k, res, judge>>, Prompt' => Prompt,
           \A v \in Workers : pc'[v] = pc[v],
           \/ UNCHANGED <<row, saved, holder, leased>>
           \/ holder' \notin Workers /\ (holder \notin Workers \/ ~leased)
    PROVE  IInv' /\ Effect
<1>1. ASSUME NEW v \in Workers PROVE Good(v)'
  BY <1>1, Stays DEF IInv
<1>. QED
  BY <1>1 DEF IInv

\* The steps of a cleaner keep the invariant.
LEMMA CleanStep ==
    ASSUME NEW c \in Cleaners, IInv, Clean(c)
    PROVE  IInv' /\ Effect
<1>1. c \in Procs /\ c \notin Workers /\ c # None /\ None \notin Workers
  BY ConstantsAssumption, AreProcs, Apart DEF Procs
<1>2. \E place \in {"list", "release", "sweep", "delete", "idle"} : Goto(c, place)
  BY DEF Clean, ClaimCleanup, DeleteRuns, SweepSessions, DeleteRow, Release
<1>3. pc' \in [Procs -> Places] /\ \A v \in Workers : pc'[v] = pc[v]
  BY <1>1, <1>2, Moved, AreProcs DEF IInv, TypeOK, Places
<1>4. /\ UNCHANGED <<saved, request, local, judge, run, late>>
      /\ (\E kind \in Kinds : Spend(kind)) \/ UNCHANGED spent
  BY KindsOf DEF Clean, ClaimCleanup, DeleteRuns, SweepSessions, DeleteRow, Release, record, cluster
<1>5. spent' \in [Kinds -> Nat] /\ (Prompt' => Prompt)
  BY <1>4, Spending DEF IInv, TypeOK
<1>6. dying' \in SUBSET Owned' /\ late' \in SUBSET Owned'
  <2>1. Owned' = Owned /\ dying \in SUBSET Owned /\ late \in SUBSET Owned
    BY <1>4 DEF Owned, IInv, TypeOK
  <2>. QED
    BY <1>4, <2>1 DEF Clean, ClaimCleanup, DeleteRuns, SweepSessions, DeleteRow, Release, cluster
<1>7. sess' \in SUBSET (Workers \X Execs) /\ strays' \in BOOLEAN
  <2>1. sess \in SUBSET (Workers \X Execs) /\ strays \in BOOLEAN
    BY DEF IInv, TypeOK
  <2>. QED
    BY <2>1 DEF Clean, ClaimCleanup, DeleteRuns, SweepSessions, DeleteRow, Release, agent
<1>8. /\ row' \in {row, "gone"} /\ deleting' \in BOOLEAN /\ leased' \in BOOLEAN
      /\ holder' \in {holder, c, None} /\ (leased' => holder' # None)
      /\ \/ UNCHANGED <<row, saved, holder, leased>>
         \/ holder' \notin Workers /\ (holder \notin Workers \/ ~leased)
  <2>1. deleting \in BOOLEAN /\ leased \in BOOLEAN /\ (leased => holder # None)
    BY DEF IInv, TypeOK
  <2>2. CASE ClaimCleanup(c)
    BY <1>1, <2>1, <2>2 DEF ClaimCleanup
  <2>3. CASE DeleteRuns(c)
    BY <2>1, <2>3 DEF DeleteRuns, record
  <2>4. CASE SweepSessions(c)
    BY <2>1, <2>4 DEF SweepSessions, record
  <2>5. CASE DeleteRow(c)
    <3>1. CASE holder = c /\ holder' = None /\ leased' = FALSE /\ row' = "gone" /\ deleting' = FALSE
      BY <1>1, <2>1, <3>1
    <3>2. CASE UNCHANGED <<row, saved, deleting, holder, leased>>
      BY <2>1, <3>2
    <3>. QED
      BY <2>5, <3>1, <3>2 DEF DeleteRow
  <2>6. CASE Release(c)
    <3>1. CASE holder = c /\ holder' = None /\ leased' = FALSE /\ UNCHANGED <<row, deleting>>
      BY <1>1, <2>1, <3>1
    <3>2. CASE UNCHANGED <<row, saved, deleting, holder, leased>>
      BY <2>1, <3>2
    <3>. QED
      BY <2>6, <3>1, <3>2 DEF Release
  <2>. QED
    BY <2>2, <2>3, <2>4, <2>5, <2>6 DEF Clean
<1>9. TypeOK'
  BY <1>1, <1>3, <1>4, <1>5, <1>6, <1>7, <1>8 DEF IInv, TypeOK, request, local
<1>10. Effect
  BY <1>4, Harmless
<1>. QED
  BY <1>3, <1>4, <1>5, <1>8, <1>9, <1>10, Elsewhere DEF local

\* A crash keeps the invariant.
LEMMA CrashStep ==
    ASSUME NEW p \in Procs, IInv, Crash(p)
    PROVE  IInv' /\ Effect
<1>1. Goto(p, "idle") /\ Spend("loss") /\ UNCHANGED <<record, request, cluster>>
  BY DEF Crash
<1>2. spent' \in [Kinds -> Nat] /\ (Prompt' => Prompt)
  BY <1>1, Spending, KindsOf DEF IInv, TypeOK
<1>3. /\ pc' \in [Procs -> Places] /\ pc'[p] = "idle"
      /\ \A q \in Procs \ {p} : pc'[q] = pc[q]
  BY <1>1, Moved DEF IInv, TypeOK, Places
<1>4. Effect
  BY <1>1, Harmless DEF record, cluster
<1>5. CASE p \in Workers
  <2>1. /\ Cleared(p) /\ judge' = [judge EXCEPT ![p] = NoJudges]
        /\ sess' \subseteq sess /\ strays' \in BOOLEAN
    BY <1>5 DEF Crash
  <2>2. /\ res' \in [Workers -> [Execs -> Execution]] /\ k' \in [Workers -> 1 .. N + 1]
        /\ \A v \in Workers \ {p} : res'[v] = res[v] /\ k'[v] = k[v]
    BY <1>5, <2>1, Clearing DEF IInv, TypeOK
  <2>3. NoJudges \in [Execs -> {"none", "start", "open", "completed", "error"}]
    BY DEF NoJudges
  <2>4. TypeOK'
    BY <1>1, <1>2, <1>3, <2>1, <2>2, <2>3 DEF IInv, TypeOK, Owned, record, request, cluster
  <2>5. judge'[p] = NoJudges /\ \A v \in Workers \ {p} : judge'[v] = judge[v]
    BY <1>5, <2>1 DEF IInv, TypeOK
  <2>6. Good(p)'
    <3>1. RowOpen(p)'
      BY <1>1, <1>5 DEF IInv, Good, RowOpen, record
    <3>. QED
      BY <1>3, <1>5, <2>5, <3>1, Rests
  <2>7. ASSUME NEW v \in Workers, v # p PROVE Good(v)'
    BY <1>1, <1>2, <1>3, <2>2, <2>5, <2>7, AreProcs, Stays DEF IInv, record
  <2>. QED
    BY <1>4, <2>4, <2>6, <2>7 DEF IInv
<1>6. CASE p \notin Workers
  <2>1. UNCHANGED <<local, judge, agent>>
    BY <1>6 DEF Crash
  <2>2. TypeOK'
    BY <1>1, <1>2, <1>3, <2>1 DEF IInv, TypeOK, Owned, record, request, cluster, local, agent
  <2>3. \A v \in Workers : pc'[v] = pc[v]
    BY <1>3, <1>6, AreProcs
  <2>. QED
    BY <1>1, <1>2, <1>4, <2>1, <2>2, <2>3, Elsewhere DEF record, local
<1>. QED
  BY <1>5, <1>6

\* Nothing the cluster does by itself starts a run.
LEMMA ClusterStep ==
    ASSUME NEW i \in Execs, IInv, Cluster(i) \/ KillRun(i)
    PROVE  IInv' /\ Effect
<1>1. /\ UNCHANGED <<record, request, pc, local, judge, agent>>
      /\ (\E kind \in Kinds : Spend(kind)) \/ UNCHANGED spent
  BY KindsOf DEF Cluster, KillRun, RunEnds, RunReleased, LatePasses
<1>2. spent' \in [Kinds -> Nat] /\ (Prompt' => Prompt)
  BY <1>1, Spending DEF IInv, TypeOK
<1>3. /\ run \in [Execs -> {"none", "active", "ended", "bare"}]
      /\ dying \in SUBSET Owned /\ late \in SUBSET Owned
  BY DEF IInv, TypeOK
<1>4. /\ run' \in [Execs -> {"none", "active", "ended", "bare"}]
      /\ dying' \in SUBSET Owned' /\ late' \in SUBSET Owned'
      /\ \A j \in Execs : ~Starts(j)
  <2>1. CASE RunEnds(i)
    BY <1>3, <2>1 DEF RunEnds, Owned, Starts
  <2>2. CASE RunReleased(i)
    BY <1>3, <2>2 DEF RunReleased, Owned, Starts
  <2>3. CASE LatePasses(i)
    BY <1>3, <2>3 DEF LatePasses, Owned, Starts
  <2>4. CASE KillRun(i)
    BY <1>3, <2>4 DEF KillRun, Owned, Starts
  <2>. QED
    BY <2>1, <2>2, <2>3, <2>4 DEF Cluster
<1>5. TypeOK'
  BY <1>1, <1>2, <1>4 DEF IInv, TypeOK, record, request, local, agent
<1>6. Effect
  BY <1>1, <1>4 DEF Effect, Keeps, Once, record
<1>. QED
  BY <1>1, <1>2, <1>5, <1>6, Elsewhere DEF record, local

\* ChangeAccess keeps the invariant.
LEMMA AccessStep ==
    ASSUME IInv, ChangeAccess
    PROVE  IInv' /\ Effect
<1>1. /\ Spend("access") /\ allowed' \in BOOLEAN
      /\ UNCHANGED <<record, concurrency, pc, local, judge, cluster, agent>>
  BY DEF ChangeAccess
<1>2. spent' \in [Kinds -> Nat] /\ (Prompt' => Prompt)
  BY <1>1, Spending, KindsOf DEF IInv, TypeOK
<1>3. TypeOK'
  BY <1>1, <1>2 DEF IInv, TypeOK, Owned, record, local, cluster, agent
<1>4. Effect
  BY <1>1, Harmless DEF record, cluster
<1>. QED
  BY <1>1, <1>2, <1>3, <1>4, Elsewhere DEF record, local

-----------------------------------------------------------------------------
(* Theorems *)

\* The invariant holds at first.
LEMMA Begins == Init => IInv
<1>. SUFFICES ASSUME Init PROVE IInv
  OBVIOUS
<1>1. Fresh \in Execution /\ 1 \in 1 .. N + 1
  BY ConstantsAssumption DEF Fresh, Execution, States
<1>2. TypeOK
  BY <1>1 DEF Init, TypeOK, NoJudges, Places
<1>3. None \notin Workers /\ Workers \subseteq Procs
  BY ConstantsAssumption, AreProcs DEF Procs
<1>4. ASSUME NEW w \in Workers PROVE Good(w)
  BY <1>3, <1>4 DEF Init, Good, Held, RowOpen, JudgeOK, Knows, HasSaved, Queued, Creating, NoJudges
<1>. QED
  BY <1>2, <1>4 DEF IInv

\* Every step of a worker keeps the invariant.
LEMMA WorkStep ==
    ASSUME NEW w \in Workers, IInv, Work(w) \/ Interrupt(w)
    PROVE  IInv' /\ Effect
<1>1. CASE Claim(w)
  BY <1>1, ClaimStep
<1>2. CASE Visit(w)
  BY <1>2, VisitStep
<1>3. CASE CreateRun(w)
  BY <1>3, CreateRunStep
<1>4. CASE Finish(w)
  BY <1>4, ReleaseStep DEF Finish
<1>5. CASE Checkpoint(w)
  BY <1>5, CheckpointStep
<1>6. CASE Poll(w)
  BY <1>6, PollStep
<1>7. CASE Record(w)
  BY <1>7, RecordStep
<1>8. CASE CancelRun(w)
  BY <1>8, CancelStep
<1>9. CASE Cancelled(w)
  BY <1>9, ReleaseStep DEF Cancelled
<1>10. CASE Unwind(w)
  BY <1>10, ReleaseStep DEF Unwind
<1>11. CASE Interrupt(w)
  BY <1>11, InterruptStep
<1>. QED
  BY <1>1, <1>2, <1>3, <1>4, <1>5, <1>6, <1>7, <1>8, <1>9, <1>10, <1>11 DEF Work

\* Every step keeps the invariant and has no effect it must not have.
LEMMA Preserves ==
    ASSUME IInv, [Next]_vars
    PROVE  IInv' /\ Effect
<1>1. CASE Request
  BY <1>1, CreateStep, DeleteStep, UpdateStep DEF Request
<1>2. CASE Expire \/ Outlive \/ ChangeAccess
  BY <1>2, ExpireStep, OutliveStep, AccessStep
<1>3. ASSUME NEW w \in Workers,
             Work(w) \/ Interrupt(w) \/ \E i \in Execs : Receive(w, i) \/ Judge(w, i)
      PROVE  IInv' /\ Effect
  BY <1>3, WorkStep, ReceiveStep, JudgeStep
<1>4. CASE \E c \in Cleaners : Clean(c)
  BY <1>4, CleanStep
<1>5. CASE \E p \in Procs : Crash(p)
  BY <1>5, CrashStep
<1>6. CASE \E i \in Execs : Cluster(i) \/ KillRun(i)
  BY <1>6, ClusterStep
<1>7. CASE UNCHANGED vars
  <2>1. TypeOK'
    BY <1>7 DEF vars, IInv, TypeOK, Owned
  <2>2. Effect
    BY <1>7, Harmless DEF vars
  <2>. QED
    BY <1>7, <2>1, <2>2, Elsewhere DEF vars, Prompt
<1>. QED
  BY <1>1, <1>2, <1>3, <1>4, <1>5, <1>6, <1>7 DEF Next

\* The invariant holds throughout.
THEOREM Invariance == Spec => []IInv
<1>1. IInv /\ [Next]_vars => IInv'
  BY Preserves
<1>. QED
  BY <1>1, Begins, PTL DEF Spec

\* Every variable keeps its type.
THEOREM TypeCorrect == Spec => []TypeOK
<1>1. IInv => TypeOK
  BY DEF IInv
<1>. QED
  BY <1>1, Invariance, PTL

\* A judgment in the row is lost only to a request to judge again, although
\* every worker writes the whole row and leases pass while workers work.
LEMMA NeverOverwrites == Spec => NotOverwritten
<1>1. ASSUME IInv, [Next]_vars
      PROVE  [\A i \in Execs : saved[i].state = "completed" /\ saved'[i].state # "completed"
                => row = "completed" /\ row' = "queued"]_vars
  BY <1>1, Preserves DEF Effect, Keeps
<1>. QED
  BY <1>1, Invariance, PTL DEF Spec, NotOverwritten

\* An execution whose row says that its run was started never has it started
\* again, unless a pass outlives its lease.
THEOREM StartsOnce == Spec => StartedOnce
<1>1. ASSUME IInv, [Next]_vars
      PROVE  [\A i \in Execs : Prompt /\ saved[i].state # "queued" => ~Starts(i)]_vars
  BY <1>1, Preserves DEF Effect, Once
<1>. QED
  BY <1>1, Invariance, PTL DEF Spec, StartedOnce

\* When a run is started, every judgment its worker has received is in the row,
\* unless a pass outlives its lease.
THEOREM SavesFirst == Spec => Durable
<1>1. ASSUME IInv, [Next]_vars
      PROVE  [\A w \in Workers, i \in Execs :
                Prompt /\ pc[w] = "create" /\ Starts(k[w]) /\ res[w][i].state = "completed"
                    => saved[i].state = "completed"]_vars
  BY <1>1 DEF IInv, Good, HasSaved
<1>. QED
  BY <1>1, Invariance, PTL DEF Spec, Durable

\* A judgment is in the row before the next run starts, unless a pass outlives
\* its lease, and is never written over, even if one does.
THEOREM KeepsJudgments == Spec => JudgmentsKept
BY NeverOverwrites, SavesFirst DEF JudgmentsKept

-----------------------------------------------------------------------------
(* What a row and the copies of it say of runs and judges *)

\* Who takes an execution for over, or for waiting for judgment, is right: its
\* run is not at work.  No execution before a running one is queued.
Sees(es) ==
    \A i \in Execs :
       /\ es[i].state \notin {"queued", "running"} => run[i] # "active"
       /\ es[i].state = "running" => \A j \in Execs : j < i => es[j].state # "queued"

\* Whose state has a run that is still there.
Known(es) == \A i \in Execs : es[i].state # "queued" => run[i] # "none"

\* Executions that hold a slot, or will when their run is found.
Occupied(es) ==
    {i \in Execs : \/ es[i].state \in {"running", "judging"}
                   \/ es[i].state = "queued" /\ run[i] # "none"}

\* The slots suffice, unless everything was run before and is judged anew.
Fits(es) ==
    /\ (\E i \in Execs : es[i].state \in {"queued", "running"}) => Cardinality(Occupied(es)) <= concurrency
    /\ \A i \in Execs : es[i].state = "queued" /\ run[i] # "none"
          => \A j \in Execs : j < i => es[j].state # "queued"

Judges(w) == {i \in Execs : judge[w][i] # "none"}

\* What a worker has been through is not queued.
Passed(w) == \A j \in Execs : j < k[w] => res[w][j].state # "queued"

\* A worker at work is right about the runs, has passed no queued execution and
\* starts a run only with a slot.
Aware(w) ==
    Prompt /\ pc[w] # "idle" =>
       /\ Sees(res[w])
       /\ pc[w] \in {"runs", "create"} => Passed(w)
       /\ pc[w] = "create" => Slot(w)

\* Its judges are no more than there are slots, and each session has its judge.
Attended(w) ==
    /\ Cardinality(Judges(w)) <= concurrency
    /\ \A i \in Execs : <<w, i>> \in sess => judge[w][i] = "open"

\* A cleaner at work has the row to itself, and nothing comes back behind it.
Cleaning(c) ==
    Prompt /\ pc[c] \in {"list", "sweep", "delete"} =>
       /\ holder = c /\ leased /\ deleting
       /\ pc[c] # "list" => Owned = {}
       /\ pc[c] = "delete" => sess = {} /\ ~strays

\* A row that is over is; behind one that is gone nothing is left.
Ended ==
    /\ row \in {"completed", "cancelled"} => Pending(saved) = {}
    /\ Prompt /\ row = "gone" => Owned = {} /\ sess = {} /\ ~strays

AtWork == {w \in Workers : pc[w] # "idle"}

\* Unless a replica dies, who works or else the row knows which slots are held.
Fitting ==
    Prompt /\ spent["loss"] = 0 =>
       /\ \A w \in AtWork : Fits(res[w])
       /\ AtWork = {} => Fits(saved)

\* Unless they are deleted runs are started in order ...
Ordered == dying = {} /\ \A i, j \in Execs : run[i] # "none" /\ j < i => run[j] # "none"

Mild == spent["kill"] = 0 /\ spent["access"] = 0

\* ... and stay until the evaluation is deleted.
Untouched ==
    Prompt /\ Mild =>
       /\ allowed /\ \A w \in Workers : pc[w] # "cancel"
       /\ Cardinality(Running) <= concurrency
       /\ row # "gone" /\ (~deleting \/ AtWork # {}) =>
             Ordered /\ Known(saved) /\ \A w \in AtWork : Known(res[w])

QInv ==
    /\ \A w \in Workers : Aware(w) /\ Attended(w)
    /\ \A c \in Cleaners : Cleaning(c)
    /\ Ended
    /\ Prompt => Sees(saved)
    /\ Fitting /\ Untouched

-----------------------------------------------------------------------------
(* Slots *)

\* Sets of executions are finite.
LEMMA Smaller ==
    ASSUME NEW S \in SUBSET Execs, NEW T \in SUBSET S
    PROVE  /\ IsFiniteSet(S) /\ IsFiniteSet(T)
           /\ Cardinality(S) \in Nat /\ Cardinality(T) \in Nat /\ Cardinality(T) <= Cardinality(S)
<1>1. IsFiniteSet(Execs)
  BY FS_Interval, ConstantsAssumption DEF Execs
<1>2. IsFiniteSet(S)
  BY <1>1, FS_Subset
<1>3. IsFiniteSet(T) /\ Cardinality(T) <= Cardinality(S)
  BY <1>2, FS_Subset
<1>. QED
  BY <1>2, <1>3, FS_CardinalityType

\* An execution takes one slot.
LEMMA OneMore ==
    ASSUME NEW S \in SUBSET Execs, NEW i \in Execs
    PROVE  Cardinality(S \cup {i}) <= Cardinality(S) + 1
<1>1. IsFiniteSet(S) /\ Cardinality(S) \in Nat
  BY Smaller
<1>2. CASE i \in S
  <2>1. S \cup {i} = S
    BY <1>2
  <2>2. Cardinality(S) <= Cardinality(S) + 1
    BY <1>1
  <2>. QED
    BY <2>1, <2>2
<1>3. CASE i \notin S
  <2>1. Cardinality(S \cup {i}) = Cardinality(S) + 1
    BY <1>1, <1>3, FS_AddElement
  <2>. QED
    BY <1>1, <2>1
<1>. QED
  BY <1>2, <1>3

\* The executions chosen for judgment fit in the slots the judges at work leave:
\* counting them in order numbers them differently.
LEMMA Choosing ==
    ASSUME NEW busy \in SUBSET Execs, NEW ready \in SUBSET Execs, busy \cap ready = {},
           NEW slots \in Nat, Cardinality(busy) <= slots
    PROVE  LET chosen == {i \in ready : Cardinality(busy) + Cardinality({j \in ready : j <= i}) <= slots}
           IN  Cardinality(busy \cup chosen) <= slots
<1>. DEFINE before(i) == {j \in ready : j <= i}
            chosen == {i \in ready : Cardinality(busy) + Cardinality(before(i)) <= slots}
            number == [i \in chosen |-> Cardinality(before(i))]
            left == slots - Cardinality(busy)
<1>1. /\ IsFiniteSet(busy) /\ Cardinality(busy) \in Nat
      /\ IsFiniteSet(chosen) /\ Cardinality(chosen) \in Nat
  BY Smaller
<1>2. left \in Nat /\ IsFiniteSet(1 .. left) /\ Cardinality(1 .. left) = left
  <2>1. left \in Nat
    BY <1>1
  <2>2. IsFiniteSet(1 .. left) /\ Cardinality(1 .. left) = IF 1 > left THEN 0 ELSE left - 1 + 1
    <3>. HIDE DEF left
    <3>. QED
      BY <2>1, FS_Interval
  <2>. QED
    BY <2>1, <2>2
<1>3. ASSUME NEW i \in chosen, NEW j \in chosen, i < j
      PROVE  Cardinality(before(i)) < Cardinality(before(j))
  <2>1. before(i) \in SUBSET before(j) /\ before(i) # before(j) /\ before(j) \in SUBSET Execs
    <3>1. i \in Int /\ j \in Int /\ \A m \in ready : m \in Int
      BY <1>3 DEF Execs
    <3>2. j \in before(j) /\ j \notin before(i)
      BY <1>3, <3>1
    <3>3. ASSUME NEW m \in before(i) PROVE m \in before(j)
      BY <1>3, <3>1, <3>3
    <3>4. before(j) \in SUBSET Execs
      OBVIOUS
    <3>. HIDE DEF before
    <3>. QED
      BY <3>2, <3>3, <3>4
  <2>2. /\ IsFiniteSet(before(j)) /\ Cardinality(before(i)) \in Nat /\ Cardinality(before(j)) \in Nat
        /\ Cardinality(before(i)) <= Cardinality(before(j))
    <3>. HIDE DEF before
    <3>. QED
      BY <2>1, Smaller
  <2>3. Cardinality(before(i)) # Cardinality(before(j))
    <3>. HIDE DEF before
    <3>. QED
      BY <2>1, <2>2, FS_Subset
  <2>. QED
    BY <2>2, <2>3
<1>4. number \in [chosen -> 1 .. left]
  <2>1. ASSUME NEW i \in chosen PROVE Cardinality(before(i)) \in 1 .. left
    <3>1. i \in before(i) /\ before(i) \in SUBSET Execs
      <4>1. i \in ready /\ i \in Int
        BY <2>1 DEF Execs
      <4>2. i <= i
        BY <4>1
      <4>3. i \in before(i)
        BY <4>1, <4>2
      <4>4. before(i) \in SUBSET Execs
        OBVIOUS
      <4>. QED
        BY <4>3, <4>4
    <3>2. IsFiniteSet(before(i)) /\ Cardinality(before(i)) \in Nat
      <4>. HIDE DEF before
      <4>. QED
        BY <3>1, Smaller
    <3>3. Cardinality(before(i)) # 0
      <4>. HIDE DEF before
      <4>. QED
        BY <3>1, <3>2, FS_EmptySet
    <3>. QED
      BY <1>1, <2>1, <3>2, <3>3
  <2>. QED
    BY <2>1
<1>5. Cardinality(chosen) <= left
  <2>1. SUFFICES ASSUME left < Cardinality(chosen) PROVE FALSE
    BY <1>1, <1>2
  <2>2. \E i, j \in chosen : i # j /\ number[i] = number[j]
    <3>. HIDE DEF number, chosen, left
    <3>. QED
      BY <1>1, <1>2, <1>4, <2>1, FS_PigeonHole
  <2>3. PICK i \in chosen, j \in chosen : i # j /\ Cardinality(before(i)) = Cardinality(before(j))
    BY <2>2
  <2>4. i \in Int /\ j \in Int
    BY <2>3 DEF Execs
  <2>5. before(i) \in SUBSET Execs /\ before(j) \in SUBSET Execs
    OBVIOUS
  <2>6. Cardinality(before(i)) \in Nat /\ Cardinality(before(j)) \in Nat
    <3>. HIDE DEF before
    <3>. QED
      BY <2>5, Smaller
  <2>. QED
    BY <1>3, <2>3, <2>4, <2>6
<1>6. Cardinality(busy \cup chosen) = Cardinality(busy) + Cardinality(chosen) - Cardinality(busy \cap chosen)
  <2>. HIDE DEF chosen
  <2>. QED
    BY <1>1, FS_Union
<1>7. Cardinality(busy \cap chosen) = 0
  <2>1. busy \cap chosen = {}
    OBVIOUS
  <2>. QED
    BY <2>1, FS_EmptySet
<1>8. Cardinality(busy \cup chosen) <= slots
  <2>. HIDE DEF chosen
  <2>. QED
    BY <1>1, <1>5, <1>6, <1>7
<1>. QED
  BY <1>8

-----------------------------------------------------------------------------
(* What has not happened, and who is at work *)

\* A mishap that has not happened after a step has not happened in it.
LEMMA Unspent ==
    ASSUME spent \in [Kinds -> Nat], NEW kind \in Kinds, spent'[kind] = 0
    PROVE  /\ ~Spend(kind)
           /\ (\E any \in Kinds : Spend(any)) \/ UNCHANGED spent => spent[kind] = 0
  BY DEF Spend

\* No step changes the slots, and each suffers one mishap at most.
LEMMA Common ==
    ASSUME [Next]_vars
    PROVE  /\ UNCHANGED concurrency
           /\ (\E kind \in Kinds : Spend(kind)) \/ UNCHANGED spent
<1>1. CASE Request \/ Expire \/ Outlive \/ ChangeAccess
  BY <1>1, KindsOf DEF Request, CreateWorkflowEvaluation, DeleteWorkflowEvaluation,
       UpdateWorkflowEvaluation, Expire, Outlive, ChangeAccess, request
<1>2. ASSUME NEW w \in Workers, Work(w) \/ Interrupt(w)
      PROVE  UNCHANGED concurrency /\ ((\E kind \in Kinds : Spend(kind)) \/ UNCHANGED spent)
  <2>1. CASE Claim(w) \/ Visit(w) \/ CreateRun(w) \/ Poll(w) \/ CancelRun(w)
    BY <2>1 DEF Claim, Claimed, Visit, CreateRun, Poll, CancelRun, request
  <2>2. CASE Finish(w) \/ Cancelled(w) \/ Unwind(w)
    BY <2>2, KindsOf DEF Finish, Cancelled, Unwind, SaveAndRelease, request
  <2>3. CASE Checkpoint(w) \/ Record(w)
    BY <2>3 DEF Checkpoint, Record, request
  <2>4. CASE Interrupt(w)
    BY <2>4, KindsOf DEF Interrupt, request
  <2>. QED
    BY <1>2, <2>1, <2>2, <2>3, <2>4 DEF Work
<1>3. ASSUME NEW w \in Workers, NEW i \in Execs, Receive(w, i) \/ Judge(w, i)
      PROVE  UNCHANGED concurrency /\ ((\E kind \in Kinds : Spend(kind)) \/ UNCHANGED spent)
  BY <1>3, KindsOf DEF Receive, Judge, OpenJudge, CloseJudge, request
<1>4. ASSUME NEW c \in Cleaners, Clean(c)
      PROVE  UNCHANGED concurrency /\ ((\E kind \in Kinds : Spend(kind)) \/ UNCHANGED spent)
  BY <1>4, KindsOf DEF Clean, ClaimCleanup, DeleteRuns, SweepSessions, DeleteRow, Release, request
<1>5. ASSUME NEW p \in Procs, Crash(p)
      PROVE  UNCHANGED concurrency /\ ((\E kind \in Kinds : Spend(kind)) \/ UNCHANGED spent)
  BY <1>5, KindsOf DEF Crash, request
<1>6. ASSUME NEW i \in Execs, Cluster(i) \/ KillRun(i)
      PROVE  UNCHANGED concurrency /\ ((\E kind \in Kinds : Spend(kind)) \/ UNCHANGED spent)
  BY <1>6, KindsOf DEF Cluster, RunEnds, RunReleased, LatePasses, KillRun, request
<1>. QED
  BY <1>1, <1>2, <1>3, <1>4, <1>5, <1>6 DEF Next, vars

\* While no pass outlived its lease, who works has the row to itself.
LEMMA Alone ==
    ASSUME IInv, QInv, Prompt, NEW w \in AtWork
    PROVE  /\ w \in Workers /\ pc[w] # "idle"
           /\ holder = w /\ leased /\ row \in {"queued", "running"}
           /\ AtWork = {w}
           /\ \A v \in Workers \ {w} : pc[v] = "idle" /\ \A i \in Execs : judge[v][i] = "none"
           /\ \A c \in Cleaners : pc[c] \notin {"list", "sweep", "delete"}
<1>1. w \in Workers /\ pc[w] # "idle"
  BY DEF AtWork
<1>2. holder = w /\ leased /\ row \in {"queued", "running"}
  BY <1>1 DEF IInv, Good, Held, RowOpen
<1>3. \A v \in Workers \ {w} : pc[v] = "idle"
  BY <1>2 DEF IInv, Good, Held
<1>4. \A c \in Cleaners : pc[c] \notin {"list", "sweep", "delete"}
  BY <1>1, <1>2, Apart DEF QInv, Cleaning
<1>. QED
  BY <1>1, <1>2, <1>3, <1>4 DEF AtWork, IInv, Good, JudgeOK

\* While a cleaner works no worker does.
LEMMA CleanerAlone ==
    ASSUME IInv, QInv, Prompt, NEW c \in Cleaners, pc[c] \in {"list", "sweep", "delete"}
    PROVE  /\ holder = c /\ leased /\ deleting /\ AtWork = {}
           /\ \A v \in Workers : pc[v] = "idle" /\ \A i \in Execs : judge[v][i] = "none"
           /\ \A d \in Cleaners \ {c} : pc[d] \notin {"list", "sweep", "delete"}
<1>1. holder = c /\ leased /\ deleting
  BY DEF QInv, Cleaning
<1>2. \A v \in Workers : pc[v] = "idle"
  BY <1>1, Apart DEF IInv, Good, Held
<1>. QED
  BY <1>1, <1>2 DEF AtWork, IInv, Good, JudgeOK, QInv, Cleaning

-----------------------------------------------------------------------------
(* Judges and their sessions *)

\* Judges that end and sessions that go leave a worker attended.
LEMMA Fewer ==
    ASSUME NEW w \in Workers, Attended(w), UNCHANGED concurrency, concurrency \in Nat,
           \A i \in Execs : judge'[w][i] # "none" => judge[w][i] # "none",
           \A i \in Execs : <<w, i>> \in sess' => judge'[w][i] = "open"
    PROVE  Attended(w)'
<1>1. Judges(w)' \in SUBSET Judges(w) /\ Judges(w) \in SUBSET Execs
  BY DEF Judges
<1>2. Cardinality(Judges(w)') <= Cardinality(Judges(w)) /\ Cardinality(Judges(w)') \in Nat /\ Cardinality(Judges(w)) \in Nat
  BY <1>1, Smaller
<1>3. Cardinality(Judges(w)) <= concurrency
  BY DEF Attended
<1>4. Cardinality(Judges(w)') <= concurrency'
  BY <1>2, <1>3
<1>. QED
  BY <1>4 DEF Attended

\* Slots are a number.
LEMMA Slots == ASSUME TypeOK PROVE concurrency \in Nat \ {0}
  BY ConstantsAssumption DEF TypeOK

\* A worker starts as many judges as it has slots left.
LEMMA CheckpointAttends ==
    ASSUME NEW w \in Workers, IInv, Attended(w), UNCHANGED concurrency, Checkpoint(w), NEW v \in Workers, Attended(v)
    PROVE  Attended(v)'
<1>1. sess' = sess
  BY DEF Checkpoint, agent
<1>2. CASE UNCHANGED judge
  BY <1>1, <1>2 DEF Attended, Judges
<1>3. CASE judge' = [judge EXCEPT ![w] = [i \in Execs |-> IF i \in Chosen(w) THEN "start"
                                                          ELSE judge[w][i]]]
  <2>1. CASE v # w
    <3>1. judge'[v] = judge[v]
      BY <1>3, <2>1 DEF IInv, TypeOK
    <3>. QED
      BY <1>1, <3>1 DEF Attended, Judges
  <2>2. CASE v = w
    <3>. DEFINE ready == Judging(res[w]) \ Judges(w)
    <3>1. Judges(w) \in SUBSET Execs /\ ready \in SUBSET Execs /\ Judges(w) \cap ready = {}
      BY DEF Judges, Judging
    <3>2. concurrency \in Nat /\ Cardinality(Judges(w)) <= concurrency
      BY Slots DEF IInv, Attended
    <3>3. Chosen(w) = {i \in ready : Cardinality(Judges(w)) + Cardinality({j \in ready : j <= i}) <= concurrency}
      BY DEF Chosen, Judges
    <3>4. Cardinality(Judges(w) \cup Chosen(w)) <= concurrency
      <4>. HIDE DEF ready
      <4>. QED
        BY <3>1, <3>2, <3>3, Choosing
    <3>5. /\ \A i \in Execs : judge'[w][i] = IF i \in Chosen(w) THEN "start" ELSE judge[w][i]
          /\ Chosen(w) \in SUBSET ready
      BY <1>3, <3>3 DEF IInv, TypeOK
    <3>6. Judges(w)' = Judges(w) \cup Chosen(w)
      BY <3>5 DEF Judges, Judging
    <3>7. \A i \in Execs : <<w, i>> \in sess' => judge'[w][i] = "open"
      <4>1. ASSUME NEW i \in Execs, <<w, i>> \in sess PROVE judge[w][i] = "open" /\ i \notin Chosen(w)
        BY <3>5, <4>1 DEF Attended, Judges
      <4>. QED
        BY <1>1, <3>5, <4>1
    <3>. QED
      BY <2>2, <3>4, <3>6, <3>7 DEF Attended
  <2>. QED
    BY <2>1, <2>2
<1>. QED
  BY <1>2, <1>3 DEF Checkpoint

\* No worker lets its judges go before they have ended.
LEMMA ReleaseAttends ==
    ASSUME NEW w \in Workers, IInv, Attended(w), UNCHANGED concurrency,
           Finish(w) \/ Cancelled(w) \/ Unwind(w), NEW v \in Workers, Attended(v)
    PROVE  Attended(v)'
<1>1. judge' = [judge EXCEPT ![w] = NoJudges] /\ sess' = sess
  BY DEF Finish, Cancelled, Unwind, SaveAndRelease, agent
<1>2. \A i \in Execs : judge[w][i] # "open"
  <2>1. CASE Finish(w)
    BY <2>1 DEF Finish, Judging, IInv, Good, JudgeOK
  <2>2. CASE Cancelled(w)
    BY <2>2 DEF Cancelled, IInv, Good, JudgeOK
  <2>3. CASE Unwind(w)
    BY <2>3 DEF Unwind, JudgesEnded
  <2>. QED
    BY <2>1, <2>2, <2>3
<1>3. judge'[w] = NoJudges /\ \A u \in Workers \ {w} : judge'[u] = judge[u]
  BY <1>1 DEF IInv, TypeOK
<1>4. \A i \in Execs : judge'[v][i] # "none" => judge[v][i] # "none"
  BY <1>3 DEF NoJudges
<1>5. \A i \in Execs : <<v, i>> \in sess' => judge'[v][i] = "open"
  BY <1>1, <1>2, <1>3 DEF Attended
<1>. QED
  BY <1>4, <1>5, Fewer, Slots DEF IInv

\* A judge opens one session and closes it.
LEMMA JudgeAttends ==
    ASSUME NEW w \in Workers, NEW i \in Execs, IInv, UNCHANGED concurrency,
           Judge(w, i) \/ Receive(w, i), NEW v \in Workers, Attended(v), Attended(w)
    PROVE  Attended(v)'
<1>1. PICK now \in {"none", "open", "completed", "error"} :
        /\ judge' = [judge EXCEPT ![w] = [judge[w] EXCEPT ![i] = now]]
        /\ judge[w][i] # "none"
        /\ \/ now = "open" /\ sess' = sess \cup {<<w, i>>}
           \/ sess' = sess /\ judge[w][i] # "open"
           \/ sess' = sess \ {<<w, i>>}
  BY DEF Judge, OpenJudge, CloseJudge, Receive, agent
<1>2. /\ judge'[w][i] = now /\ \A j \in Execs \ {i} : judge'[w][j] = judge[w][j]
      /\ \A u \in Workers \ {w} : judge'[u] = judge[u]
  BY <1>1 DEF IInv, TypeOK
<1>3. \A j \in Execs : judge'[v][j] # "none" => judge[v][j] # "none"
  BY <1>1, <1>2
<1>4. \A j \in Execs : <<v, j>> \in sess' => judge'[v][j] = "open"
  <2>1. ASSUME NEW j \in Execs, <<v, j>> \in sess', v # w \/ j # i PROVE judge'[v][j] = "open"
    <3>1. <<v, j>> \in sess
      BY <1>1, <2>1
    <3>. QED
      BY <1>2, <2>1, <3>1 DEF Attended
  <2>2. CASE <<w, i>> \in sess' 
    BY <1>1, <1>2, <2>2 DEF Attended
  <2>. QED
    BY <2>1, <2>2
<1>. QED
  BY <1>3, <1>4, Fewer, Slots DEF IInv

\* With a replica its judges and their sessions go.
LEMMA CrashAttends ==
    ASSUME NEW p \in Procs, IInv, UNCHANGED concurrency, Crash(p), NEW v \in Workers, Attended(v)
    PROVE  Attended(v)'
<1>1. CASE p \in Workers
  <2>1. judge' = [judge EXCEPT ![p] = NoJudges] /\ sess' = {s \in sess : s[1] # p}
    BY <1>1 DEF Crash
  <2>2. judge'[p] = NoJudges /\ \A u \in Workers \ {p} : judge'[u] = judge[u]
    BY <1>1, <2>1 DEF IInv, TypeOK
  <2>3. \A i \in Execs : judge'[v][i] # "none" => judge[v][i] # "none"
    BY <2>2 DEF NoJudges
  <2>4. ASSUME NEW i \in Execs, <<v, i>> \in sess' PROVE judge'[v][i] = "open"
    <3>1. v # p /\ <<v, i>> \in sess
      BY <2>1, <2>4
    <3>. QED
      BY <2>2, <3>1 DEF Attended
  <2>. QED
    BY <2>3, <2>4, Fewer, Slots DEF IInv
<1>2. CASE p \notin Workers
  BY <1>2 DEF Crash, agent, Attended, Judges
<1>. QED
  BY <1>1, <1>2

\* Judges stay within the slots, and each session has its judge.
LEMMA AttendedStep ==
    ASSUME IInv, \A w \in Workers : Attended(w), [Next]_vars, NEW v \in Workers
    PROVE  Attended(v)'
<1>1. UNCHANGED concurrency
  BY Common
<1>2. CASE UNCHANGED <<judge, sess>>
  BY <1>1, <1>2 DEF Attended, Judges
<1>3. CASE Request \/ Expire \/ Outlive \/ ChangeAccess \/ UNCHANGED vars
  BY <1>2, <1>3 DEF Request, CreateWorkflowEvaluation, DeleteWorkflowEvaluation,
       UpdateWorkflowEvaluation, Expire, Outlive, ChangeAccess, agent, vars
<1>4. ASSUME NEW w \in Workers, Work(w) \/ Interrupt(w) PROVE Attended(v)'
  <2>1. CASE Claim(w) \/ Visit(w) \/ CreateRun(w) \/ Poll(w) \/ Record(w) \/ CancelRun(w) \/ Interrupt(w)
    BY <1>2, <2>1 DEF Claim, Claimed, Visit, CreateRun, Poll, Record, CancelRun, Interrupt, agent
  <2>2. CASE Finish(w) \/ Cancelled(w) \/ Unwind(w)
    BY <1>1, <2>2, ReleaseAttends
  <2>3. CASE Checkpoint(w)
    BY <1>1, <2>3, CheckpointAttends
  <2>. QED
    BY <1>4, <2>1, <2>2, <2>3 DEF Work
<1>5. ASSUME NEW w \in Workers, NEW i \in Execs, Receive(w, i) \/ Judge(w, i) PROVE Attended(v)'
  BY <1>1, <1>5, JudgeAttends
<1>6. ASSUME NEW c \in Cleaners, Clean(c) PROVE Attended(v)'
  <2>1. UNCHANGED judge /\ sess' \subseteq sess
    BY <1>6 DEF Clean, ClaimCleanup, DeleteRuns, SweepSessions, DeleteRow, Release, agent
  <2>2. \A i \in Execs : <<v, i>> \in sess' => judge'[v][i] = "open"
    BY <2>1 DEF Attended
  <2>. QED
    BY <1>1, <2>1, <2>2, Fewer, Slots DEF IInv
<1>7. ASSUME NEW p \in Procs, Crash(p) PROVE Attended(v)'
  BY <1>1, <1>7, CrashAttends
<1>8. ASSUME NEW i \in Execs, Cluster(i) \/ KillRun(i) PROVE Attended(v)'
  BY <1>2, <1>8 DEF Cluster, RunEnds, RunReleased, LatePasses, KillRun, agent
<1>. QED
  BY <1>3, <1>4, <1>5, <1>6, <1>7, <1>8 DEF Next

-----------------------------------------------------------------------------
(* Which steps are possible with a worker at work, and with none *)

\* A worker that is idle can only claim the row.
LEMMA OnlyClaims ==
    ASSUME NEW w \in Workers, pc[w] = "idle", \A i \in Execs : judge[w][i] = "none",
           Work(w) \/ Interrupt(w) \/ \E i \in Execs : Receive(w, i) \/ Judge(w, i)
    PROVE  Claim(w)
<1>1. ~Visit(w) /\ ~CreateRun(w) /\ ~Poll(w) /\ ~Record(w) /\ ~CancelRun(w) /\ ~Cancelled(w) /\ ~Finish(w)
  BY DEF Visit, CreateRun, Poll, Record, CancelRun, Cancelled, Finish
<1>2. ~Checkpoint(w) /\ ~Unwind(w) /\ ~Interrupt(w)
  BY DEF Checkpoint, Waits, Unwind, Interrupt, Working
<1>3. \A i \in Execs : ~Receive(w, i) /\ ~Judge(w, i)
  BY DEF Receive, Judge, OpenJudge, CloseJudge
<1>. QED
  BY <1>1, <1>2, <1>3 DEF Work

\* With no worker at work ...
LEMMA Unstaffed ==
    ASSUME IInv, AtWork = {}, [Next]_vars
    PROVE  \/ Request \/ Expire \/ Outlive \/ ChangeAccess \/ UNCHANGED vars
           \/ \E w \in Workers : Claim(w)
           \/ \E c \in Cleaners : Clean(c) \/ Crash(c)
           \/ \E i \in Execs : Cluster(i) \/ KillRun(i)
<1>1. \A w \in Workers : pc[w] = "idle" /\ (\A i \in Execs : judge[w][i] = "none") /\ ~Crash(w)
  BY DEF AtWork, IInv, Good, JudgeOK, Crash
<1>2. \A w \in Workers :
         (Work(w) \/ Interrupt(w) \/ \E i \in Execs : Receive(w, i) \/ Judge(w, i)) => Claim(w)
  BY <1>1, OnlyClaims
<1>3. \A p \in Procs : Crash(p) => p \in Cleaners
  BY <1>1 DEF Procs
<1>. QED
  BY <1>2, <1>3 DEF Next

\* ... and with one.
LEMMA Staffed ==
    ASSUME IInv, QInv, Prompt, Prompt', [Next]_vars, NEW w \in AtWork
    PROVE  \/ DeleteWorkflowEvaluation \/ ChangeAccess \/ UNCHANGED vars
           \/ Work(w) /\ ~Claim(w)
           \/ Interrupt(w) \/ Crash(w)
           \/ \E i \in Execs : Receive(w, i) \/ Judge(w, i)
           \/ \E c \in Cleaners : (Release(c) /\ holder # c) \/ Crash(c)
           \/ \E i \in Execs : Cluster(i) \/ KillRun(i)
<1>1. /\ w \in Workers /\ pc[w] # "idle"
      /\ holder = w /\ leased /\ row \in {"queued", "running"}
      /\ \A v \in Workers \ {w} : pc[v] = "idle" /\ \A i \in Execs : judge[v][i] = "none"
      /\ \A c \in Cleaners : pc[c] \notin {"list", "sweep", "delete"}
  BY Alone
<1>2. ~CreateWorkflowEvaluation /\ ~UpdateWorkflowEvaluation /\ ~Expire /\ \A v \in Workers : ~Claim(v)
  BY <1>1 DEF CreateWorkflowEvaluation, UpdateWorkflowEvaluation, Expire, Claim, Claimed
<1>3. ~Outlive
  <2>1. spent \in [Kinds -> Nat] /\ "slow" \in Kinds
    BY DEF IInv, TypeOK, Kinds
  <2>. QED
    BY <2>1, Unspent DEF Prompt, Outlive
<1>4. \A v \in Workers \ {w} :
         /\ ~(Work(v) \/ Interrupt(v) \/ \E i \in Execs : Receive(v, i) \/ Judge(v, i))
         /\ ~Crash(v)
  BY <1>1, <1>2, OnlyClaims DEF Crash
<1>5. \A c \in Cleaners : Clean(c) => Release(c) /\ holder # c
  BY <1>1, Apart DEF Clean, ClaimCleanup, DeleteRuns, SweepSessions, DeleteRow
<1>6. \A p \in Procs : Crash(p) => p = w \/ p \in Cleaners
  BY <1>4 DEF Procs
<1>7. Request => DeleteWorkflowEvaluation
  BY <1>2 DEF Request
<1>. QED
  BY <1>2, <1>3, <1>4, <1>5, <1>6, <1>7 DEF Next

-----------------------------------------------------------------------------
(* Cleaners *)

\* What the cluster does by itself only ends runs and takes them away.
Ebb == \A i \in Execs : /\ run'[i] = "active" => run[i] = "active"
                        /\ run'[i] # "none" => run[i] # "none"

LEMMA Ebbing ==
    ASSUME TypeOK, NEW i \in Execs, Cluster(i) \/ KillRun(i)
    PROVE  Ebb /\ UNCHANGED <<record, request, pc, local, judge, agent>>
<1>1. run \in [Execs -> {"none", "active", "ended", "bare"}]
  BY DEF TypeOK
<1>2. CASE RunEnds(i)
  BY <1>1, <1>2 DEF RunEnds, Ebb
<1>3. CASE RunReleased(i)
  BY <1>1, <1>3 DEF RunReleased, Ebb
<1>4. CASE LatePasses(i) \/ KillRun(i)
  BY <1>4 DEF LatePasses, KillRun, Ebb
<1>. QED
  BY <1>2, <1>3, <1>4 DEF Cluster

\* No worker's step touches a cleaner.
LEMMA Others ==
    ASSUME TypeOK, NEW w \in Workers, Work(w) \/ Interrupt(w) \/ \E i \in Execs : Receive(w, i) \/ Judge(w, i)
    PROVE  \A q \in Procs \ {w} : pc'[q] = pc[q]
<1>1. (\E place : Goto(w, place)) \/ UNCHANGED pc
  <2>1. CASE Claim(w) \/ Visit(w) \/ CreateRun(w) \/ Checkpoint(w) \/ Poll(w) \/ Record(w) \/ CancelRun(w)
    BY <2>1 DEF Claim, Claimed, Visit, CreateRun, Checkpoint, Poll, Record, CancelRun
  <2>2. CASE Finish(w) \/ Cancelled(w) \/ Unwind(w) \/ Interrupt(w)
    BY <2>2 DEF Finish, Cancelled, Unwind, SaveAndRelease, Interrupt
  <2>3. CASE \E i \in Execs : Receive(w, i) \/ Judge(w, i)
    BY <2>3 DEF Receive, Judge, OpenJudge, CloseJudge
  <2>. QED
    BY <2>1, <2>2, <2>3 DEF Work
<1>. QED
  BY <1>1 DEF Goto, TypeOK

\* The row of a cleaner at work stays its own, and nothing comes back behind it.
LEMMA CleaningStep ==
    ASSUME IInv, QInv, [Next]_vars, NEW c \in Cleaners
    PROVE  Cleaning(c)'
<1>. SUFFICES ASSUME Prompt', pc'[c] \in {"list", "sweep", "delete"}
              PROVE  /\ holder' = c /\ leased' /\ deleting'
                     /\ pc'[c] # "list" => Owned' = {}
                     /\ pc'[c] = "delete" => sess' = {} /\ ~strays'
  BY DEF Cleaning
<1>1. Prompt /\ ~Outlive /\ c \in Procs /\ c \notin Workers /\ pc \in [Procs -> Places]
  <2>1. spent \in [Kinds -> Nat] /\ "slow" \in Kinds
    BY DEF IInv, TypeOK, Kinds
  <2>. QED
    BY <2>1, Unspent, Common, AreProcs, Apart DEF Prompt, Outlive, IInv, TypeOK
<1>2. ASSUME NEW d \in Cleaners, Clean(d), d # c PROVE pc'[c] = pc[c]
  <2>1. \E place : Goto(d, place)
    BY <1>2 DEF Clean, ClaimCleanup, DeleteRuns, SweepSessions, DeleteRow, Release
  <2>. QED
    BY <1>1, <1>2, <2>1 DEF Goto
<1>3. ASSUME NEW p \in Procs, Crash(p) PROVE p # c /\ pc'[c] = pc[c]
  BY <1>1, <1>3 DEF Crash, Goto
<1>4. CASE Clean(c) /\ pc[c] \notin {"list", "sweep", "delete"}
  <2>1. ClaimCleanup(c)
    BY <1>1, <1>4 DEF Clean, DeleteRuns, SweepSessions, DeleteRow, Release, Goto
  <2>. QED
    BY <1>1, <2>1 DEF ClaimCleanup, Goto
<1>5. CASE pc[c] \in {"list", "sweep", "delete"}
  <2>1. /\ holder = c /\ leased /\ deleting /\ AtWork = {}
        /\ \A v \in Workers : pc[v] = "idle" /\ \A i \in Execs : judge[v][i] = "none"
        /\ \A d \in Cleaners \ {c} : pc[d] \notin {"list", "sweep", "delete"}
    BY <1>1, <1>5, CleanerAlone
  <2>2. /\ pc[c] # "list" => Owned = {}
        /\ pc[c] = "delete" => sess = {} /\ ~strays
    BY <1>1, <1>5 DEF QInv, Cleaning
  <2>3. ASSUME UNCHANGED <<holder, leased, deleting, sess, strays>>, Ebb, pc'[c] = pc[c]
        PROVE  /\ holder' = c /\ leased' /\ deleting'
               /\ pc'[c] # "list" => Owned' = {}
               /\ pc'[c] = "delete" => sess' = {} /\ ~strays'
    BY <2>1, <2>2, <2>3 DEF Ebb, Owned
  <2>4. CASE Request \/ ChangeAccess \/ UNCHANGED vars
    <3>1. UNCHANGED <<holder, leased, deleting, sess, strays, run, pc>>
      BY <2>1, <2>4 DEF Request, CreateWorkflowEvaluation, DeleteWorkflowEvaluation,
           UpdateWorkflowEvaluation, ChangeAccess, vars, record, cluster, agent
    <3>. QED
      BY <2>3, <3>1 DEF Ebb
  <2>5. ~Expire /\ \A w \in Workers : ~Claim(w)
    BY <1>5, <2>1 DEF Expire, Claim, Claimed
  <2>6. CASE Clean(c)
    <3>1. CASE DeleteRuns(c)
      BY <1>1, <2>1, <3>1 DEF DeleteRuns, record, Owned, Goto
    <3>2. CASE SweepSessions(c)
      <4>1. /\ UNCHANGED <<holder, leased, deleting, run>> /\ Owned = {}
            /\ pc[c] = "sweep"
            /\ (sess' = {} /\ strays' = FALSE) \/ pc'[c] = "release"
        BY <1>1, <2>2, <3>2 DEF SweepSessions, record, cluster, Goto
      <4>. QED
        BY <2>1, <4>1 DEF Owned
    <3>3. CASE DeleteRow(c)
      BY <1>1, <3>3 DEF DeleteRow, Goto
    <3>. QED
      BY <1>5, <2>6, <3>1, <3>2, <3>3 DEF Clean, ClaimCleanup, Release
  <2>7. ASSUME NEW d \in Cleaners, d # c, Clean(d)
        PROVE  /\ holder' = c /\ leased' /\ deleting'
               /\ pc'[c] # "list" => Owned' = {}
               /\ pc'[c] = "delete" => sess' = {} /\ ~strays'
    <3>1. Release(d)
      BY <2>1, <2>7 DEF Clean, ClaimCleanup, DeleteRuns, SweepSessions, DeleteRow
    <3>2. UNCHANGED <<holder, leased, deleting, sess, strays, run>>
      BY <2>1, <2>7, <3>1 DEF Release, cluster, agent
    <3>. QED
      BY <1>2, <2>3, <2>7, <3>2 DEF Ebb
  <2>8. ASSUME NEW d \in Cleaners, Crash(d)
        PROVE  /\ holder' = c /\ leased' /\ deleting'
               /\ pc'[c] # "list" => Owned' = {}
               /\ pc'[c] = "delete" => sess' = {} /\ ~strays'
    <3>1. UNCHANGED <<holder, leased, deleting, sess, strays, run>>
      BY <2>8, Apart DEF Crash, record, agent, cluster
    <3>. QED
      BY <1>3, <2>3, <2>8, <3>1, AreProcs DEF Ebb
  <2>9. ASSUME NEW i \in Execs, Cluster(i) \/ KillRun(i)
        PROVE  /\ holder' = c /\ leased' /\ deleting'
               /\ pc'[c] # "list" => Owned' = {}
               /\ pc'[c] = "delete" => sess' = {} /\ ~strays'
    BY <2>3, <2>9, Ebbing DEF IInv, record, agent
  <2>. QED
    BY <1>1, <2>1, <2>4, <2>5, <2>6, <2>7, <2>8, <2>9, Unstaffed
<1>6. CASE pc[c] \notin {"list", "sweep", "delete"} /\ ~Clean(c)
  <2>1. pc'[c] = pc[c]
    <3>1. CASE Request \/ Expire \/ ChangeAccess \/ UNCHANGED vars
      BY <3>1 DEF Request, CreateWorkflowEvaluation, DeleteWorkflowEvaluation,
           UpdateWorkflowEvaluation, Expire, ChangeAccess, vars
    <3>2. ASSUME NEW w \in Workers,
                 Work(w) \/ Interrupt(w) \/ \E i \in Execs : Receive(w, i) \/ Judge(w, i)
          PROVE  pc'[c] = pc[c]
      BY <1>1, <3>2, Others DEF IInv
    <3>3. ASSUME NEW i \in Execs, Cluster(i) \/ KillRun(i) PROVE pc'[c] = pc[c]
      BY <3>3, Ebbing DEF IInv
    <3>. QED
      BY <1>1, <1>2, <1>3, <1>6, <3>1, <3>2, <3>3 DEF Next
  <2>. QED
    BY <1>6, <2>1
<1>. QED
  BY <1>4, <1>5, <1>6

-----------------------------------------------------------------------------
(* Rows that are over and rows that are gone *)

\* Who writes the row, and when it says that the evaluation is over.
LEMMA Writes ==
    ASSUME [Next]_vars
    PROVE  \/ UNCHANGED <<row, saved>>
           \/ row' = "queued"
           \/ \E w \in Workers : Saved(w, "running")
           \/ \E w \in Workers, state \in {"completed", "cancelled"} :
                 Saved(w, state) /\ Pending(res[w]) = {}
           \/ \E c \in Cleaners : DeleteRow(c) /\ row' = "gone"
<1>1. CASE Request \/ Expire \/ Outlive \/ ChangeAccess \/ UNCHANGED vars
  BY <1>1 DEF Request, CreateWorkflowEvaluation, DeleteWorkflowEvaluation,
       UpdateWorkflowEvaluation, Expire, Outlive, ChangeAccess, record, vars
<1>2. ASSUME NEW w \in Workers, Work(w) \/ Interrupt(w)
      PROVE  \/ UNCHANGED <<row, saved>>
             \/ \E state \in {"running", "completed", "cancelled"} :
                   Saved(w, state) /\ (state # "running" => Pending(res[w]) = {})
  <2>1. CASE Claim(w) \/ Visit(w) \/ CreateRun(w) \/ Poll(w) \/ CancelRun(w)
    BY <2>1 DEF Claim, Claimed, Visit, CreateRun, Poll, CancelRun, record
  <2>2. CASE Checkpoint(w) \/ Record(w) \/ Interrupt(w)
    BY <2>2 DEF Checkpoint, Record, Interrupt
  <2>3. CASE Finish(w) \/ Cancelled(w) \/ Unwind(w)
    BY <2>3 DEF Finish, Cancelled, Unwind, SaveAndRelease, Over
  <2>. QED
    BY <1>2, <2>1, <2>2, <2>3 DEF Work
<1>3. ASSUME NEW w \in Workers, NEW i \in Execs, Receive(w, i) \/ Judge(w, i) PROVE UNCHANGED <<row, saved>>
  BY <1>3 DEF Receive, Judge, OpenJudge, CloseJudge, record
<1>4. ASSUME NEW c \in Cleaners, Clean(c)
      PROVE  UNCHANGED <<row, saved>> \/ (DeleteRow(c) /\ row' = "gone")
  BY <1>4 DEF Clean, ClaimCleanup, DeleteRuns, SweepSessions, DeleteRow, Release, record
<1>5. ASSUME NEW p \in Procs, Crash(p) PROVE UNCHANGED <<row, saved>>
  BY <1>5 DEF Crash, record
<1>6. ASSUME NEW i \in Execs, Cluster(i) \/ KillRun(i) PROVE UNCHANGED <<row, saved>>
  BY <1>6 DEF Cluster, RunEnds, RunReleased, LatePasses, KillRun, record
<1>. QED
  BY <1>1, <1>2, <1>3, <1>4, <1>5, <1>6 DEF Next

\* No step is taken from a prompt behaviour to one that is prompt after all.
LEMMA StaysPrompt ==
    ASSUME TypeOK, [Next]_vars, Prompt'
    PROVE  Prompt /\ ~Outlive
<1>1. spent \in [Kinds -> Nat] /\ "slow" \in Kinds
  BY DEF TypeOK, Kinds
<1>. QED
  BY <1>1, Unspent, Common DEF Prompt, Outlive

\* Nobody works on a row that is over or gone.
LEMMA NobodyAtWork ==
    ASSUME IInv, Prompt, row \notin {"queued", "running"}
    PROVE  AtWork = {}
  BY DEF AtWork, IInv, Good, Held, RowOpen

\* Rows that are over stay right, and so do rows that are gone.
LEMMA EndedStep ==
    ASSUME IInv, QInv, [Next]_vars
    PROVE  Ended'
<1>1. ASSUME row' \in {"completed", "cancelled"} PROVE Pending(saved)' = {}
  <2>1. CASE UNCHANGED <<row, saved>>
    BY <1>1, <2>1 DEF QInv, Ended, Pending
  <2>2. ASSUME NEW w \in Workers, NEW state \in {"completed", "cancelled"},
               Saved(w, state), Pending(res[w]) = {}
        PROVE  Pending(saved)' = {}
    BY <2>2 DEF Saved, Pending
  <2>. QED
    BY <1>1, <2>1, <2>2, Writes DEF Saved
<1>2. ASSUME Prompt', row' = "gone" PROVE Owned' = {} /\ sess' = {} /\ ~strays'
  <2>1. Prompt /\ ~Outlive
    BY <1>2, StaysPrompt DEF IInv
  <2>2. CASE row # "gone"
    <3>1. PICK c \in Cleaners : DeleteRow(c)
      BY <1>2, <2>2, Writes DEF Saved
    <3>2. pc[c] = "delete" /\ UNCHANGED <<run, sess, strays>>
      BY <3>1 DEF DeleteRow, cluster, agent
    <3>. QED
      BY <2>1, <3>2 DEF QInv, Cleaning, Owned
  <2>3. CASE row = "gone"
    <3>1. AtWork = {} /\ Owned = {} /\ sess = {} /\ ~strays
      BY <2>1, <2>3, NobodyAtWork DEF QInv, Ended
    <3>2. CASE Ebb /\ sess' \subseteq sess /\ strays' \in {strays, FALSE}
      <4>1. Owned' = {} /\ sess' = {}
        BY <3>1, <3>2 DEF Ebb, Owned
      <4>2. CASE strays' = strays
        BY <3>1, <4>1, <4>2
      <4>3. CASE strays' = FALSE
        BY <4>1, <4>3
      <4>. QED
        BY <3>2, <4>2, <4>3
    <3>3. CASE Request \/ Expire \/ ChangeAccess \/ UNCHANGED vars
      BY <3>2, <3>3 DEF Request, CreateWorkflowEvaluation, DeleteWorkflowEvaluation,
           UpdateWorkflowEvaluation, Expire, ChangeAccess, vars, cluster, agent, Ebb
    <3>4. \A w \in Workers : ~Claim(w)
      BY <2>3 DEF Claim
    <3>5. ASSUME NEW c \in Cleaners, Clean(c) \/ Crash(c) PROVE Owned' = {} /\ sess' = {} /\ ~strays'
      <4>1. UNCHANGED run /\ sess' \subseteq sess /\ strays' \in {strays, FALSE}
        BY <3>5, Apart DEF Clean, ClaimCleanup, DeleteRuns, SweepSessions, DeleteRow, Release, Crash,
             cluster, agent
      <4>. QED
        BY <3>2, <4>1 DEF Ebb
    <3>6. ASSUME NEW i \in Execs, Cluster(i) \/ KillRun(i) PROVE Owned' = {} /\ sess' = {} /\ ~strays'
      BY <3>2, <3>6, Ebbing DEF IInv, agent
    <3>. QED
      BY <2>1, <3>1, <3>3, <3>4, <3>5, <3>6, Unstaffed
  <2>. QED
    BY <2>2, <2>3
<1>. QED
  BY <1>1, <1>2 DEF Ended

-----------------------------------------------------------------------------
(* What a prompt behaviour keeps, with a worker at work and with none *)

\* With worker w at work.
View(w) ==
    /\ Sees(saved) /\ Sees(res[w])
    /\ pc[w] \in {"runs", "create"} => Passed(w)
    /\ pc[w] = "create" => Slot(w)
    /\ spent["loss"] = 0 => Fits(res[w])
    /\ Mild => /\ allowed /\ pc[w] # "cancel"
               /\ Cardinality(Running) <= concurrency
               /\ Ordered /\ Known(saved) /\ Known(res[w])

\* With none.
Rest ==
    /\ Sees(saved)
    /\ spent["loss"] = 0 => Fits(saved)
    /\ Mild => /\ allowed
               /\ Cardinality(Running) <= concurrency
               /\ row # "gone" /\ ~deleting => Ordered /\ Known(saved)

\* The part of the invariant they stand for.
Core ==
    /\ \A w \in Workers : Aware(w)
    /\ Prompt => Sees(saved)
    /\ Fitting /\ Untouched

LEMMA Viewing ==
    ASSUME IInv, QInv, Prompt, NEW w \in AtWork
    PROVE  View(w)
<1>1. w \in Workers /\ pc[w] # "idle" /\ row \in {"queued", "running"}
  BY Alone
<1>2. Aware(w) /\ Fitting /\ Untouched /\ Sees(saved)
  BY <1>1 DEF QInv
<1>. QED
  BY <1>1, <1>2 DEF Aware, Fitting, Untouched, View

LEMMA Resting ==
    ASSUME IInv, QInv, Prompt, AtWork = {}
    PROVE  Rest
  BY DEF QInv, Fitting, Untouched, Rest

\* The others stay idle.
LEMMA ViewSuffices ==
    ASSUME NEW w \in Workers, \A v \in Workers \ {w} : pc'[v] = "idle", pc'[w] # "idle", View(w)'
    PROVE  Core'
<1>1. AtWork' = {w}
  BY DEF AtWork
<1>2. \A v \in Workers : Aware(v)'
  BY DEF Aware, View
<1>3. Fitting'
  BY <1>1 DEF Fitting, View
<1>4. Untouched'
  BY <1>1 DEF Untouched, View
<1>. QED
  BY <1>2, <1>3, <1>4 DEF Core, View

LEMMA RestSuffices ==
    ASSUME \A v \in Workers : pc'[v] = "idle", Rest'
    PROVE  Core'
<1>1. AtWork' = {}
  BY DEF AtWork
<1>. QED
  BY <1>1 DEF Core, Aware, Fitting, Untouched, Rest

\* What is not spent after a step was not before.
LEMMA Thrift ==
    ASSUME TypeOK, [Next]_vars
    PROVE  /\ spent'["loss"] = 0 => spent["loss"] = 0 /\ ~Spend("loss")
           /\ Mild' => Mild /\ ~Spend("kill") /\ ~Spend("access")
<1>1. spent \in [Kinds -> Nat] /\ {"loss", "kill", "access"} \subseteq Kinds
  BY DEF TypeOK, Kinds
<1>2. \A kind \in {"loss", "kill", "access"} : spent'[kind] = 0 => spent[kind] = 0 /\ ~Spend(kind)
  BY <1>1, Unspent, Common
<1>. QED
  BY <1>2 DEF Mild

\* Runs that end, or go, make room.
LEMMA EbbRoom ==
    ASSUME Ebb, UNCHANGED concurrency, concurrency \in Nat, Cardinality(Running) <= concurrency
    PROVE  Cardinality(Running)' <= concurrency'
<1>1. Running' \in SUBSET Running /\ Running \in SUBSET Execs
  BY DEF Ebb, Running
<1>2. Cardinality(Running') <= Cardinality(Running) /\ Cardinality(Running') \in Nat /\ Cardinality(Running) \in Nat
  BY <1>1, Smaller
<1>. QED
  BY <1>2

\* ... also for who counts on them.
LEMMA EbbFits ==
    ASSUME NEW es, Ebb, UNCHANGED concurrency, concurrency \in Nat, Fits(es)
    PROVE  Fits(es)'
<1>1. Occupied(es)' \in SUBSET Occupied(es) /\ Occupied(es) \in SUBSET Execs
  BY DEF Ebb, Occupied
<1>2. /\ Cardinality(Occupied(es)') <= Cardinality(Occupied(es))
      /\ Cardinality(Occupied(es)') \in Nat /\ Cardinality(Occupied(es)) \in Nat
  BY <1>1, Smaller
<1>. QED
  BY <1>2 DEF Fits, Ebb

\* Steps of nobody at work leave the view of the worker that is.
LEMMA ViewEbbs ==
    ASSUME NEW w \in Workers, TypeOK, View(w), [Next]_vars, Ebb,
           UNCHANGED <<saved, k, res>>, pc'[w] = pc[w],
           Mild /\ Mild' => allowed' = allowed /\ (Ordered => Ordered' /\ Owned' = Owned)
    PROVE  View(w)'
<1>1. UNCHANGED concurrency /\ concurrency \in Nat
  BY Common, Slots
<1>2. Sees(saved)' /\ Sees(res[w])'
  BY DEF View, Sees, Ebb
<1>3. (pc[w] \in {"runs", "create"} => Passed(w))' /\ (pc[w] = "create" => Slot(w))'
  BY <1>1 DEF View, Passed, Slot, Active
<1>4. (spent["loss"] = 0 => Fits(res[w]))'
  <2>1. PICK es : es = res[w]
    OBVIOUS
  <2>2. spent'["loss"] = 0 => Fits(es)
    BY <2>1, Thrift DEF View
  <2>3. spent'["loss"] = 0 => Fits(es)'
    BY <1>1, <2>2, EbbFits
  <2>4. es = res'[w]
    BY <2>1
  <2>. QED
    BY <2>3, <2>4
<1>5. ASSUME Mild'
      PROVE  (/\ allowed /\ pc[w] # "cancel" /\ Cardinality(Running) <= concurrency
              /\ Ordered /\ Known(saved) /\ Known(res[w]))'
  <2>1. Mild /\ allowed' = allowed /\ Ordered' /\ Owned' = Owned
    BY <1>5, Thrift DEF View
  <2>2. Cardinality(Running)' <= concurrency'
    BY <1>1, <2>1, EbbRoom DEF View
  <2>3. Known(saved)' /\ Known(res[w])'
    BY <2>1 DEF View, Known, Owned
  <2>. QED
    BY <2>1, <2>2, <2>3 DEF View
<1>. QED
  BY <1>2, <1>3, <1>4, <1>5 DEF View

\* What the cluster does by itself spares the runs nobody deleted.
LEMMA ClusterOrder ==
    ASSUME TypeOK, NEW i \in Execs, Cluster(i) \/ KillRun(i), Ordered
    PROVE  Spend("kill") \/ (Ordered' /\ Owned' = Owned)
<1>1. run \in [Execs -> {"none", "active", "ended", "bare"}]
  BY DEF TypeOK
<1>2. CASE RunEnds(i)
  <2>1. UNCHANGED dying /\ \A j \in Execs : run'[j] = "none" <=> run[j] = "none"
    BY <1>1, <1>2 DEF RunEnds
  <2>. QED
    BY <2>1 DEF Ordered, Owned
<1>3. CASE RunReleased(i)
  BY <1>3 DEF RunReleased, Ordered
<1>4. CASE LatePasses(i)
  BY <1>4 DEF LatePasses, Ordered, Owned
<1>5. CASE KillRun(i)
  BY <1>5 DEF KillRun
<1>. QED
  BY <1>2, <1>3, <1>4, <1>5 DEF Cluster

-----------------------------------------------------------------------------
(* The worker at work *)

\* The worker looks at the next run that is due.
LEMMA VisitView ==
    ASSUME NEW w \in Workers, IInv, View(w), [Next]_vars, Visit(w)
    PROVE  View(w)' /\ pc'[w] # "idle"
<1>1. PICK i \in Due(w) :
        /\ \A j \in Due(w) : i <= j
        /\ \/ /\ run[i] = "none" /\ res[w][i].state = "queued"
              /\ k' = [k EXCEPT ![w] = i] /\ Goto(w, "create") /\ UNCHANGED res
           \/ /\ UNCHANGED pc
              /\ \/ run[i] \in {"none", "bare"} /\ ~Startable(i, res[w][i]) /\ Step(w, i, "error")
                 \/ run[i] = "active" /\ Step(w, i, "running")
                 \/ run[i] = "ended" /\ Collect(w, i)
                 \/ run[i] = "ended" /\ \E state \in {"error", "running"} : Step(w, i, state)
  BY DEF Visit, Startable
<1>2. pc[w] = "runs" /\ UNCHANGED <<record, request, judge, cluster, agent, spent>>
  BY DEF Visit
<1>3. /\ i \in Execs /\ i >= k[w] /\ i \in Int /\ k[w] \in Int /\ \A j \in Execs : j \in Int
      /\ res[w][i].state = "running" \/ (res[w][i].state = "queued" /\ Slot(w))
  BY DEF Due, Execs, IInv, TypeOK
<1>4. Passed(w) /\ Sees(res[w]) /\ Sees(saved)
  BY <1>2 DEF View
\* Everything before it is off the queue.
<1>5. \A j \in Execs : j < i => res[w][j].state # "queued"
  <2>1. ASSUME NEW j \in Execs, j < i, res[w][j].state = "queued" PROVE FALSE
    <3>1. j >= k[w]
      BY <1>3, <1>4, <2>1 DEF Passed
    <3>2. res[w][i].state # "running"
      BY <1>3, <1>4, <2>1 DEF Sees
    <3>3. j \in Due(w)
      BY <1>3, <2>1, <3>1, <3>2 DEF Due
    <3>. QED
      BY <1>1, <1>3, <2>1, <3>3
  <2>. QED
    BY <2>1
<1>6. CASE /\ run[i] = "none" /\ res[w][i].state = "queued"
           /\ k' = [k EXCEPT ![w] = i] /\ Goto(w, "create") /\ UNCHANGED res
  <2>1. pc'[w] = "create" /\ k'[w] = i
    BY <1>6, AreProcs DEF Goto, IInv, TypeOK
  <2>2. Slot(w)' /\ Passed(w)'
    BY <1>2, <1>3, <1>5, <1>6, <2>1 DEF Slot, Active, Passed, request
  <2>3. UNCHANGED <<saved, run, dying, allowed, concurrency, spent>> /\ res'[w] = res[w]
    BY <1>2, <1>6 DEF record, cluster, request
  <2>. QED
    BY <1>2, <2>1, <2>2, <2>3 DEF View, Sees, Fits, Occupied, Mild, Ordered, Known, Running
<1>7. ASSUME UNCHANGED pc, NEW state \in {"running", "judging", "error"},
             k'[w] = i + 1, res'[w][i].state = state,
             \A j \in Execs \ {i} : res'[w][j] = res[w][j],
             run[i] = "active" => state = "running",
             state = "judging" => run[i] = "ended",
             state # "error" => run[i] # "none",
             run[i] = "none" => ~Startable(i, res[w][i])
      PROVE  View(w)' /\ pc'[w] # "idle"
  <2>1. UNCHANGED <<saved, run, dying, allowed, concurrency, spent>> /\ pc'[w] = "runs"
    BY <1>2, <1>7 DEF record, cluster, request
  <2>2. Sees(saved)'
    BY <1>4, <2>1 DEF Sees
  <2>3. Passed(w)'
    <3>1. ASSUME NEW j \in Execs, j < k'[w] PROVE res'[w][j].state # "queued"
      <4>1. j = i \/ j < i
        <5>1. i \in Int /\ j \in Int
          BY <1>3
        <5>2. j < i + 1
          BY <1>7, <3>1
        <5>. QED
          BY <5>1, <5>2
      <4>2. CASE j = i
        BY <1>7, <4>2
      <4>3. CASE j < i
        BY <1>3, <1>5, <1>7, <4>3
      <4>. QED
        BY <4>1, <4>2, <4>3
    <3>. QED
      BY <3>1 DEF Passed
  <2>4. Sees(res[w])'
    BY <1>3, <1>4, <1>5, <1>7, <2>1 DEF Sees
  <2>5. (spent["loss"] = 0 => Fits(res[w]))'
    <3>1. SUFFICES ASSUME spent["loss"] = 0 PROVE Fits(res[w])'
      BY <2>1
    <3>2. Fits(res[w])
      BY <3>1 DEF View
    <3>3. CASE res[w][i].state = "queued" /\ run[i] = "none"
      BY <1>7, <3>3 DEF Startable
    <3>4. CASE res[w][i].state = "running" \/ run[i] # "none"
      <4>1. Occupied(res[w])' \in SUBSET Occupied(res[w]) /\ Occupied(res[w]) \in SUBSET Execs
        BY <1>3, <1>7, <2>1, <3>4 DEF Occupied
      <4>2. /\ Cardinality(Occupied(res[w])') <= Cardinality(Occupied(res[w]))
            /\ Cardinality(Occupied(res[w])') \in Nat /\ Cardinality(Occupied(res[w])) \in Nat
        BY <4>1, Smaller
      <4>3. Cardinality(Occupied(res[w])) <= concurrency /\ concurrency \in Nat
        BY <1>3, <3>2, Slots DEF Fits, IInv
      <4>4. Cardinality(Occupied(res[w])') <= concurrency'
        BY <2>1, <4>2, <4>3
      <4>. QED
        BY <1>3, <1>7, <2>1, <3>2, <4>4 DEF Fits
    <3>. QED
      BY <1>3, <3>3, <3>4
  <2>6. ASSUME Mild'
        PROVE  (/\ allowed /\ pc[w] # "cancel" /\ Cardinality(Running) <= concurrency
                /\ Ordered /\ Known(saved) /\ Known(res[w]))'
    <3>1. Mild /\ Known(saved) /\ Known(res[w]) /\ allowed /\ Cardinality(Running) <= concurrency /\ Ordered
      BY <2>1, <2>6 DEF Mild, View
    <3>2. run[i] # "none"
      BY <1>3, <1>7, <3>1 DEF Known, Startable
    <3>. QED
      BY <1>7, <2>1, <3>1, <3>2 DEF Known, Ordered, Running
  <2>. QED
    BY <2>1, <2>2, <2>3, <2>4, <2>5, <2>6 DEF View
<1>8. ASSUME NEW state \in {"error", "running"}, Step(w, i, state)
      PROVE  /\ k'[w] = i + 1 /\ res'[w][i].state = state
             /\ \A j \in Execs \ {i} : res'[w][j] = res[w][j]
  <2>1. state \in States
    BY <1>8 DEF States
  <2>2. k'[w] = i + 1
    BY <1>8 DEF Step, IInv, TypeOK
  <2>. QED
    BY <1>3, <1>8, <2>1, <2>2, Stepped DEF IInv, TypeOK
<1>9. CASE UNCHANGED pc /\ run[i] = "ended" /\ Collect(w, i)
  <2>1. k'[w] = i + 1 /\ res'[w][i].state = "judging" /\ \A j \in Execs \ {i} : res'[w][j] = res[w][j]
    BY <1>3, <1>9 DEF Collect, IInv, TypeOK
  <2>. QED
    BY <1>7, <1>9, <2>1
<1>10. CASE UNCHANGED pc /\ run[i] \in {"none", "bare"} /\ ~Startable(i, res[w][i]) /\ Step(w, i, "error")
  BY <1>7, <1>8, <1>10
<1>11. CASE UNCHANGED pc /\ run[i] = "active" /\ Step(w, i, "running")
  BY <1>7, <1>8, <1>11
<1>12. CASE UNCHANGED pc /\ run[i] = "ended" /\ \E state \in {"error", "running"} : Step(w, i, state)
  BY <1>7, <1>8, <1>12
<1>. QED
  BY <1>1, <1>6, <1>9, <1>10, <1>11, <1>12

\* A run that is started takes a slot that was free, after all before it; the
\* worker may or may not hear of it.
LEMMA StartView ==
    ASSUME NEW w \in Workers, IInv, Prompt, View(w), [Next]_vars, pc[w] = "create",
           Started(k[w]), UNCHANGED <<saved, allowed>>,
           res'[w][k[w]].state \in {"queued", "running"},
           \A j \in Execs \ {k[w]} : res'[w][j] = res[w][j],
           \/ pc'[w] = "unwind"
           \/ pc'[w] = "runs" /\ k'[w] = k[w] + 1 /\ res'[w][k[w]].state = "running"
    PROVE  View(w)' /\ pc'[w] # "idle"
<1>. DEFINE i == k[w]
<1>1. /\ i \in Execs /\ i \in Int /\ \A j \in Execs : j \in Int
      /\ res[w][i].state = "queued" /\ saved[i].state = "queued"
  BY DEF IInv, Good, Creating, Queued, Execs
<1>2. Passed(w) /\ Slot(w) /\ Sees(saved) /\ Sees(res[w])
  BY DEF View
<1>3. /\ run'[i] # "none" /\ \A j \in Execs \ {i} : run'[j] = run[j]
      /\ run[i] # "none" => run' = run
      /\ UNCHANGED dying
  BY <1>1 DEF Started, cluster, IInv, TypeOK
<1>4. UNCHANGED concurrency /\ concurrency \in Nat
  BY Common, Slots DEF IInv
<1>5. Active(res[w]) \in SUBSET Execs /\ Cardinality(Active(res[w]) \cup {i}) <= concurrency
  <2>1. Active(res[w]) \in SUBSET Execs
    BY DEF Active
  <2>2. Cardinality(Active(res[w])) < concurrency
    BY <1>2 DEF Slot
  <2>3. Active(res[w]) \cup {i} \in SUBSET Execs
    BY <1>1, <2>1
  <2>4. Cardinality(Active(res[w])) \in Nat /\ Cardinality(Active(res[w]) \cup {i}) \in Nat
    BY <2>1, <2>3, Smaller
  <2>5. Cardinality(Active(res[w]) \cup {i}) <= Cardinality(Active(res[w])) + 1
    BY <1>1, <2>1, OneMore
  <2>. HIDE DEF i
  <2>. QED
    BY <1>4, <2>1, <2>2, <2>4, <2>5
\* Whatever is within these executions fits.
<1>6. ASSUME NEW S, S \subseteq Active(res[w]) \cup {i} PROVE Cardinality(S) <= concurrency'
  <2>1. Active(res[w]) \cup {i} \in SUBSET Execs
    BY <1>1, <1>5
  <2>2. /\ Cardinality(S) <= Cardinality(Active(res[w]) \cup {i})
        /\ Cardinality(S) \in Nat /\ Cardinality(Active(res[w]) \cup {i}) \in Nat
    BY <1>6, <2>1, Smaller
  <2>. HIDE DEF i
  <2>. QED
    BY <1>4, <1>5, <2>2
<1>7. Sees(saved)'
  BY <1>1, <1>2, <1>3 DEF Sees
<1>8. Sees(res[w])'
  <2>1. ASSUME NEW j \in Execs
        PROVE  /\ res'[w][j].state \notin {"queued", "running"} => run'[j] # "active"
               /\ res'[w][j].state = "running" =>
                     \A m \in Execs : m < j => res'[w][m].state # "queued"
    <3>1. CASE j = i
      BY <1>1, <1>2, <3>1 DEF Passed
    <3>2. CASE j # i
      BY <1>1, <1>2, <1>3, <3>2 DEF Sees
    <3>. QED
      BY <3>1, <3>2
  <2>. QED
    BY <2>1 DEF Sees
<1>9. (pc[w] \in {"runs", "create"} => Passed(w))'
  <2>1. ASSUME NEW j \in Execs, pc'[w] = "runs", j < k'[w] PROVE res'[w][j].state # "queued"
    <3>1. k'[w] = i + 1 /\ (j = i \/ j < i)
      BY <1>1, <2>1
    <3>2. CASE j = i
      BY <2>1, <3>2
    <3>3. CASE j < i
      BY <1>1, <1>2, <3>3 DEF Passed
    <3>. QED
      BY <3>1, <3>2, <3>3
  <2>. QED
    BY <2>1 DEF Passed
<1>10. ASSUME spent'["loss"] = 0 PROVE Fits(res[w])'
  <2>1. Fits(res[w])
    BY <1>10, Thrift DEF IInv, View
  <2>2. \A j \in Execs \ {i} : ~(res[w][j].state = "queued" /\ run[j] # "none")
    BY <1>1, <1>2, <2>1 DEF Fits, Passed
  <2>3. \A j \in Execs : j < i => res'[w][j].state # "queued"
    BY <1>1, <1>2 DEF Passed
  <2>4. Occupied(res[w])' \subseteq Active(res[w]) \cup {i}
    BY <1>3, <2>2 DEF Occupied, Active
  <2>5. Cardinality(Occupied(res[w])') <= concurrency'
    BY <1>6, <2>4
  <2>. QED
    BY <1>3, <2>2, <2>3, <2>5 DEF Fits
<1>11. ASSUME Mild'
      PROVE  (/\ allowed /\ pc[w] # "cancel" /\ Cardinality(Running) <= concurrency
              /\ Ordered /\ Known(saved) /\ Known(res[w]))'
  <2>1. Mild /\ Known(saved) /\ Known(res[w]) /\ allowed /\ Ordered /\ Cardinality(Running) <= concurrency
    BY <1>11, Thrift DEF IInv, View
  <2>2. Known(saved)' /\ Known(res[w])'
    BY <1>1, <1>3, <2>1 DEF Known
  <2>3. Ordered'
    BY <1>1, <1>2, <1>3, <2>1 DEF Ordered, Known, Passed
  <2>4. Cardinality(Running)' <= concurrency'
    <3>1. CASE run[i] # "none"
      BY <1>3, <1>4, <2>1, <3>1 DEF Running
    <3>2. CASE run[i] = "none"
      <4>1. ASSUME NEW j \in Running', j # i PROVE j \in Active(res[w])
        <5>1. j \in Execs /\ run[j] = "active"
          BY <1>3, <4>1 DEF Running
        <5>2. j < i
          BY <1>1, <2>1, <3>2, <4>1, <5>1 DEF Ordered
        <5>. QED
          BY <1>1, <1>2, <5>1, <5>2 DEF Passed, Sees, Active
      <4>2. Running' \subseteq Active(res[w]) \cup {i}
        BY <4>1
      <4>. QED
        BY <1>6, <4>2
    <3>. QED
      BY <3>1, <3>2
  <2>. QED
    BY <2>1, <2>2, <2>3, <2>4
<1>. QED
  BY <1>7, <1>8, <1>9, <1>10, <1>11 DEF View

\* A checkpoint passes what the worker sees on to the row; a step from where it
\* waits moves nothing.
LEMMA SavedView ==
    ASSUME NEW w \in Workers, IInv, View(w), [Next]_vars, pc[w] # "cancel",
           saved' \in {saved, res[w]}, UNCHANGED <<res, run, dying, allowed>>,
           \/ pc'[w] \in {"wait", "unwind"}
           \/ pc'[w] = "runs" /\ k'[w] = 1
    PROVE  View(w)' /\ pc'[w] # "idle"
<1>1. UNCHANGED concurrency /\ \A j \in Execs : ~(j < 1)
  BY Common DEF Execs
<1>2. Sees(saved)' /\ Sees(res[w])'
  BY DEF View, Sees
<1>3. (pc[w] \in {"runs", "create"} => Passed(w))'
  BY <1>1 DEF Passed
<1>4. (spent["loss"] = 0 => Fits(res[w]))'
  BY <1>1, Thrift DEF IInv, View, Fits, Occupied
<1>5. ASSUME Mild'
      PROVE  (/\ allowed /\ pc[w] # "cancel" /\ Cardinality(Running) <= concurrency
              /\ Ordered /\ Known(saved) /\ Known(res[w]))'
  <2>1. Mild /\ Known(saved) /\ Known(res[w]) /\ allowed /\ Ordered /\ Cardinality(Running) <= concurrency
    BY <1>5, Thrift DEF IInv, View
  <2>2. Known(saved)' /\ Known(res[w])'
    BY <2>1 DEF Known
  <2>. QED
    BY <1>1, <2>1, <2>2 DEF Ordered, Running
<1>. QED
  BY <1>2, <1>3, <1>4, <1>5 DEF View

\* A judgment the coordinator receives frees a slot.
LEMMA ReceiveView ==
    ASSUME NEW w \in Workers, IInv, View(w), [Next]_vars, NEW i \in Execs, Receive(w, i)
    PROVE  View(w)' /\ pc'[w] # "idle"
<1>1. /\ judge[w][i] \in {"completed", "error"} /\ pc[w] = "wait"
      /\ UNCHANGED <<saved, run, dying, allowed>> /\ pc'[w] = "record"
  BY AreProcs DEF Receive, record, request, cluster, Goto, IInv, TypeOK
<1>2. /\ res[w][i].state = "judging" /\ res'[w][i].state \in {"completed", "error"}
      /\ \A j \in Execs \ {i} : res'[w][j] = res[w][j]
  <2>1. res' = [res EXCEPT ![w] = [res[w] EXCEPT ![i] = [res[w][i] EXCEPT !.state = judge[w][i]]]]
    BY DEF Receive
  <2>2. res[w] \in [Execs -> Execution] /\ res[w][i] \in Execution
    BY DEF IInv, TypeOK
  <2>3. [res[w][i] EXCEPT !.state = judge[w][i]].state = judge[w][i]
    BY <2>2 DEF Execution
  <2>4. res'[w] = [res[w] EXCEPT ![i] = [res[w][i] EXCEPT !.state = judge[w][i]]]
    BY <2>1 DEF IInv, TypeOK
  <2>5. res'[w][i].state = judge[w][i] /\ \A j \in Execs \ {i} : res'[w][j] = res[w][j]
    BY <2>2, <2>3, <2>4
  <2>. QED
    BY <1>1, <2>5 DEF IInv, Good, JudgeOK
<1>3. UNCHANGED concurrency /\ concurrency \in Nat
  BY Common, Slots DEF IInv
<1>4. Sees(saved)' /\ Sees(res[w])'
  BY <1>1, <1>2 DEF View, Sees
<1>5. ASSUME spent'["loss"] = 0 PROVE Fits(res[w])'
  <2>1. Fits(res[w])
    BY <1>5, Thrift DEF IInv, View
  <2>2. Occupied(res[w])' \in SUBSET Occupied(res[w]) /\ Occupied(res[w]) \in SUBSET Execs
    BY <1>1, <1>2 DEF Occupied
  <2>3. /\ Cardinality(Occupied(res[w])') <= Cardinality(Occupied(res[w]))
        /\ Cardinality(Occupied(res[w])') \in Nat /\ Cardinality(Occupied(res[w])) \in Nat
    BY <2>2, Smaller
  <2>4. ASSUME \E j \in Execs : res'[w][j].state \in {"queued", "running"}
        PROVE  Cardinality(Occupied(res[w])') <= concurrency'
    <3>1. \E j \in Execs : res[w][j].state \in {"queued", "running"}
      BY <1>2, <2>4
    <3>. QED
      BY <1>3, <2>1, <2>3, <3>1 DEF Fits
  <2>. QED
    BY <1>1, <1>2, <2>1, <2>4 DEF Fits
<1>6. ASSUME Mild'
      PROVE  (/\ allowed /\ pc[w] # "cancel" /\ Cardinality(Running) <= concurrency
              /\ Ordered /\ Known(saved) /\ Known(res[w]))'
  <2>1. Mild /\ Known(saved) /\ Known(res[w]) /\ allowed /\ Ordered /\ Cardinality(Running) <= concurrency
    BY <1>6, Thrift DEF IInv, View
  <2>2. Known(saved)' /\ Known(res[w])'
    BY <1>1, <1>2, <2>1 DEF Known
  <2>. QED
    BY <1>1, <1>3, <2>1, <2>2 DEF Ordered, Running
<1>. QED
  BY <1>1, <1>4, <1>5, <1>6 DEF View

\* Without access the worker starts nothing.
LEMMA CancelView ==
    ASSUME NEW w \in Workers, IInv, View(w), [Next]_vars, CancelRun(w)
    PROVE  View(w)' /\ pc'[w] # "idle"
<1>1. pc[w] = "cancel" /\ UNCHANGED <<saved, pc, run, allowed>>
  BY DEF CancelRun, record, request
<1>2. PICK i \in Execs :
        \/ /\ res[w][i].state = "judging" \/ run[i] = "none"
           /\ Step(w, i, "cancelled")
        \/ res[w][i].state \in States /\ Step(w, i, res[w][i].state)
  BY DEF CancelRun, Undone, Pending, IInv, TypeOK, Execution
<1>3. /\ \A j \in Execs \ {i} : res'[w][j] = res[w][j]
      /\ \/ res'[w][i].state = "cancelled" /\ (res[w][i].state = "judging" \/ run[i] = "none")
         \/ res'[w][i].state = res[w][i].state
  <2>1. "cancelled" \in States
    BY DEF States
  <2>. QED
    BY <1>2, <2>1, Stepped DEF IInv, TypeOK
<1>4. UNCHANGED concurrency /\ concurrency \in Nat
  BY Common, Slots DEF IInv
<1>5. Sees(saved)'
  BY <1>1 DEF View, Sees
<1>6. Sees(res[w])'
  BY <1>1, <1>3 DEF View, Sees
<1>7. ASSUME spent'["loss"] = 0 PROVE Fits(res[w])'
  <2>1. Fits(res[w])
    BY <1>7, Thrift DEF IInv, View
  <2>2. Occupied(res[w])' \in SUBSET Occupied(res[w]) /\ Occupied(res[w]) \in SUBSET Execs
    BY <1>1, <1>3 DEF Occupied
  <2>3. /\ Cardinality(Occupied(res[w])') <= Cardinality(Occupied(res[w]))
        /\ Cardinality(Occupied(res[w])') \in Nat /\ Cardinality(Occupied(res[w])) \in Nat
    BY <2>2, Smaller
  <2>4. ASSUME \E j \in Execs : res'[w][j].state \in {"queued", "running"}
        PROVE  Cardinality(Occupied(res[w])') <= concurrency'
    <3>1. \E j \in Execs : res[w][j].state \in {"queued", "running"}
      BY <1>3, <2>4
    <3>. QED
      BY <1>4, <2>1, <2>3, <3>1 DEF Fits
  <2>. QED
    BY <1>1, <1>3, <2>1, <2>4 DEF Fits
<1>8. ~Mild'
  BY <1>1, Thrift DEF IInv, View
<1>. QED
  BY <1>1, <1>5, <1>6, <1>7, <1>8 DEF View

-----------------------------------------------------------------------------
(* Releasing and claiming the row *)

\* A worker that stops leaves in the row what it saw, unless the save is lost or
\* the replica dies.
LEMMA ReleaseRest ==
    ASSUME NEW w \in Workers, IInv, View(w), [Next]_vars, UNCHANGED <<run, dying, allowed, deleting>>,
           row \in {"queued", "running"},
           \/ saved' = res[w]
           \/ saved' = saved /\ Spend("loss")
    PROVE  Rest'
<1>1. UNCHANGED concurrency
  BY Common
<1>2. Sees(saved)'
  BY DEF View, Sees
<1>3. (spent["loss"] = 0 => Fits(saved))'
  BY <1>1, Thrift DEF IInv, View, Fits, Occupied
<1>4. ASSUME Mild' PROVE (allowed /\ Cardinality(Running) <= concurrency /\ Ordered /\ Known(saved))'
  <2>1. Mild /\ Known(saved) /\ Known(res[w]) /\ allowed /\ Ordered /\ Cardinality(Running) <= concurrency
    BY <1>4, Thrift DEF IInv, View
  <2>. QED
    BY <1>1, <2>1 DEF Known, Ordered, Running
<1>. QED
  BY <1>2, <1>3, <1>4 DEF Rest

\* Who claims the row sees what it says.
LEMMA ClaimView ==
    ASSUME NEW w \in Workers, IInv, Rest, [Next]_vars, Claim(w)
    PROVE  View(w)' /\ pc'[w] # "idle"
<1>1. /\ res'[w] = saved /\ k'[w] = 1 /\ pc'[w] = IF allowed THEN "runs" ELSE "cancel"
      /\ row # "gone" /\ ~deleting
      /\ UNCHANGED <<saved, run, dying, allowed>>
  BY AreProcs DEF Claim, Claimed, Goto, request, cluster, IInv, TypeOK
<1>2. UNCHANGED concurrency /\ \A j \in Execs : ~(j < 1)
  BY Common DEF Execs
<1>3. Sees(saved)' /\ Sees(res[w])'
  BY <1>1 DEF Rest, Sees
<1>4. Passed(w)'
  BY <1>1, <1>2 DEF Passed
<1>5. (spent["loss"] = 0 => Fits(res[w]))'
  BY <1>1, <1>2, Thrift DEF IInv, Rest, Fits, Occupied
<1>6. ASSUME Mild'
      PROVE  (/\ allowed /\ pc[w] # "cancel" /\ Cardinality(Running) <= concurrency
              /\ Ordered /\ Known(saved) /\ Known(res[w]))'
  <2>1. Mild /\ Known(saved) /\ allowed /\ Ordered /\ Cardinality(Running) <= concurrency
    BY <1>1, <1>6, Thrift DEF IInv, Rest
  <2>. QED
    BY <1>1, <1>2, <2>1 DEF Known, Ordered, Running
<1>. QED
  BY <1>1, <1>3, <1>4, <1>5, <1>6 DEF View

\* Steps with no worker at work that leave the executions of the row.
LEMMA RestEbbs ==
    ASSUME TypeOK, Rest, [Next]_vars, Ebb, UNCHANGED saved,
           row' # "gone" /\ ~deleting' => row # "gone" /\ ~deleting,
           Mild /\ Mild' => /\ allowed' = allowed
                            /\ row' # "gone" /\ ~deleting' /\ Ordered => Ordered' /\ Owned' = Owned
    PROVE  Rest'
<1>1. UNCHANGED concurrency /\ concurrency \in Nat
  BY Common, Slots
<1>2. Sees(saved)'
  BY DEF Rest, Sees, Ebb
<1>3. (spent["loss"] = 0 => Fits(saved))'
  <2>1. PICK es : es = saved
    OBVIOUS
  <2>2. spent'["loss"] = 0 => Fits(es)
    BY <2>1, Thrift DEF Rest
  <2>3. spent'["loss"] = 0 => Fits(es)'
    BY <1>1, <2>2, EbbFits
  <2>4. es = saved'
    BY <2>1
  <2>. QED
    BY <2>3, <2>4
<1>4. ASSUME Mild'
      PROVE  (/\ allowed /\ Cardinality(Running) <= concurrency
              /\ row # "gone" /\ ~deleting => Ordered /\ Known(saved))'
  <2>1. Mild /\ allowed' = allowed /\ allowed
    BY <1>4, Thrift DEF Rest
  <2>2. Cardinality(Running)' <= concurrency'
    BY <1>1, <2>1, EbbRoom DEF Rest
  <2>3. ASSUME row' # "gone", ~deleting' PROVE Ordered' /\ Known(saved)'
    <3>1. Ordered /\ Known(saved)
      BY <2>1, <2>3 DEF Rest
    <3>2. Ordered' /\ Owned' = Owned
      BY <1>4, <2>1, <2>3, <3>1
    <3>. QED
      BY <3>1, <3>2 DEF Known, Owned
  <2>. QED
    BY <2>1, <2>2, <2>3
<1>. QED
  BY <1>2, <1>3, <1>4 DEF Rest

\* To judge again needs no slots for runs.
LEMMA UpdateRest ==
    ASSUME IInv, QInv, Rest, [Next]_vars, UpdateWorkflowEvaluation
    PROVE  Rest'
<1>1. /\ row = "completed" /\ ~deleting /\ UNCHANGED <<deleting, run, dying, allowed>>
      /\ \A i \in Execs : saved'[i] = saved[i] \/ saved'[i].state = "judging"
  <2>1. ASSUME NEW e \in Execution PROVE [e EXCEPT !.state = "judging"].state = "judging"
    BY DEF Execution
  <2>2. saved \in [Execs -> Execution]
    BY DEF IInv, TypeOK
  <2>. QED
    BY <2>1, <2>2 DEF UpdateWorkflowEvaluation, request, cluster
<1>2. \A i \in Execs : saved[i].state \notin {"queued", "running"}
  BY <1>1 DEF QInv, Ended, Pending
<1>3. \A i \in Execs : saved'[i].state \notin {"queued", "running"}
  BY <1>1, <1>2
<1>4. Sees(saved)'
  BY <1>1, <1>2, <1>3 DEF Rest, Sees
<1>5. Fits(saved)'
  BY <1>3 DEF Fits
<1>6. UNCHANGED concurrency
  BY Common
<1>7. ASSUME Mild' PROVE (allowed /\ Cardinality(Running) <= concurrency /\ Ordered /\ Known(saved))'
  <2>1. Mild /\ Known(saved) /\ allowed /\ Ordered /\ Cardinality(Running) <= concurrency
    BY <1>1, <1>7, Thrift DEF IInv, Rest
  <2>2. Known(saved)'
    BY <1>1, <1>2, <2>1 DEF Known
  <2>. QED
    BY <1>1, <1>6, <2>1, <2>2 DEF Ordered, Running
<1>. QED
  BY <1>4, <1>5, <1>7 DEF Rest

\* A cleaner removes runs only when the evaluation is to be deleted.
LEMMA CleanRest ==
    ASSUME IInv, QInv, Prompt, Rest, [Next]_vars, NEW c \in Cleaners, Clean(c) \/ Crash(c)
    PROVE  Rest'
<1>1. UNCHANGED <<saved, run, allowed>>
  BY Apart DEF Clean, ClaimCleanup, DeleteRuns, SweepSessions, DeleteRow, Release, Crash, record, request, cluster
<1>2. row' # "gone" /\ ~deleting' => row # "gone" /\ ~deleting /\ dying' = dying
  <2>1. CASE DeleteRuns(c)
    BY <2>1 DEF DeleteRuns, record, QInv, Cleaning
  <2>2. CASE DeleteRow(c)
    BY <2>2 DEF DeleteRow, cluster
  <2>3. CASE ClaimCleanup(c) \/ SweepSessions(c) \/ Release(c) \/ Crash(c)
    BY <2>3 DEF ClaimCleanup, SweepSessions, Release, Crash, record, cluster
  <2>. QED
    BY <2>1, <2>2, <2>3 DEF Clean
<1>3. row' # "gone" /\ ~deleting' /\ Ordered => Ordered' /\ Owned' = Owned
  BY <1>1, <1>2 DEF Ordered, Owned
<1>4. Ebb
  BY <1>1 DEF Ebb
<1>. QED
  BY <1>1, <1>2, <1>3, <1>4, RestEbbs DEF IInv

-----------------------------------------------------------------------------
(* Every step *)

\* Every step with no worker at work.
LEMMA RestStep ==
    ASSUME IInv, QInv, [Next]_vars, Prompt, Prompt', AtWork = {}
    PROVE  Core'
<1>1. Rest /\ ~Outlive /\ \A v \in Workers : pc[v] = "idle"
  BY Resting, StaysPrompt DEF IInv, AtWork
<1>2. CASE UpdateWorkflowEvaluation
  <2>1. Rest'
    BY <1>1, <1>2, UpdateRest
  <2>. QED
    BY <1>1, <1>2, <2>1, RestSuffices DEF UpdateWorkflowEvaluation
<1>3. CASE CreateWorkflowEvaluation \/ DeleteWorkflowEvaluation \/ Expire \/ ChangeAccess \/ UNCHANGED vars
  <2>1. UNCHANGED <<saved, run, dying, pc>>
    BY <1>3 DEF CreateWorkflowEvaluation, DeleteWorkflowEvaluation, Expire, ChangeAccess, vars,
         record, cluster
  <2>2. row' # "gone" /\ ~deleting' => row # "gone" /\ ~deleting
    BY <1>3 DEF CreateWorkflowEvaluation, DeleteWorkflowEvaluation, Expire, ChangeAccess, vars, record
  <2>3. Mild' => allowed' = allowed
    BY <1>3, Thrift DEF CreateWorkflowEvaluation, DeleteWorkflowEvaluation, Expire, ChangeAccess, vars,
         request, IInv
  <2>4. Ebb /\ (Ordered => Ordered' /\ Owned' = Owned)
    BY <2>1 DEF Ebb, Ordered, Owned
  <2>5. Rest'
    BY <1>1, <2>1, <2>2, <2>3, <2>4, RestEbbs DEF IInv
  <2>. QED
    BY <1>1, <2>1, <2>5, RestSuffices
<1>4. ASSUME NEW w \in Workers, Claim(w) PROVE Core'
  <2>1. View(w)' /\ pc'[w] # "idle"
    BY <1>1, <1>4, ClaimView
  <2>2. \A v \in Workers \ {w} : pc'[v] = "idle"
    BY <1>1, <1>4, Others, AreProcs DEF IInv, Work
  <2>. QED
    BY <2>1, <2>2, ViewSuffices
<1>5. ASSUME NEW c \in Cleaners, Clean(c) \/ Crash(c) PROVE Core'
  <2>1. Rest'
    BY <1>1, <1>5, CleanRest
  <2>2. \E place : Goto(c, place)
    BY <1>5 DEF Clean, ClaimCleanup, DeleteRuns, SweepSessions, DeleteRow, Release, Crash
  <2>3. \A v \in Workers : pc'[v] = "idle"
    BY <1>1, <2>2, AreProcs, Apart DEF Goto, IInv, TypeOK
  <2>. QED
    BY <2>1, <2>3, RestSuffices
<1>6. ASSUME NEW i \in Execs, Cluster(i) \/ KillRun(i) PROVE Core'
  <2>1. Ebb /\ UNCHANGED <<record, request, pc>>
    BY <1>6, Ebbing DEF IInv
  <2>2. Mild' => (Ordered => Ordered' /\ Owned' = Owned)
    BY <1>6, ClusterOrder, Thrift DEF IInv
  <2>3. Rest'
    BY <1>1, <2>1, <2>2, RestEbbs DEF IInv, record, request
  <2>. QED
    BY <1>1, <2>1, <2>3, RestSuffices
<1>. QED
  BY <1>1, <1>2, <1>3, <1>4, <1>5, <1>6, Unstaffed DEF Request

\* Every step of the worker at work.
LEMMA ViewWorks ==
    ASSUME IInv, QInv, [Next]_vars, Prompt, Prompt', NEW w \in AtWork,
           (Work(w) /\ ~Claim(w)) \/ Interrupt(w) \/ (\E i \in Execs : Receive(w, i)) \/ Crash(w)
    PROVE  (View(w)' /\ pc'[w] # "idle") \/ (Rest' /\ pc'[w] = "idle")
<1>1. /\ w \in Workers /\ pc[w] # "idle" /\ holder = w /\ row \in {"queued", "running"} /\ View(w)
      /\ w \in Procs /\ pc \in [Procs -> Places]
  BY Alone, Viewing, AreProcs DEF IInv, TypeOK
<1>2. CASE Visit(w)
  BY <1>1, <1>2, VisitView
<1>3. CASE CreateRun(w)
  <2>1. /\ pc[w] = "create" /\ Started(k[w]) /\ Step(w, k[w], "running") /\ pc'[w] = "runs"
        /\ UNCHANGED <<saved, allowed>>
    BY <1>1, <1>3 DEF CreateRun, Goto, record, request
  <2>2. k[w] \in Execs /\ "running" \in States
    BY <1>1, <2>1 DEF IInv, Good, Creating, States
  <2>3. /\ res'[w][k[w]].state = "running"
        /\ \A j \in Execs \ {k[w]} : res'[w][j] = res[w][j]
    BY <1>1, <2>1, <2>2, Stepped DEF IInv, TypeOK
  <2>4. k'[w] = k[w] + 1
    BY <1>1, <2>1 DEF Step, IInv, TypeOK
  <2>. QED
    BY <1>1, <2>1, <2>3, <2>4, StartView
<1>4. CASE Finish(w) \/ Cancelled(w) \/ Unwind(w)
  <2>1. /\ Goto(w, "idle") /\ UNCHANGED <<deleting, request, cluster>>
        /\ saved' = res[w] \/ (saved' = saved /\ Spend("loss"))
    BY <1>1, <1>4 DEF Finish, Cancelled, Unwind, SaveAndRelease, Saved
  <2>2. UNCHANGED <<run, dying, allowed, deleting>> /\ pc'[w] = "idle"
    BY <1>1, <2>1 DEF Goto, request, cluster
  <2>. QED
    BY <1>1, <2>1, <2>2, ReleaseRest
<1>5. CASE Checkpoint(w) \/ Poll(w) \/ Record(w)
  <2>1. /\ pc[w] # "cancel" /\ saved' \in {saved, res[w]} /\ UNCHANGED <<res, run, dying, allowed>>
    BY <1>1, <1>5 DEF Checkpoint, Waits, Poll, Record, Saved, record, request, local, cluster
  <2>2. \/ \E place \in {"wait", "unwind"} : Goto(w, place)
        \/ Goto(w, "runs") /\ k' = [k EXCEPT ![w] = 1]
    BY <1>5 DEF Checkpoint, Poll, Record
  <2>3. pc'[w] \in {"wait", "unwind"} \/ (pc'[w] = "runs" /\ k'[w] = 1)
    BY <1>1, <2>2 DEF Goto, IInv, TypeOK
  <2>. QED
    BY <1>1, <2>1, <2>3, SavedView
<1>6. CASE CancelRun(w)
  BY <1>1, <1>6, CancelView
<1>7. CASE Interrupt(w)
  <2>1. pc[w] \in Working /\ pc'[w] = "unwind" /\ UNCHANGED <<allowed, res>>
    BY <1>1, <1>7 DEF Interrupt, Goto, request, local
  <2>2. CASE pc[w] = "create" /\ Started(k[w]) /\ UNCHANGED <<row, saved, leased>>
    <3>1. k[w] \in Execs /\ res'[w][k[w]].state = "queued"
      BY <1>1, <2>1, <2>2 DEF IInv, Good, Creating
    <3>. QED
      BY <1>1, <2>1, <2>2, <3>1, StartView
  <2>3. CASE UNCHANGED cluster /\ saved' \in {saved, res[w]} /\ pc[w] # "cancel"
    BY <1>1, <2>1, <2>3, SavedView DEF cluster
  <2>4. CASE UNCHANGED <<row, saved, leased, cluster>> /\ pc[w] = "cancel"
    <3>1. ~Mild /\ UNCHANGED <<saved, run>> /\ UNCHANGED concurrency
      BY <1>1, <2>4, Common DEF View, cluster
    <3>2. ~Mild'
      BY <3>1, Thrift DEF IInv
    <3>3. (spent["loss"] = 0 => Fits(res[w]))'
      BY <1>1, <2>1, <3>1, Thrift DEF IInv, View, Fits, Occupied
    <3>. QED
      BY <1>1, <2>1, <3>1, <3>2, <3>3 DEF View, Sees
  <2>. QED
    BY <1>7, <2>2, <2>3, <2>4 DEF Interrupt, Saved, Waits
<1>8. ASSUME NEW i \in Execs, Receive(w, i) PROVE View(w)' /\ pc'[w] # "idle"
  BY <1>1, <1>8, ReceiveView
<1>9. CASE Crash(w)
  <2>1. /\ UNCHANGED <<run, dying, allowed, deleting, saved>> /\ Spend("loss") /\ pc'[w] = "idle"
    BY <1>1, <1>9 DEF Crash, Goto, record, request, cluster
  <2>. QED
    BY <1>1, <2>1, ReleaseRest
<1>. QED
  BY <1>2, <1>3, <1>4, <1>5, <1>6, <1>7, <1>8, <1>9 DEF Work

\* Every step with worker w at work.
LEMMA ViewStep ==
    ASSUME IInv, QInv, [Next]_vars, Prompt, Prompt', NEW w \in AtWork
    PROVE  Core'
<1>1. /\ w \in Workers /\ pc[w] # "idle" /\ row \in {"queued", "running"} /\ View(w)
      /\ \A v \in Workers \ {w} : pc[v] = "idle"
  BY Alone, Viewing
<1>2. CASE (Work(w) /\ ~Claim(w)) \/ Interrupt(w) \/ (\E i \in Execs : Receive(w, i)) \/ Crash(w)
  <2>1. (View(w)' /\ pc'[w] # "idle") \/ (Rest' /\ pc'[w] = "idle")
    BY <1>2, ViewWorks
  <2>2. \A v \in Workers \ {w} : pc'[v] = "idle"
    <3>1. CASE Crash(w)
      BY <1>1, <3>1, AreProcs DEF Crash, Goto, IInv, TypeOK
    <3>2. CASE ~Crash(w)
      BY <1>1, <1>2, <3>2, Others, AreProcs DEF IInv
    <3>. QED
      BY <3>1, <3>2
  <2>3. CASE View(w)' /\ pc'[w] # "idle"
    BY <1>1, <2>2, <2>3, ViewSuffices
  <2>4. CASE Rest' /\ pc'[w] = "idle"
    <3>1. \A v \in Workers : pc'[v] = "idle"
      BY <2>2, <2>4
    <3>. QED
      BY <2>4, <3>1, RestSuffices
  <2>. QED
    BY <2>1, <2>3, <2>4
\* Nobody else touches what it sees.
<1>3. ASSUME Ebb, UNCHANGED <<saved, k, res>>, \A v \in Workers : pc'[v] = pc[v],
             Mild /\ Mild' => allowed' = allowed /\ (Ordered => Ordered' /\ Owned' = Owned)
      PROVE  Core'
  <2>1. View(w)'
    BY <1>1, <1>3, ViewEbbs DEF IInv
  <2>. QED
    BY <1>1, <1>3, <2>1, ViewSuffices
<1>4. ASSUME UNCHANGED <<saved, k, res, run, dying>>, \A v \in Workers : pc'[v] = pc[v],
             Mild' => allowed' = allowed
      PROVE  Core'
  BY <1>3, <1>4 DEF Ebb, Ordered, Owned
<1>5. CASE DeleteWorkflowEvaluation \/ ChangeAccess \/ UNCHANGED vars
  <2>1. UNCHANGED <<saved, k, res, run, dying, pc>>
    BY <1>5 DEF DeleteWorkflowEvaluation, ChangeAccess, vars, record, local, cluster
  <2>2. Mild' => allowed' = allowed
    BY <1>5, Thrift DEF DeleteWorkflowEvaluation, ChangeAccess, vars, request, IInv
  <2>. QED
    BY <1>4, <2>1, <2>2
<1>6. ASSUME NEW i \in Execs, Judge(w, i) PROVE Core'
  <2>1. UNCHANGED <<saved, k, res, run, dying, pc, allowed>>
    BY <1>6 DEF Judge, OpenJudge, CloseJudge, record, request, local, cluster
  <2>. QED
    BY <1>4, <2>1
<1>7. ASSUME NEW c \in Cleaners, Release(c) \/ Crash(c) PROVE Core'
  <2>1. UNCHANGED <<saved, k, res, run, dying, allowed>>
    BY <1>7, Apart DEF Release, Crash, record, request, local, cluster
  <2>2. Goto(c, "idle")
    BY <1>7 DEF Release, Crash
  <2>3. \A v \in Workers : pc'[v] = pc[v]
    BY <2>2, AreProcs, Apart DEF Goto, IInv, TypeOK
  <2>. QED
    BY <1>4, <2>1, <2>3
<1>8. ASSUME NEW i \in Execs, Cluster(i) \/ KillRun(i) PROVE Core'
  <2>1. Ebb /\ UNCHANGED <<record, request, pc, local>>
    BY <1>8, Ebbing DEF IInv
  <2>2. Mild' => (Ordered => Ordered' /\ Owned' = Owned)
    BY <1>8, ClusterOrder, Thrift DEF IInv
  <2>. QED
    BY <1>3, <2>1, <2>2 DEF record, request, local
<1>. QED
  BY <1>2, <1>5, <1>6, <1>7, <1>8, Staffed

\* The second invariant holds at first ...
LEMMA QBegins == Init => QInv
<1>. SUFFICES ASSUME Init PROVE QInv
  OBVIOUS
<1>1. IInv /\ concurrency \in Nat /\ Cardinality({}) = 0
  BY Begins, Slots, FS_EmptySet DEF IInv
<1>2. \A p \in Procs : pc[p] = "idle"
  BY DEF Init
<1>3. \A w \in Workers : Aware(w) /\ Attended(w)
  <2>1. \A w \in Workers : Judges(w) = {}
    BY DEF Init, Judges, NoJudges
  <2>2. \A w \in Workers : Aware(w)
    BY <1>2, AreProcs DEF Aware
  <2>3. sess = {}
    BY DEF Init
  <2>4. \A w \in Workers : Attended(w)
    BY <1>1, <2>1, <2>3 DEF Attended
  <2>. QED
    BY <2>2, <2>4
<1>4. \A c \in Cleaners : Cleaning(c)
  BY <1>2, AreProcs DEF Cleaning
<1>5. \A i \in Execs : saved[i].state = "queued" /\ run[i] = "none"
  BY DEF Init, Fresh
<1>6. Sees(saved) /\ Ended /\ Known(saved) /\ Ordered
  BY <1>5 DEF Sees, Ended, Known, Ordered, Init
<1>7. Fits(saved)
  <2>1. Occupied(saved) = {}
    BY <1>5 DEF Occupied
  <2>. QED
    BY <1>1, <1>5, <2>1 DEF Fits
<1>8. AtWork = {} /\ Running = {}
  BY <1>2, <1>5, AreProcs DEF AtWork, Running
<1>9. Fitting /\ Untouched
  BY <1>1, <1>2, <1>6, <1>7, <1>8, AreProcs DEF Fitting, Untouched, Init
<1>. QED
  BY <1>3, <1>4, <1>6, <1>9 DEF QInv

\* ... and every step keeps it.
LEMMA QPreserves ==
    ASSUME IInv, QInv, [Next]_vars
    PROVE  QInv'
<1>1. Core'
  <2>1. CASE ~Prompt'
    BY <2>1 DEF Core, Aware, Fitting, Untouched
  <2>2. CASE Prompt'
    <3>1. Prompt
      BY <2>2, StaysPrompt DEF IInv
    <3>2. CASE AtWork = {}
      BY <2>2, <3>1, <3>2, RestStep
    <3>3. CASE AtWork # {}
      <4>1. PICK w \in AtWork : TRUE
        BY <3>3
      <4>. QED
        BY <2>2, <3>1, <4>1, ViewStep
    <3>. QED
      BY <3>2, <3>3
  <2>. QED
    BY <2>1, <2>2
<1>2. \A w \in Workers : Attended(w)'
  BY AttendedStep DEF QInv
<1>3. \A c \in Cleaners : Cleaning(c)'
  BY CleaningStep
<1>4. Ended'
  BY EndedStep
<1>. QED
  BY <1>1, <1>2, <1>3, <1>4 DEF Core, QInv

\* Both invariants hold throughout.
THEOREM SecondInvariance == Spec => [](IInv /\ QInv)
<1>1. IInv /\ QInv /\ [Next]_vars => (IInv /\ QInv)'
  BY Preserves, QPreserves
<1>. QED
  BY <1>1, Begins, QBegins, PTL DEF Spec

\* Across crashes and failed calls no more runs are active than
\* request.concurrency allows, as long as nothing of the evaluation's is
\* deleted; and runs and judges together are no more, as long as no save is
\* lost.
THEOREM RunsAreSerial == Spec => []Serial
<1>1. ASSUME IInv, QInv, Prompt, Mild PROVE Cardinality(Running) <= concurrency
  BY <1>1 DEF QInv, Untouched
<1>2. ASSUME IInv, QInv, Prompt, spent["loss"] = 0
      PROVE  Cardinality(Running \cup Judged) <= concurrency
  <2>1. concurrency \in Nat /\ sess \in SUBSET (Workers \X Execs)
    BY <1>2, Slots DEF IInv, TypeOK
  <2>2. ASSUME NEW s \in sess
        PROVE  \E w \in AtWork, i \in Execs : s = <<w, i>> /\ judge[w][i] = "open" /\ res[w][i].state = "judging"
    <3>1. PICK w \in Workers, i \in Execs : s = <<w, i>>
      BY <2>1, <2>2
    <3>2. judge[w][i] = "open"
      BY <1>2, <2>2, <3>1 DEF QInv, Attended
    <3>. QED
      BY <1>2, <3>1, <3>2 DEF IInv, Good, JudgeOK, AtWork
  <2>3. ASSUME NEW S, NEW T, T \in SUBSET S, S \in SUBSET Execs, Cardinality(S) <= concurrency
        PROVE  Cardinality(T) <= concurrency
    BY <2>1, <2>3, Smaller
  <2>4. CASE AtWork = {}
    <3>1. Judged = {} /\ Fits(saved) /\ Sees(saved)
      BY <1>2, <2>2, <2>4 DEF Judged, QInv, Fitting
    <3>2. CASE \E i \in Execs : saved[i].state \in {"queued", "running"}
      <4>1. Running \cup Judged \in SUBSET Occupied(saved) /\ Occupied(saved) \in SUBSET Execs
        BY <3>1 DEF Running, Occupied, Sees
      <4>. QED
        BY <2>3, <3>1, <3>2, <4>1 DEF Fits
    <3>3. CASE ~\E i \in Execs : saved[i].state \in {"queued", "running"}
      <4>1. Running \cup Judged = {}
        BY <3>1, <3>3 DEF Running, Sees
      <4>. QED
        BY <2>1, <4>1, FS_EmptySet
    <3>. QED
      BY <3>2, <3>3
  <2>5. ASSUME NEW w \in AtWork PROVE Cardinality(Running \cup Judged) <= concurrency
    <3>1. w \in Workers /\ AtWork = {w} /\ View(w)
      BY <1>2, Alone, Viewing
    <3>2. Fits(res[w]) /\ Sees(res[w]) /\ Cardinality(Judges(w)) <= concurrency
      BY <1>2, <3>1 DEF View, QInv, Attended
    <3>3. ASSUME NEW i \in Judged PROVE i \in Execs /\ judge[w][i] = "open" /\ res[w][i].state = "judging"
      <4>1. PICK s \in sess : i = s[2]
        BY <3>3 DEF Judged
      <4>2. PICK v \in AtWork, j \in Execs : s = <<v, j>> /\ judge[v][j] = "open" /\ res[v][j].state = "judging"
        BY <2>2
      <4>3. v = w /\ i = j
        BY <3>1, <4>1, <4>2
      <4>. QED
        BY <4>2, <4>3
    <3>4. CASE \E i \in Execs : res[w][i].state \in {"queued", "running"}
      <4>1. Running \cup Judged \in SUBSET Occupied(res[w]) /\ Occupied(res[w]) \in SUBSET Execs
        BY <3>2, <3>3 DEF Running, Occupied, Sees
      <4>. QED
        BY <2>3, <3>2, <3>4, <4>1 DEF Fits
    <3>5. CASE ~\E i \in Execs : res[w][i].state \in {"queued", "running"}
      <4>1. Running \cup Judged \in SUBSET Judges(w) /\ Judges(w) \in SUBSET Execs
        BY <3>2, <3>3, <3>5 DEF Running, Sees, Judges
      <4>. QED
        BY <2>3, <3>2, <4>1
    <3>. QED
      BY <3>4, <3>5
  <2>. QED
    BY <2>4, <2>5
<1>3. IInv /\ QInv => Serial
  BY <1>1, <1>2 DEF Serial, Mild
<1>. QED
  BY <1>3, SecondInvariance, PTL

\* A row that says the evaluation is over is right, and the row of a deleted
\* evaluation goes last.
THEOREM RowsEndQuietly == Spec => []EndsQuietly
<1>1. ASSUME IInv, QInv, Prompt, row \in {"completed", "cancelled"}
      PROVE  Running = {} /\ sess = {}
  <2>1. AtWork = {} /\ Sees(saved) /\ Pending(saved) = {}
    BY <1>1, NobodyAtWork DEF QInv, Ended
  <2>2. Running = {}
    BY <2>1 DEF Sees, Pending, Running
  <2>3. ASSUME NEW s \in sess PROVE FALSE
    <3>1. PICK w \in Workers, i \in Execs : s = <<w, i>>
      BY <1>1, <2>3 DEF IInv, TypeOK
    <3>2. judge[w][i] = "open"
      BY <1>1, <2>3, <3>1 DEF QInv, Attended
    <3>. QED
      BY <1>1, <2>1, <3>1, <3>2 DEF IInv, Good, JudgeOK, AtWork
  <2>. QED
    BY <2>2, <2>3
<1>2. IInv /\ QInv => EndsQuietly
  BY <1>1 DEF EndsQuietly, QInv, Ended
<1>. QED
  BY <1>2, SecondInvariance, PTL
=============================================================================
