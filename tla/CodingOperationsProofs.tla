----------------------- MODULE CodingOperationsProofs -----------------------
(***************************************************************************)
(* Proofs about CodingOperations, for every number of workers and          *)
(* operations, every bound on faults, and whatever the agent and GitHub    *)
(* do between two steps.                                                   *)
(*                                                                         *)
(* Neither RemoteKept nor the refinement of CodingLedger is inductive.     *)
(* RemoteKept rests on PushInv: whoever may still push, a worker or an     *)
(* abandoned call, found the branch it saw at GitHub among the ancestors   *)
(* of what it pushes; the lease of the push does the rest.  The ledger     *)
(* rests on ClaimInv: an operation has one worker, and while its lease is  *)
(* live it runs.  The lock appears in neither, so the theorems survive     *)
(* LoseLock.                                                               *)
(*                                                                         *)
(* What is committed rests on ReviewInv and SoundInv: what a worker knows  *)
(* of the review at each call, and that every commit in the checkout, at   *)
(* GitHub and in anybody's hands keeps to it.  They also show that no      *)
(* commit of the checkout is lost.  What the browser is told rests on      *)
(* TruthInv: an outcome is true when it is published, and stays true       *)
(* because branches, history and pull requests only grow.                  *)
(***************************************************************************)
EXTENDS CodingOperations, TLAPS

USE DEF vars, rowVars, workerVars, checkout, github, budgets

-----------------------------------------------------------------------------
(***************************************************************************)
(* Type correctness.                                                       *)
(***************************************************************************)
\* The last element and the rest of a sequence have their types.
LEMMA SeqParts ==
    ASSUME NEW S, NEW c \in Seq(S), c # << >>
    PROVE  Last(c) \in S /\ Front(c) \in Seq(S)
<1>1. Len(c) \in Nat /\ Len(c) # 0 /\ c = [k \in 1 .. Len(c) |-> c[k]]
  OBVIOUS
<1>2. \A k \in 1 .. Len(c) : c[k] \in S
  OBVIOUS
<1>3. Last(c) \in S
  BY <1>1, <1>2 DEF Last
<1>4. Front(c) \in Seq(S)
  BY <1>1, <1>2 DEF Front
<1> QED BY <1>3, <1>4

\* The tree of a commit is a tree.
LEMMA TreeType ==
    ASSUME NEW c \in Commits
    PROVE  TreeOf(c) \in Nat
<1> DEFINE R == [tree : Nat, by : {Other} \cup Ops]
<1>1. CASE c # << >>
  <2>1. Last(c) \in R
    BY <1>1, SeqParts DEF Commits
  <2> QED BY <1>1, <2>1 DEF TreeOf
<1> QED BY <1>1 DEF TreeOf

\* What readStatus returns is a status.
LEMMA StatusType ==
    ASSUME CheckoutTypes
    PROVE  Status \in Statuses
<1>1. Tip \in Commits /\ track[branch] \in Commits
  BY DEF Tip, CheckoutTypes
<1>2. Revision \in Commits \X Nat \X Nat
  BY <1>1 DEF Revision, CheckoutTypes
<1>3. Dirty \in BOOLEAN
  BY DEF Dirty
<1>4. << >> \in Commits
  BY DEF Commits
<1>5. NoRefs \in [Branch -> Commits]
  BY <1>4 DEF NoRefs
<1> HIDE DEF Dirty
<1> QED
  BY <1>1, <1>2, <1>3, <1>4, <1>5 DEF Status, Statuses, CheckoutTypes

\* The changes that steps make to a status leave it a status.
LEMMA StatusUpdate ==
    ASSUME NEW x \in Statuses, NEW r \in [Branch -> Commits],
           NEW c \in Commits, NEW b \in Branch
    PROVE  /\ [x EXCEPT !.refs = r] \in Statuses
           /\ [x EXCEPT !.sha = c] \in Statuses
           /\ [x EXCEPT !.branch = b] \in Statuses
  BY DEF Statuses

\* A status has the parts that calls use.
LEMMA StatusParts ==
    ASSUME NEW x \in Statuses
    PROVE  /\ x.branch \in Branch /\ x.head \in Commits /\ x.remote \in Commits
           /\ x.sha \in Commits /\ x.refs \in [Branch -> Commits]
  BY DEF Statuses

\* The same for outcomes.
LEMMA OutcomeUpdate ==
    ASSUME NEW x \in Outcomes
    PROVE  /\ [x EXCEPT !.pushed = TRUE] \in Outcomes
           /\ [x EXCEPT !.pr = TRUE] \in Outcomes
           /\ \A c \in Commits : [x EXCEPT !.commit = c] \in Outcomes
  BY DEF Outcomes

\* A commit on top of another is a commit.
LEMMA CommitType ==
    ASSUME NEW c \in Commits, NEW t \in Nat, NEW o \in {Other} \cup Ops
    PROVE  /\ Append(c, Entry(t, o)) \in Commits
           /\ Front(c) \in Commits \/ c = << >>
<1>1. Entry(t, o) \in [tree : Nat, by : {Other} \cup Ops]
  BY DEF Entry
<1>2. Append(c, Entry(t, o)) \in Commits
  BY <1>1 DEF Commits
<1>3. Front(c) \in Commits \/ c = << >>
  BY SeqParts DEF Commits
<1> QED BY <1>2, <1>3

\* The initial state is typed.
LEMMA InitType == Init => TypeOK
<1> SUFFICES ASSUME Init PROVE TypeOK
  OBVIOUS
<1>1. Root \in Commits /\ << >> \in Commits
  BY DEF Root, Entry, Commits, Other
<1>2. NoRefs \in [Branch -> Commits]
  BY <1>1 DEF NoRefs
<1>3. Nothing \in Statuses
  BY <1>1, <1>2 DEF Nothing, Statuses, Branch
<1>4. NoOutcome \in Outcomes
  BY <1>1 DEF NoOutcome, Outcomes
<1>5. RowTypes
  BY <1>4 DEF Init, RowTypes, OpStates
<1>6. WorkerTypes
  BY <1>3, <1>4 DEF Init, WorkerTypes, PCs
<1>7. CheckoutTypes /\ GitHubTypes /\ BudgetTypes
  BY <1>1 DEF Init, CheckoutTypes, GitHubTypes, BudgetTypes, Branch
<1> QED
  BY <1>5, <1>6, <1>7 DEF TypeOK, Init

\* The control variables of the workers are typed after a step.
Moves ==
    /\ pc' \in [Workers -> PCs]
    /\ err' \in [Workers -> BOOLEAN]
    /\ lock' \in Workers \cup {None}
    /\ job' = job

\* A step without a call needs types only for what it may change.
LEMMA QuietType ==
    ASSUME TypeOK, Quiet, Moves,
           at' \in [Workers -> Statuses], told' \in [Ops -> Outcomes]
    PROVE  TypeOK'
  BY DEF TypeOK, Quiet, Moves, RowTypes, WorkerTypes, CheckoutTypes,
         GitHubTypes, BudgetTypes

\* Going on and returning move a worker to a control point.
LEMMA GotoType ==
    ASSUME TypeOK, NEW w \in Workers, NEW l \in PCs, Goto(w, l)
    PROVE  Moves
  BY DEF TypeOK, WorkerTypes, Moves, Goto

\* Returning from the operation does so too.
LEMMA ReturnType ==
    ASSUME TypeOK, NEW w \in Workers, NEW f \in BOOLEAN, Return(w, f)
    PROVE  Moves
  BY DEF TypeOK, WorkerTypes, Moves, Return, PCs

\* So does the choice of what follows the checks.
LEMMA RouteType ==
    ASSUME TypeOK, NEW w \in Workers, NEW d, Route(w, d)
    PROVE  Moves
<1>1. {"fetch", "stage", "remote"} \subseteq PCs
  BY DEF PCs
<1>2. CASE Return(w, FALSE)
  BY <1>2, ReturnType
<1>3. CASE \E l \in PCs : Goto(w, l)
  BY <1>3, GotoType
<1> QED
  BY <1>1, <1>2, <1>3 DEF Route

\* So does the choice of what follows a push.
LEMMA PublishedType ==
    ASSUME TypeOK, NEW w \in Workers, Published(w)
    PROVE  Moves
<1>1. "pulls" \in PCs
  BY DEF PCs
<1> QED
  BY <1>1, ReturnType, GotoType DEF Published

\* The effects of Publish and Reject on types.
LEMMA RejectType ==
    ASSUME TypeOK, NEW w \in Workers, Reject(w)
    PROVE  Moves /\ at' \in [Workers -> Statuses]
  BY ReturnType DEF Reject, TypeOK, WorkerTypes

\* Going on with `current' as it is keeps the types.
LEMMA AdvanceType ==
    ASSUME TypeOK, NEW w \in Workers, NEW l \in PCs, Advance(w, l)
    PROVE  Moves /\ at' \in [Workers -> Statuses]
  BY GotoType DEF Advance, TypeOK, WorkerTypes

\* A published outcome is an outcome.
LEMMA ToldType ==
    ASSUME TypeOK, NEW w \in Workers,
           told' = [told EXCEPT ![job[w]] = out[w]] \/ UNCHANGED told
    PROVE  told' \in [Ops -> Outcomes]
  BY DEF TypeOK, WorkerTypes, RowTypes

\* Steps of a worker without a call keep the types.
LEMMA QuietSteps ==
    ASSUME TypeOK, NEW w \in Workers,
           \/ Prepare(w) \/ Check(w) \/ NameFeature(w) \/ Enter(w) \/ Fetch(w)
           \/ Stage(w) \/ Review(w) \/ Export(w) \/ Apply(w) \/ Committed(w)
           \/ RefusePR(w) \/ CheckRemote(w) \/ Ship(w) \/ Pushed(w) \/ Verify(w)
           \/ Name(w) \/ Reread(w) \/ Acquire(w)
    PROVE  TypeOK'
<1> DEFINE Ok == /\ Moves /\ at' \in [Workers -> Statuses]
                 /\ told' \in [Ops -> Outcomes]
<1>a. PCs = Calls \cup Answers \cup {"creating", "importing", "renaming"} \cup
       {"idle", "prepare", "lock", "check", "feature", "row", "fetch", "stage",
        "review", "export", "apply", "committed", "remote", "ship", "pushed",
        "pulls", "verify", "name", "namelock", "reread", "final"}
  BY DEF PCs, Before
<1>b. at[w] \in Statuses /\ at \in [Workers -> Statuses] /\ job[w] \in {Other} \cup Ops
  BY DEF TypeOK, WorkerTypes, Other
<1>c. remote \in [Branch -> Commits] /\ named \in Branch /\ index \in Nat /\ Tip \in Commits
  BY DEF TypeOK, GitHubTypes, CheckoutTypes, Tip
<1>d. \A x \in Statuses : [at EXCEPT ![w] = x] \in [Workers -> Statuses]
  BY <1>b
<1>e. Status \in Statuses
  BY StatusType DEF TypeOK
<1>q. ASSUME Quiet, Ok PROVE TypeOK'
  BY <1>q, QuietType
<1>1. ASSUME Prepare(w) PROVE Ok
  BY <1>1, <1>a, AdvanceType, RejectType, ToldType DEF Prepare, Publish
<1>2. ASSUME Check(w) PROVE Ok
  <2>1. CASE Reviewed(Req(w))
    <3>1. at' \in [Workers -> Statuses]
      BY <1>2, <2>1, <1>d, <1>e DEF Check
    <3>2. Moves
      BY <1>2, <2>1, <1>a, GotoType, RouteType DEF Check
    <3> QED BY <1>2, <3>1, <3>2, ToldType DEF Check
  <2>2. CASE ~Reviewed(Req(w))
    BY <1>2, <2>2, RejectType, ToldType DEF Check
  <2> QED BY <2>1, <2>2
<1>3. ASSUME NameFeature(w) PROVE Ok
  BY <1>3, <1>a, AdvanceType, RejectType, ToldType DEF NameFeature, Publish
<1>4. ASSUME Enter(w) PROVE Ok
  <2>1. Before[pc[w]] \in PCs
    BY <1>4, <1>a DEF Enter, Before, Calls
  <2> QED
    BY <1>4, <2>1, AdvanceType, RejectType, ToldType DEF Enter
<1>5. ASSUME Fetch(w) PROVE Ok
  <2>1. CASE ~Leased(w)
    BY <1>5, <2>1, RejectType, ToldType DEF Fetch, Publish
  <2>2. CASE Leased(w)
    <3>1. at' = [at EXCEPT ![w] = [at[w] EXCEPT !.refs = remote]]
      BY <1>5, <2>2 DEF Fetch, Publish
    <3>2. at' \in [Workers -> Statuses]
      BY <3>1, <1>b, <1>c, <1>d, StatusUpdate
    <3>3. Moves
      BY <1>5, <2>2, <1>a, GotoType DEF Fetch, Publish
    <3> QED BY <1>5, <2>2, <3>2, <3>3, ToldType DEF Fetch, Publish
  <2> QED BY <2>1, <2>2
<1>6. ASSUME Stage(w) PROVE Ok
  BY <1>6, <1>a, AdvanceType, RejectType, ToldType DEF Stage, Publish
<1>7. ASSUME Review(w) PROVE Ok
  BY <1>7, <1>a, AdvanceType, RejectType, ToldType DEF Review, Calls
<1>8. ASSUME Export(w) PROVE Ok
  <2>1. CASE Reject(w)
    BY <1>8, <2>1, RejectType, ToldType DEF Export, Publish
  <2>2. CASE Leased(w) /\ ~Reject(w)
    <3>1. at' = [at EXCEPT ![w] = [at[w] EXCEPT !.sha =
                                     Append(Tip, Entry(index, job[w]))]]
      BY <1>8, <2>2 DEF Export, Publish
    <3>2. at' \in [Workers -> Statuses]
      BY <3>1, <1>b, <1>c, <1>d, StatusUpdate, CommitType
    <3>3. Moves
      BY <1>8, <2>2, <1>a, GotoType DEF Export, Publish
    <3> QED BY <1>8, <2>2, <3>2, <3>3, ToldType DEF Export, Publish
  <2> QED BY <1>8, <2>1, <2>2 DEF Export, Publish
<1>9. ASSUME Apply(w) PROVE Ok
  BY <1>9, <1>a, AdvanceType, RejectType, ToldType DEF Apply, Calls
<1>10. ASSUME Committed(w) PROVE Ok
  BY <1>10, <1>a, <1>b, AdvanceType, RejectType, ReturnType, ToldType DEF Committed, Publish
<1>11. ASSUME RefusePR(w) PROVE Ok
  BY <1>11, RejectType, ToldType DEF RefusePR
<1>12. ASSUME CheckRemote(w) PROVE Ok
  <2>1. CASE Reject(w)
    BY <1>12, <2>1, RejectType, ToldType DEF CheckRemote, Publish
  <2>2. CASE Leased(w) /\ ~Reject(w)
    <3>1. at' = [at EXCEPT ![w] = [at[w] EXCEPT !.refs = remote]]
      BY <1>12, <2>2 DEF CheckRemote, Publish
    <3>2. at' \in [Workers -> Statuses]
      BY <3>1, <1>b, <1>c, <1>d, StatusUpdate
    <3>3. Moves
      BY <1>12, <2>2, <1>a, GotoType, PublishedType DEF CheckRemote, Publish
    <3> QED BY <1>12, <2>2, <3>2, <3>3, ToldType DEF CheckRemote, Publish
  <2> QED BY <1>12, <2>1, <2>2 DEF CheckRemote, Publish
<1>13. ASSUME Ship(w) PROVE Ok
  BY <1>13, <1>a, AdvanceType, RejectType, ToldType DEF Ship, Publish, Calls
<1>14. ASSUME Pushed(w) PROVE Ok
  BY <1>14, <1>b, PublishedType, RejectType, ToldType DEF Pushed, Publish
<1>15. ASSUME Verify(w) PROVE Ok
  BY <1>15, <1>a, AdvanceType, RejectType, ToldType DEF Verify, Publish, Calls
<1>16. ASSUME Name(w) PROVE Ok
  BY <1>16, <1>a, <1>b, AdvanceType, RejectType, ReturnType, ToldType DEF Name, Publish
<1>17. ASSUME Reread(w) PROVE Ok
  <2>1. CASE Reject(w)
    BY <1>17, <2>1, RejectType, ToldType DEF Reread
  <2>2. CASE ~Reject(w)
    <3>1. at' = [at EXCEPT ![w] = [at[w] EXCEPT !.branch = named]]
      BY <1>17, <2>2 DEF Reread
    <3>2. at' \in [Workers -> Statuses]
      BY <3>1, <1>b, <1>c, <1>d, StatusUpdate
    <3>3. Moves
      BY <1>17, <2>2, <1>a, GotoType DEF Reread
    <3> QED BY <1>17, <3>2, <3>3, ToldType DEF Reread
  <2> QED BY <2>1, <2>2
<1>18. ASSUME Acquire(w) PROVE Ok
  BY <1>18, <1>a, ToldType DEF Acquire, Moves, TypeOK, WorkerTypes, RowTypes
<1>19. Quiet
  BY DEF Prepare, Check, NameFeature, Enter, Fetch, Stage, Review, Export, Apply,
         Committed, RefusePR, CheckRemote, Ship, Pushed, Verify, Name, Reread,
         Acquire
<1> QED
  BY <1>1, <1>2, <1>3, <1>4, <1>5, <1>6, <1>7, <1>8, <1>9, <1>10, <1>11, <1>12,
     <1>13, <1>14, <1>15, <1>16, <1>17, <1>18, <1>19, <1>q

\* Calls keep the checkout and GitHub typed.
LEMMA DoType ==
    ASSUME TypeOK, NEW c \in Requests, Do(c)
    PROVE  CheckoutTypes' /\ GitHubTypes'
<1> USE DEF TypeOK, CheckoutTypes, GitHubTypes
<1>1. /\ c.at.branch \in Branch /\ c.at.head \in Commits
      /\ c.at.sha \in Commits /\ c.at.refs \in [Branch -> Commits]
  BY StatusParts DEF Requests
<1>2. << >> \in Commits /\ Tip \in Commits
  <2>1. << >> \in Commits
    BY DEF Commits
  <2> QED BY <2>1 DEF Tip
<1>3. "topic" \in Branch /\ "title" \in Branch
  BY DEF Branch
<1>4. CASE DoBranch(c)
  BY <1>2, <1>3, <1>4 DEF DoBranch
<1>5. CASE DoImport(c)
  <2>1. TreeOf(c.at.refs[c.at.branch]) \in Nat
    BY <1>1, TreeType
  <2> QED
    BY <1>1, <1>5, <2>1 DEF DoImport
<1>6. CASE DoAdd(c)
  BY <1>6 DEF DoAdd
<1>7. CASE DoUpdate(c)
  BY <1>1, <1>7 DEF DoUpdate
<1>8. CASE DoPush(c)
  BY <1>1, <1>8 DEF DoPush
<1>9. CASE DoOpen(c)
  BY <1>1, <1>9 DEF DoOpen
<1>10. CASE DoRename(c)
  BY <1>1, <1>2, <1>3, <1>10 DEF DoRename
<1> QED
  BY <1>4, <1>5, <1>6, <1>7, <1>8, <1>9, <1>10 DEF Do

\* An abandoned call is a call.
LEMMA AbandonedType ==
    ASSUME TypeOK, NEW w \in Workers, Abandoned(w)
    PROVE  late' \subseteq Requests
<1>1. pc[w] \in Calls => CallOf(w) \in Requests
  BY DEF TypeOK, WorkerTypes, CallOf, Requests
<1> QED
  BY <1>1 DEF Abandoned, TypeOK

\* The other steps of workers keep the types.
LEMMA CallSteps ==
    ASSUME TypeOK, NEW w \in Workers,
           \/ SaveBranch(w) \/ ListPulls(w) \/ Call(w) \/ See(w) \/ Refused(w)
           \/ Final(w) \/ Error(w) \/ Cancel(w)
    PROVE  TypeOK'
<1>a. PCs = Calls \cup Answers \cup {"creating", "importing", "renaming"} \cup
       {"idle", "prepare", "lock", "check", "feature", "row", "fetch", "stage",
        "review", "export", "apply", "committed", "remote", "ship", "pushed",
        "pulls", "verify", "name", "namelock", "reread", "final"}
  BY DEF PCs, Before
<1>b. at[w] \in Statuses /\ out[w] \in Outcomes
  BY DEF TypeOK, WorkerTypes
<1>c. at[w].branch \in Branch /\ at[w].sha \in Commits
  BY <1>b, StatusParts
<1>d. \A x \in Outcomes : [out EXCEPT ![w] = x] \in [Workers -> Outcomes]
  BY DEF TypeOK, WorkerTypes
<1>1. ASSUME SaveBranch(w) PROVE TypeOK'
  <2>1. Moves
    BY <1>1, RouteType, ReturnType DEF SaveBranch
  <2> QED
    BY <1>1, <2>1, <1>c DEF SaveBranch, Moves, TypeOK, RowTypes, WorkerTypes,
       CheckoutTypes, GitHubTypes, BudgetTypes
<1>2. ASSUME ListPulls(w) PROVE TypeOK'
  <2>1. Moves /\ at' \in [Workers -> Statuses] /\ told' \in [Ops -> Outcomes]
    BY <1>2, <1>a, AdvanceType, RejectType, ReturnType, ToldType
    DEF ListPulls, Publish, TypeOK, WorkerTypes
  <2>2. out' = out \/ out' = [out EXCEPT ![w] = [out[w] EXCEPT !.pr = TRUE]]
    BY <1>2 DEF ListPulls
  <2>3. out' \in [Workers -> Outcomes]
    BY <2>2, <1>b, <1>d, OutcomeUpdate DEF TypeOK, WorkerTypes
  <2> QED
    BY <1>2, <2>1, <2>3 DEF ListPulls, Moves, TypeOK, RowTypes, WorkerTypes,
       CheckoutTypes, GitHubTypes, BudgetTypes
<1>3. ASSUME Call(w) PROVE TypeOK'
  <2>1. CallOf(w) \in Requests
    BY <1>3 DEF Call, CallOf, Requests, TypeOK, WorkerTypes
  <2>2. CheckoutTypes' /\ GitHubTypes'
    BY <1>3, <2>1, DoType DEF Call
  <2>3. Moves
    <3>1. \/ \E l \in PCs : Goto(w, l)
          \/ \E f \in BOOLEAN : Return(w, f)
      BY <1>3, <1>a DEF Call, Answer, Calls, Answers
    <3> QED BY <3>1, GotoType, ReturnType
  <2>4. \/ out' = out
        \/ out' = [out EXCEPT ![w] = [out[w] EXCEPT !.pushed = TRUE]]
        \/ out' = [out EXCEPT ![w] = [out[w] EXCEPT !.pr = TRUE]]
    BY <1>3 DEF Call, Answer
  <2>5. out' \in [Workers -> Outcomes]
    BY <2>4, <1>b, <1>d, OutcomeUpdate DEF TypeOK, WorkerTypes
  <2> QED
    BY <1>3, <2>2, <2>3, <2>5 DEF Call, Answer, Moves, TypeOK, RowTypes,
       WorkerTypes, BudgetTypes
<1>4. ASSUME See(w) PROVE TypeOK'
  <2>1. at' \in [Workers -> Statuses]
    <3>1. Status \in Statuses
      BY StatusType DEF TypeOK
    <3>2. at \in [Workers -> Statuses] /\ at' = [at EXCEPT ![w] = Status]
      BY <1>4 DEF See, TypeOK, WorkerTypes
    <3> QED BY <3>1, <3>2
  <2>2. Moves
    <3>1. \E l \in PCs : Goto(w, l)
      BY <1>4, <1>a DEF See, Answers
    <3> QED BY <3>1, GotoType
  <2>3. out' = out \/ out' = [out EXCEPT ![w] = [out[w] EXCEPT !.commit = at[w].sha]]
    BY <1>4 DEF See
  <2>4. out' \in [Workers -> Outcomes]
    <3>1. [out[w] EXCEPT !.commit = at[w].sha] \in Outcomes
      BY <1>b, <1>c, OutcomeUpdate
    <3>2. out \in [Workers -> Outcomes]
      BY DEF TypeOK, WorkerTypes
    <3> QED BY <2>3, <3>1, <3>2, <1>d
  <2> QED
    BY <1>4, <2>1, <2>2, <2>4 DEF See, Moves, TypeOK, RowTypes, WorkerTypes,
       CheckoutTypes, GitHubTypes, BudgetTypes
<1>5. ASSUME Refused(w) PROVE TypeOK'
  <2>1. Moves /\ at' \in [Workers -> Statuses]
    BY <1>5, RejectType, ReturnType DEF Refused, TypeOK, WorkerTypes
  <2>2. out' = out \/ out' = [out EXCEPT ![w] = [out[w] EXCEPT !.pr = TRUE]]
    BY <1>5 DEF Refused
  <2>3. out' \in [Workers -> Outcomes]
    BY <2>2, <1>b, <1>d, OutcomeUpdate DEF TypeOK, WorkerTypes
  <2> QED
    BY <1>5, <2>1, <2>3 DEF Refused, Moves, TypeOK, RowTypes, WorkerTypes,
       CheckoutTypes, GitHubTypes, BudgetTypes
<1>6. ASSUME Final(w) PROVE TypeOK'
  <2>1. st' \in [Ops -> OpStates] /\ told' \in [Ops -> Outcomes] /\ faults' \in Nat
    BY <1>6, <1>b DEF Final, TypeOK, RowTypes, BudgetTypes, OpStates, Terminal
  <2> QED
    BY <1>6, <1>a, <2>1 DEF Final, TypeOK, RowTypes, WorkerTypes,
       CheckoutTypes, GitHubTypes, BudgetTypes
<1>7. ASSUME Error(w) PROVE TypeOK'
  <2>1. Moves /\ at' \in [Workers -> Statuses] /\ late' \subseteq Requests
    BY <1>7, RejectType, AbandonedType DEF Error
  <2> QED
    BY <1>7, <2>1 DEF Error, Moves, TypeOK, RowTypes, WorkerTypes,
       CheckoutTypes, GitHubTypes, BudgetTypes
<1>8. ASSUME Cancel(w) PROVE TypeOK'
  <2>1. late' \subseteq Requests
    BY <1>8, AbandonedType DEF Cancel
  <2> QED
    BY <1>8, <1>a, <2>1 DEF Cancel, TypeOK, RowTypes, WorkerTypes,
       CheckoutTypes, GitHubTypes, BudgetTypes
<1> QED
  BY <1>1, <1>2, <1>3, <1>4, <1>5, <1>6, <1>7, <1>8

\* Rows, the agent, GitHub and late calls keep the types.
LEMMA OtherSteps ==
    ASSUME TypeOK,
           \/ Rows \/ LoseLock \/ Agent \/ GitHub
           \/ \E w \in Workers, o \in Ops : Claim(w, o)
           \/ \E c \in late : Late(c)
    PROVE  TypeOK'
<1>1. CASE Rows
  BY <1>1 DEF Rows, Start, Expire, Interrupt, Prune, TypeOK, RowTypes, WorkerTypes,
     CheckoutTypes, GitHubTypes, BudgetTypes, OpStates, Terminal, Open
<1>2. CASE LoseLock
  BY <1>2 DEF LoseLock, TypeOK, RowTypes, WorkerTypes, CheckoutTypes, GitHubTypes,
     BudgetTypes
<1>3. ASSUME NEW w \in Workers, NEW o \in Ops, Claim(w, o) PROVE TypeOK'
  <2>1. << >> \in Commits
    BY DEF Commits
  <2>2. NoRefs \in [Branch -> Commits]
    BY <2>1 DEF NoRefs
  <2>3. Nothing \in Statuses
    BY <2>1, <2>2 DEF Nothing, Statuses, Branch
  <2>4. NoOutcome \in Outcomes
    BY <2>1 DEF NoOutcome, Outcomes
  <2>5. {"name", "prepare"} \subseteq PCs /\ {"running"} \subseteq OpStates
    BY DEF PCs, OpStates, Open
  <2> QED
    BY <1>3, <2>3, <2>4, <2>5 DEF Claim, TypeOK, RowTypes, WorkerTypes,
       CheckoutTypes, GitHubTypes, BudgetTypes
<1>4. ASSUME NEW c \in late, Late(c) PROVE TypeOK'
  <2>1. c \in Requests
    BY DEF TypeOK
  <2>2. CheckoutTypes' /\ GitHubTypes'
    BY <1>4, <2>1, DoType DEF Late
  <2> QED
    BY <1>4, <2>2 DEF Late, TypeOK, RowTypes, WorkerTypes, BudgetTypes
<1>5. CASE Agent
  <2>1. branch' \in Branch /\ index' \in Nat /\ work' \in Nat /\ ref' \in [Branch -> Commits]
    <3> USE DEF TypeOK, CheckoutTypes
    <3>1. CASE Edit
      BY <3>1 DEF Edit, BudgetTypes
    <3>2. CASE AgentStage
      BY <3>2 DEF AgentStage
    <3>3. CASE AgentCommit
      <4>1. Append(ref[branch], Entry(index, Other)) \in Commits
        BY CommitType
      <4> QED BY <3>3, <4>1 DEF AgentCommit
    <3>4. ASSUME NEW b \in Branch, Switch(b)
          PROVE branch' \in Branch /\ index' \in Nat /\ work' \in Nat /\ ref' \in [Branch -> Commits]
      BY <3>4, TreeType DEF Switch
    <3> QED BY <1>5, <3>1, <3>2, <3>3, <3>4 DEF Agent
  <2> QED
    BY <1>5, <2>1 DEF Agent, TypeOK, RowTypes, WorkerTypes, CheckoutTypes,
       GitHubTypes, BudgetTypes
<1>6. CASE GitHub
  <2>1. PICK b \in Branch : \E base \in {remote[b], Front(remote[b])} :
             remote[b] # << >> /\ GitHubPush(b, base)
    BY <1>6 DEF GitHub
  <2>2. PICK base \in {remote[b], Front(remote[b])} :
             remote[b] # << >> /\ GitHubPush(b, base)
    BY <2>1
  <2>3. MaxEdits + 2 + pushes \in Nat
    BY LimitsAssumption DEF TypeOK, BudgetTypes
  <2>4. base \in Commits
    BY <2>2, CommitType, 0 \in Nat DEF TypeOK, GitHubTypes
  <2>5. Append(base, Entry(MaxEdits + 2 + pushes, Other)) \in Commits
    BY <2>3, <2>4, CommitType
  <2>6. GitHubTypes'
    BY <2>2, <2>5 DEF GitHubPush, TypeOK, GitHubTypes
  <2> QED
    BY <2>2, <2>6 DEF GitHubPush, TypeOK, RowTypes, WorkerTypes, CheckoutTypes,
       BudgetTypes
<1> QED
  BY <1>1, <1>2, <1>3, <1>4, <1>5, <1>6

\* Every step keeps the types.
LEMMA NextType == TypeOK /\ [Next]_vars => TypeOK'
<1> SUFFICES ASSUME TypeOK, [Next]_vars PROVE TypeOK'
  OBVIOUS
<1>1. CASE UNCHANGED vars
  BY <1>1 DEF TypeOK, RowTypes, WorkerTypes, CheckoutTypes, GitHubTypes, BudgetTypes
<1>2. ASSUME NEW w \in Workers, Acquire(w) \/ Work(w) \/ Error(w) \/ Cancel(w)
      PROVE TypeOK'
  BY <1>2, QuietSteps, CallSteps DEF Work
<1> QED
  BY <1>1, <1>2, OtherSteps DEF Next

\* Rows, workers, calls and Git state of every instance stay typed, whatever
\* the agent, GitHub, faults and lost locks do (operations.go as a whole).
THEOREM CodingTypeCorrect == Spec => []TypeOK
<1>1. Init => TypeOK
  BY InitType
<1>2. TypeOK /\ [Next]_vars => TypeOK'
  BY NextType
<1> QED
  BY <1>1, <1>2, PTL DEF Spec

-----------------------------------------------------------------------------
(***************************************************************************)
(* What a step of a worker may do to rows, to GitHub and to the calls.     *)
(***************************************************************************)
\* A worker that is about to push has found the branch at GitHub to be an
\* ancestor of what it pushes, and so had the caller of a late push.
PushInv ==
    /\ \A w \in Workers : pc[w] = "push" => IsPrefix(at[w].remote, at[w].head)
    /\ \A c \in late : c.kind = "push" => IsPrefix(c.at.remote, c.at.head)

\* Nobody comes to a push without that check.
PushStep ==
    \A v \in Workers :
        pc'[v] = "push" => \/ pc[v] = "push" /\ at'[v] = at[v]
                           \/ IsPrefix(at'[v].remote, at'[v].head)

LateStep == \A c \in late' : c \in late \/ \E v \in Workers : c = CallOf(v)

\* GitHub changes by a push that passed its lease check.
HubStep(c) == UNCHANGED remote \/ (c.kind = "push" /\ CanPush(c) /\ DoPush(c))

\* A row changes only under a live lease.
RowStep(w) ==
    \/ UNCHANGED told
    \/ /\ Leased(w) /\ pc[w] # "idle"
       /\ told' = [told EXCEPT ![job[w]] = out[w]]

WorkerFacts(w) ==
    /\ UNCHANGED <<st, lease, job>>
    /\ \A v \in Workers : pc'[v] # "idle" => pc[v] # "idle"
    /\ RowStep(w) /\ HubStep(CallOf(w)) /\ PushStep /\ LateStep

\* The check before a push carries over to every later state.
LEMMA PushKept ==
    ASSUME PushInv, PushStep, LateStep
    PROVE  PushInv'
<1>1. ASSUME NEW w \in Workers, pc'[w] = "push"
      PROVE  IsPrefix(at'[w].remote, at'[w].head)
  BY <1>1 DEF PushInv, PushStep
<1>2. ASSUME NEW c \in late', c.kind = "push"
      PROVE  IsPrefix(c.at.remote, c.at.head)
  BY <1>2 DEF PushInv, LateStep, CallOf
<1> QED
  BY <1>1, <1>2 DEF PushInv

\* The control steps do nothing else.
LEMMA ControlFacts ==
    ASSUME TypeOK, NEW w \in Workers, pc[w] # "idle", Quiet \/ SaveBranch(w),
           \/ \E l \in PCs \ {"push"} : Goto(w, l)
           \/ \E f \in BOOLEAN : Return(w, f),
           \A v \in Workers : v # w => at'[v] = at[v],
           RowStep(w)
    PROVE  WorkerFacts(w)
<1> USE DEF TypeOK, WorkerTypes
<1>1. UNCHANGED <<st, lease, job, late, remote>>
  BY DEF Quiet, SaveBranch, Goto, Return
<1>2. PICK l \in PCs \ {"push"} : pc' = [pc EXCEPT ![w] = l]
  BY DEF Goto, Return, PCs
<1>3. ASSUME NEW v \in Workers, v # w PROVE pc'[v] = pc[v]
  BY <1>2, <1>3
<1>4. pc'[w] = l
  BY <1>2
<1> QED
  BY <1>1, <1>3, <1>4 DEF WorkerFacts, HubStep, PushStep, LateStep

\* Which is what the steps without a call are.
LEMMA QuietFacts ==
    ASSUME TypeOK, NEW w \in Workers,
           \/ Prepare(w) \/ Check(w) \/ NameFeature(w) \/ Enter(w) \/ Fetch(w)
           \/ Stage(w) \/ Review(w) \/ Export(w) \/ Apply(w) \/ Committed(w)
           \/ RefusePR(w) \/ CheckRemote(w) \/ Pushed(w) \/ Verify(w)
           \/ Name(w) \/ Reread(w) \/ SaveBranch(w)
    PROVE  WorkerFacts(w)
<1> DEFINE Turn == \/ \E l \in PCs \ {"push"} : Goto(w, l)
                   \/ \E f \in BOOLEAN : Return(w, f)
           Same == \A v \in Workers : v # w => at'[v] = at[v]
           Ok == Turn /\ Same /\ RowStep(w) /\ pc[w] # "idle"
<1>a. PCs = Calls \cup Answers \cup {"creating", "importing", "renaming"} \cup
       {"idle", "prepare", "lock", "check", "feature", "row", "fetch", "stage",
        "review", "export", "apply", "committed", "remote", "ship", "pushed",
        "pulls", "verify", "name", "namelock", "reread", "final"}
  BY DEF PCs, Before
<1>b. at \in [Workers -> Statuses]
  BY DEF TypeOK, WorkerTypes
<1>c. ASSUME NEW d, Route(w, d) PROVE Turn
  BY <1>a, <1>c DEF Route
<1>d. ASSUME Published(w) PROVE Turn
  BY <1>a, <1>d DEF Published
<1>e. ASSUME Reject(w) PROVE Turn /\ Same
  BY <1>e DEF Reject
<1>f. ASSUME NEW l \in PCs \ {"push"}, Advance(w, l) PROVE Turn /\ Same
  BY <1>f DEF Advance
<1>1. ASSUME Prepare(w) PROVE Ok
  BY <1>1, <1>a, <1>e, <1>f DEF Prepare, Publish, RowStep
<1>2. ASSUME Check(w) PROVE Ok
  BY <1>2, <1>a, <1>b, <1>c, <1>e DEF Check, RowStep
<1>3. ASSUME NameFeature(w) PROVE Ok
  BY <1>3, <1>a, <1>e, <1>f DEF NameFeature, Publish, RowStep
<1>4. ASSUME Enter(w) PROVE Ok
  <2>1. Before[pc[w]] \in PCs \ {"push"} /\ pc[w] # "idle"
    BY <1>4, <1>a DEF Enter, Before, Calls
  <2> QED
    BY <1>4, <2>1, <1>e, <1>f DEF Enter, RowStep
<1>5. ASSUME Fetch(w) PROVE Ok
  BY <1>5, <1>a, <1>b, <1>e DEF Fetch, Publish, RowStep
<1>6. ASSUME Stage(w) PROVE Ok
  BY <1>6, <1>a, <1>e, <1>f DEF Stage, Publish, RowStep
<1>7. ASSUME Review(w) PROVE Ok
  BY <1>7, <1>a, <1>e, <1>f DEF Review, Calls, RowStep
<1>8. ASSUME Export(w) PROVE Ok
  BY <1>8, <1>a, <1>b, <1>e DEF Export, Publish, RowStep
<1>9. ASSUME Apply(w) PROVE Ok
  BY <1>9, <1>a, <1>e, <1>f DEF Apply, Calls, RowStep
<1>10. ASSUME Committed(w) PROVE Ok
  BY <1>10, <1>a, <1>e, <1>f DEF Committed, Publish, RowStep
<1>11. ASSUME RefusePR(w) PROVE Ok
  BY <1>11, <1>e DEF RefusePR, RowStep
<1>12. ASSUME CheckRemote(w) PROVE Ok
  BY <1>12, <1>a, <1>b, <1>d, <1>e DEF CheckRemote, Publish, RowStep
<1>13. ASSUME Pushed(w) PROVE Ok
  BY <1>13, <1>d, <1>e DEF Pushed, Publish, RowStep
<1>14. ASSUME Verify(w) PROVE Ok
  BY <1>14, <1>a, <1>e, <1>f DEF Verify, Publish, Calls, RowStep
<1>15. ASSUME Name(w) PROVE Ok
  BY <1>15, <1>a, <1>e, <1>f DEF Name, Publish, RowStep
<1>16. ASSUME Reread(w) PROVE Ok
  BY <1>16, <1>a, <1>b, <1>e DEF Reread, RowStep
<1>17. ASSUME SaveBranch(w) PROVE Ok
  BY <1>17, <1>c DEF SaveBranch, RowStep
<1>18. Quiet \/ SaveBranch(w)
  BY DEF Prepare, Check, NameFeature, Enter, Fetch, Stage, Review, Export, Apply,
         Committed, RefusePR, CheckRemote, Pushed, Verify, Name, Reread
<1>19. Ok
  BY <1>1, <1>2, <1>3, <1>4, <1>5, <1>6, <1>7, <1>8, <1>9, <1>10, <1>11, <1>12,
     <1>13, <1>14, <1>15, <1>16, <1>17
<1> QED
  BY <1>18, <1>19, ControlFacts

\* The steps around calls: Ship makes the ancestor check, a call may push.
LEMMA CallFacts ==
    ASSUME TypeOK, NEW w \in Workers,
           \/ Ship(w) \/ ListPulls(w) \/ Call(w) \/ See(w) \/ Refused(w)
           \/ Acquire(w) \/ Error(w) \/ Cancel(w)
    PROVE  WorkerFacts(w)
<1> USE DEF WorkerFacts, RowStep, HubStep, PushStep, LateStep
<1>a. pc \in [Workers -> PCs] /\ at \in [Workers -> Statuses]
  BY DEF TypeOK, WorkerTypes
<1>1. ASSUME Ship(w) PROVE WorkerFacts(w)
  BY <1>1, <1>a DEF Ship, Publish, Advance, Goto, Reject, Return, Quiet
<1>2. ASSUME ListPulls(w) PROVE WorkerFacts(w)
  BY <1>2, <1>a DEF ListPulls, Publish, Advance, Goto, Reject, Return
<1>3. ASSUME Call(w) PROVE WorkerFacts(w)
  <2>1. UNCHANGED <<st, lease, told, job, late, at>>
    BY <1>3 DEF Call, Answer, Goto, Return, Calls
  <2>2. \E l \in {"branched", "added", "updated", "pushed", "renamed", "final"} :
            pc' = [pc EXCEPT ![w] = l]
    BY <1>3 DEF Call, Answer, Goto, Return, Calls
  <2>3. HubStep(CallOf(w))
    BY <1>3 DEF Call, Can, Do, CallOf, DoBranch, DoImport, DoAdd, DoUpdate,
       DoOpen, DoRename
  <2>4. pc[w] # "idle"
    BY <1>3 DEF Call, Calls
  <2> QED
    BY <2>1, <2>2, <2>3, <2>4, <1>a
<1>4. ASSUME See(w) PROVE WorkerFacts(w)
  <2>1. \E l \in {"row", "export", "committed"} : Goto(w, l)
    BY <1>4 DEF See, Answers
  <2>2. pc[w] # "idle"
    BY <1>4 DEF See, Answers
  <2> QED
    BY <1>4, <2>1, <2>2, <1>a DEF See, Goto
<1>5. ASSUME Refused(w) PROVE WorkerFacts(w)
  BY <1>5, <1>a DEF Refused, Reject, Return, Calls
<1>6. ASSUME Acquire(w) PROVE WorkerFacts(w)
  BY <1>6, <1>a DEF Acquire, Quiet
<1>7. ASSUME Error(w) PROVE WorkerFacts(w)
  BY <1>7, <1>a DEF Error, Reject, Return, Abandoned
<1>8. ASSUME Cancel(w) PROVE WorkerFacts(w)
  BY <1>8, <1>a DEF Cancel, Abandoned
<1> QED
  BY <1>1, <1>2, <1>3, <1>4, <1>5, <1>6, <1>7, <1>8

-----------------------------------------------------------------------------
(***************************************************************************)
(* Pushes keep what is at GitHub.                                          *)
(***************************************************************************)
\* A branch contains itself.
LEMMA PrefixReflexive ==
    ASSUME NEW c \in Commits
    PROVE  IsPrefix(c, c)
  BY DEF IsPrefix, Commits

\* A push by somebody who made the ancestor check keeps every branch.
LEMMA HubKept ==
    ASSUME TypeOK, NEW c, HubStep(c),
           c.kind = "push" => IsPrefix(c.at.remote, c.at.head)
    PROVE  \A b \in Branch : IsPrefix(remote[b], remote'[b])
<1>1. \A b \in Branch : IsPrefix(remote[b], remote[b])
  BY PrefixReflexive DEF TypeOK, GitHubTypes
<1>2. CASE c.kind = "push" /\ CanPush(c) /\ DoPush(c)
  BY <1>1, <1>2 DEF CanPush, DoPush, TypeOK, GitHubTypes
<1> QED
  BY <1>1, <1>2 DEF HubStep

\* Calls of Git and GitHub change GitHub's branches only by a push.
LEMMA LateHub ==
    ASSUME NEW c, Late(c)
    PROVE  HubStep(c)
  BY DEF Late, Can, Do, HubStep, DoBranch, DoImport, DoAdd, DoUpdate, DoOpen,
     DoRename

\* What every step does to GitHub and to the calls.
LEMMA PushSteps ==
    ASSUME TypeOK, PushInv, [Next]_vars
    PROVE  /\ PushInv'
           /\ GitHub \/ \A b \in Branch : IsPrefix(remote[b], remote'[b])
<1> DEFINE Ok == /\ PushInv'
                 /\ GitHub \/ \A b \in Branch : IsPrefix(remote[b], remote'[b])
<1>a. ASSUME UNCHANGED remote PROVE \A b \in Branch : IsPrefix(remote[b], remote'[b])
  BY <1>a, PrefixReflexive DEF TypeOK, GitHubTypes
<1>b. ASSUME UNCHANGED <<pc, at>>, late' \subseteq late PROVE PushInv'
  BY <1>b, PushKept DEF PushStep, LateStep
<1>1. ASSUME NEW w \in Workers, WorkerFacts(w) PROVE Ok
  <2>1. pc[w] = "push" => IsPrefix(at[w].remote, at[w].head)
    BY DEF PushInv
  <2>2. HubStep(CallOf(w))
    BY <1>1 DEF WorkerFacts
  <2>3. \A b \in Branch : IsPrefix(remote[b], remote'[b])
    BY <2>1, <2>2, HubKept DEF CallOf
  <2> QED
    BY <1>1, <2>3, PushKept DEF WorkerFacts
<1>2. ASSUME NEW w \in Workers, Final(w) \/ \E o \in Ops : Claim(w, o) PROVE Ok
  <2>1. UNCHANGED <<late, remote>>
    BY <1>2 DEF Final, Claim
  <2>2. PushStep
    BY <1>2 DEF Final, Claim, PushStep, TypeOK, WorkerTypes
  <2> QED
    BY <2>1, <2>2, <1>a, PushKept DEF LateStep
<1>3. ASSUME NEW c \in late, Late(c) PROVE Ok
  <2>1. \A b \in Branch : IsPrefix(remote[b], remote'[b])
    BY <1>3, LateHub, HubKept DEF PushInv
  <2> QED
    BY <1>3, <2>1, <1>b DEF Late
<1>4. CASE Rows \/ LoseLock \/ Agent \/ UNCHANGED vars
  <2>1. UNCHANGED <<pc, at, late, remote>>
    BY <1>4 DEF Rows, Start, Expire, Interrupt, Prune, LoseLock, Agent
  <2> QED
    BY <2>1, <1>a, <1>b
<1>5. CASE GitHub
  BY <1>5, <1>b DEF GitHub, GitHubPush
<1>6. ASSUME NEW w \in Workers, Acquire(w) \/ Work(w) \/ Error(w) \/ Cancel(w)
      PROVE  Ok
  BY <1>6, <1>1, <1>2, QuietFacts, CallFacts DEF Work
<1> QED
  BY <1>2, <1>3, <1>4, <1>5, <1>6 DEF Next

\* A push of the gateway never takes a commit away from GitHub: for any number
\* of workers, operations, faults, lost leases and locks, and pushes of others
\* (push of executeCodingOperation).
THEOREM PushesKeepRemote == Spec => RemoteKept
<1>1. Init => PushInv
  BY DEF Init, PushInv
<1>2. TypeOK /\ PushInv /\ [Next]_vars => PushInv'
  BY PushSteps
<1>3. TypeOK /\ PushInv /\ [Next]_vars =>
        [GitHub \/ \A b \in Branch : IsPrefix(remote[b], remote'[b])]_vars
  BY PushSteps
<1> QED
  BY <1>1, <1>2, <1>3, CodingTypeCorrect, PTL DEF Spec, RemoteKept

-----------------------------------------------------------------------------
(***************************************************************************)
(* The rows implement the ledger.                                          *)
(***************************************************************************)
\* A worker works on an operation that has been claimed, alone, and while its
\* lease is live that operation runs.
ClaimInv ==
    /\ \A w \in Workers :
          pc[w] # "idle" => /\ job[w] \in Ops
                            /\ st[job[w]] \notin {"absent", "queued"}
                            /\ lease[job[w]] = "live" => st[job[w]] = "running"
    /\ \A w, v \in Workers :
          pc[w] # "idle" /\ pc[v] # "idle" /\ job[w] = job[v] => w = v

LedgerStep == [Ledger!Next]_<<st, told>>

\* A publication under the lease is a report of a running operation.
LEMMA ReportStep ==
    ASSUME TypeOK, ClaimInv, NEW w \in Workers, WorkerFacts(w)
    PROVE  ClaimInv' /\ LedgerStep
<1>1. UNCHANGED <<st, lease, job>> /\ \A v \in Workers : pc'[v] # "idle" => pc[v] # "idle"
  BY DEF WorkerFacts
<1>2. ClaimInv'
  BY <1>1 DEF ClaimInv
<1>3. CASE Leased(w) /\ pc[w] # "idle" /\ told' = [told EXCEPT ![job[w]] = out[w]]
  <2>1. job[w] \in Ops /\ st[job[w]] = "running"
    BY <1>3 DEF ClaimInv, Leased
  <2>2. out[w] \in Outcomes /\ told \in [Ops -> Outcomes]
    BY DEF TypeOK, RowTypes, WorkerTypes
  <2>3. told'[job[w]] = out[w]
    BY <1>3, <2>1, <2>2
  <2>4. Ledger!Report(job[w])
    BY <1>1, <1>3, <2>1, <2>2, <2>3 DEF Ledger!Report, Ledger!Reported
  <2> QED
    BY <1>2, <2>1, <2>4 DEF LedgerStep, Ledger!Next
<1> QED
  BY <1>1, <1>2, <1>3 DEF WorkerFacts, RowStep, LedgerStep

\* The final publication ends a running operation; without a live lease it
\* does nothing.
LEMMA FinalStep ==
    ASSUME TypeOK, ClaimInv, NEW w \in Workers, Final(w)
    PROVE  ClaimInv' /\ LedgerStep
<1>a. /\ st \in [Ops -> OpStates] /\ told \in [Ops -> Outcomes]
      /\ pc \in [Workers -> PCs] /\ out[w] \in Outcomes
  BY DEF TypeOK, RowTypes, WorkerTypes
<1>b. pc[w] = "final" /\ pc' = [pc EXCEPT ![w] = "idle"] /\ UNCHANGED <<lease, job>>
  BY DEF Final
<1>c. \A v \in Workers : pc'[v] # "idle" => v # w /\ pc[v] # "idle"
  BY <1>a, <1>b
<1>d. \A v \in Workers : pc'[v] # "idle" => job[v] # job[w]
  BY <1>b, <1>c DEF ClaimInv
<1>1. CASE Leased(w)
  <2>1. job[w] \in Ops /\ st[job[w]] = "running"
    BY <1>1, <1>b DEF ClaimInv, Leased
  <2>2. \E e \in {"succeeded", "failed"} : st' = [st EXCEPT ![job[w]] = e]
    BY <1>1 DEF Final
  <2>3. told' = [told EXCEPT ![job[w]] = out[w]]
    BY <1>1 DEF Final
  <2>4. Ledger!End(job[w])
    BY <1>a, <2>1, <2>2, <2>3 DEF Ledger!End, Ledger!Ends, Ledger!Reported
  <2>5. ClaimInv'
    BY <1>a, <1>b, <1>c, <1>d, <2>2 DEF ClaimInv
  <2> QED
    BY <2>1, <2>4, <2>5 DEF LedgerStep, Ledger!Next
<1>2. CASE ~Leased(w)
  <2>1. UNCHANGED <<st, told>>
    BY <1>2 DEF Final
  <2> QED
    BY <1>b, <1>c, <2>1 DEF ClaimInv, LedgerStep
<1> QED
  BY <1>1, <1>2

\* A claim starts a queued operation that nobody works on.
LEMMA ClaimStep ==
    ASSUME TypeOK, ClaimInv, NEW w \in Workers, NEW o \in Ops, Claim(w, o)
    PROVE  ClaimInv' /\ LedgerStep
<1>1. Ledger!Run(o)
  BY DEF Claim, Ledger!Run
<1>2. \A v \in Workers : pc[v] # "idle" => job[v] # o
  BY DEF Claim, ClaimInv
<1>3. /\ st \in [Ops -> OpStates] /\ pc \in [Workers -> PCs]
      /\ job \in [Workers -> {0} \cup Ops]
      /\ lease \in [Ops -> {"none", "live", "expired"}]
  BY DEF TypeOK, RowTypes, WorkerTypes
<1>4. /\ job' = [job EXCEPT ![w] = o] /\ st' = [st EXCEPT ![o] = "running"]
      /\ lease' = [lease EXCEPT ![o] = "live"] /\ pc[w] = "idle"
      /\ \A v \in Workers : v # w => pc'[v] = pc[v]
  BY <1>3 DEF Claim
<1>5. ClaimInv'
  BY <1>2, <1>3, <1>4 DEF ClaimInv
<1> QED
  BY <1>1, <1>5 DEF LedgerStep, Ledger!Next

\* Requests, expiry, interruption and pruning follow the ledger.
LEMMA RowsStep ==
    ASSUME TypeOK, ClaimInv, Rows
    PROVE  ClaimInv' /\ LedgerStep
<1>a. /\ st \in [Ops -> OpStates] /\ told \in [Ops -> Outcomes]
      /\ lease \in [Ops -> {"none", "live", "expired"}]
  BY DEF TypeOK, RowTypes
<1>b. UNCHANGED <<pc, job>>
  BY DEF Rows, Start, Expire, Interrupt, Prune
<1>1. ASSUME NEW o \in Ops, NEW a, NEW s, NEW f, Start(o, a, s, f)
      PROVE  ClaimInv' /\ LedgerStep
  <2>1. CASE st[o] = "absent"
    <3>1. Ledger!Accept(o)
      BY <1>1, <2>1 DEF Start, Ledger!Accept
    <3>2. ClaimInv'
      BY <1>1, <2>1, <1>a, <1>b DEF Start, ClaimInv
    <3> QED
      BY <3>1, <3>2 DEF LedgerStep, Ledger!Next
  <2>2. CASE st[o] # "absent"
    BY <1>1, <2>2, <1>b DEF Start, ClaimInv, LedgerStep
  <2> QED
    BY <2>1, <2>2
<1>2. ASSUME NEW o \in Ops, Expire(o) PROVE ClaimInv' /\ LedgerStep
  BY <1>2, <1>a, <1>b DEF Expire, ClaimInv, LedgerStep
<1>3. ASSUME NEW o \in Ops, Interrupt(o) PROVE ClaimInv' /\ LedgerStep
  <2>1. Ledger!End(o)
    BY <1>3, <1>a DEF Interrupt, Ledger!End, Ledger!Ends, Ledger!Reported
  <2>2. ClaimInv'
    BY <1>3, <1>a, <1>b DEF Interrupt, ClaimInv
  <2> QED
    BY <2>1, <2>2 DEF LedgerStep, Ledger!Next
<1>4. ASSUME NEW o \in Ops, Prune(o) PROVE ClaimInv' /\ LedgerStep
  <2>1. Ledger!Forget(o)
    BY <1>4 DEF Prune, Terminal, Ledger!Forget, Ledger!Ends
  <2>2. ClaimInv'
    BY <1>4, <1>a, <1>b DEF Prune, Terminal, ClaimInv
  <2> QED
    BY <2>1, <2>2 DEF LedgerStep, Ledger!Next
<1> QED
  BY <1>1, <1>2, <1>3, <1>4 DEF Rows

\* Every step follows the ledger or leaves rows alone.
LEMMA LedgerSteps ==
    ASSUME TypeOK, ClaimInv, [Next]_vars
    PROVE  ClaimInv' /\ LedgerStep
<1>1. ASSUME NEW w \in Workers, Acquire(w) \/ Work(w) \/ Error(w) \/ Cancel(w)
      PROVE  ClaimInv' /\ LedgerStep
  BY <1>1, QuietFacts, CallFacts, ReportStep, FinalStep DEF Work
<1>2. CASE (\E c \in late : Late(c)) \/ LoseLock \/ Agent \/ GitHub \/ UNCHANGED vars
  <2>1. UNCHANGED <<st, told, lease, pc, job>>
    BY <1>2 DEF Late, LoseLock, Agent, GitHub, GitHubPush
  <2> QED
    BY <2>1 DEF ClaimInv, LedgerStep
<1> QED
  BY <1>1, <1>2, ClaimStep, RowsStep DEF Next

\* For every number of workers, operations and faults the rows follow the
\* ledger: requests are accepted once, operations of the project run one at a
\* time, only the worker with the live lease reports, and ends are final.
THEOREM LedgerImplemented == Spec => ImplementsLedger
<1>1. Init => ClaimInv /\ Ledger!Init
  BY DEF Init, ClaimInv, Ledger!Init
<1>2. TypeOK /\ ClaimInv /\ [Next]_vars => ClaimInv'
  BY LedgerSteps
<1>3. TypeOK /\ ClaimInv /\ [Next]_vars => [Ledger!Next]_<<st, told>>
  BY LedgerSteps DEF LedgerStep
<1> QED
  BY <1>1, <1>2, <1>3, CodingTypeCorrect, PTL
  DEF Spec, ImplementsLedger, Ledger!Spec

-----------------------------------------------------------------------------
(***************************************************************************)
(* What is committed, and what a worker knows of it.                       *)
(***************************************************************************)
\* A commit whose makers were requested and kept to what was reviewed.
Good(c, s, r) ==
    \A k \in Made(c) :
        /\ s[c[k].by] # "absent"
        /\ LET q == r[c[k].by] IN
           q.staged => /\ c[k].tree = q.tree
                       /\ ~q.feature => SubSeq(c, 1, k - 1) = q.head

\* Every commit a status speaks of is one.
Sound(x, s, r) ==
    /\ Good(x.head, s, r) /\ Good(x.sha, s, r)
    /\ \A b \in Branch : Good(x.refs[b], s, r)

\* What a worker at p knows when its status is x, its outcome y and its
\* request r.
Reviews(p, x, r) ==
    /\ p \in {"feature", "creating", "branch", "branched"} => r.feature
    /\ p \in {"name", "namelock", "reread", "renaming", "rename", "renamed"}
       => r.action = "name_branch"
    /\ p = "row" => r.feature \/ r.action = "name_branch"
    /\ p \in {"review", "add", "added"} => ~r.staged
    /\ p = "stage" => r.feature \/ x.head = r.head
    /\ p = "export" /\ r.staged => x.tree = r.tree /\ (r.feature \/ x.head = r.head)

\* A commit about to be applied extends the HEAD it was made on, and only the
\* temporary branch is about to be renamed; also in calls that were abandoned.
Changes(p, x) ==
    /\ p \in {"renaming", "rename"} => x.branch = "chore"
    /\ p \in {"apply", "update", "updated"} => IsPrefix(x.head, x.sha) /\ x.sha # << >>

\* Requests of accepted operations do not change.
Steady ==
    \A o \in Ops : st[o] # "absent" => st'[o] # "absent" /\ req'[o] = req[o]

\* Elements of a sequence of commits.
LEMMA CommitParts ==
    ASSUME NEW c \in Commits
    PROVE  /\ Len(c) \in Nat
           /\ \A k \in 1 .. Len(c) : c[k].tree \in Nat /\ c[k].by \in {Other} \cup Ops
<1> DEFINE R == [tree : Nat, by : {Other} \cup Ops]
<1>1. c \in Seq(R)
  BY DEF Commits
<1> HIDE DEF R
<1>2. Len(c) \in Nat /\ \A k \in 1 .. Len(c) : c[k] \in R
  BY <1>1
<1> QED BY <1>2 DEF R

\* Being a prefix, elementwise.
LEMMA PrefixElements ==
    ASSUME NEW c \in Commits, NEW d \in Commits
    PROVE  IsPrefix(c, d) <=> /\ Len(c) <= Len(d)
                              /\ \A k \in 1 .. Len(c) : c[k] = d[k]
<1>1. c \in Seq([tree : Nat, by : {Other} \cup Ops]) /\ d \in Seq([tree : Nat, by : {Other} \cup Ops])
  BY DEF Commits
<1>2. Len(c) \in Nat /\ Len(d) \in Nat
  BY <1>1
<1>3. ASSUME Len(c) <= Len(d)
      PROVE  /\ SubSeq(c, 1, Len(c)) = [k \in 1 .. Len(c) |-> c[k]]
             /\ SubSeq(d, 1, Len(c)) = [k \in 1 .. Len(c) |-> d[k]]
  BY <1>1, <1>2, <1>3
<1>4. ASSUME Len(c) <= Len(d), SubSeq(c, 1, Len(c)) = SubSeq(d, 1, Len(c)), NEW k \in 1 .. Len(c)
      PROVE  c[k] = d[k]
  <2>1. [j \in 1 .. Len(c) |-> c[j]][k] = [j \in 1 .. Len(c) |-> d[j]][k]
    BY <1>3, <1>4
  <2> QED BY <2>1
<1> QED BY <1>3, <1>4 DEF IsPrefix

\* A commit may be extended twice.
LEMMA PrefixTransitive ==
    ASSUME NEW c \in Commits, NEW d \in Commits, NEW e \in Commits,
           IsPrefix(c, d), IsPrefix(d, e)
    PROVE  IsPrefix(c, e)
<1>1. Len(c) \in Nat /\ Len(d) \in Nat /\ Len(e) \in Nat
  BY CommitParts
<1>2. Len(c) <= Len(d) /\ \A k \in 1 .. Len(c) : c[k] = d[k]
  BY PrefixElements
<1>3. Len(d) <= Len(e) /\ \A k \in 1 .. Len(d) : d[k] = e[k]
  BY PrefixElements
<1>4. Len(c) <= Len(e) /\ \A k \in 1 .. Len(c) : c[k] = e[k]
  BY <1>1, <1>2, <1>3
<1> QED BY <1>4, PrefixElements

\* The commit on top contains what it was made on.
LEMMA OnTop ==
    ASSUME NEW c \in Commits, NEW t \in Nat, NEW o \in {Other} \cup Ops,
           NEW d, d = Append(c, Entry(t, o))
    PROVE  /\ d \in Commits /\ d # << >> /\ IsPrefix(c, d)
           /\ Len(d) = Len(c) + 1 /\ d[Len(c) + 1] = Entry(t, o)
           /\ \A k \in 1 .. Len(c) : d[k] = c[k] /\ SubSeq(d, 1, k - 1) = SubSeq(c, 1, k - 1)
           /\ SubSeq(d, 1, Len(c)) = c
<1>1. Entry(t, o) \in [tree : Nat, by : {Other} \cup Ops]
  BY DEF Entry
<1>2. c \in Seq([tree : Nat, by : {Other} \cup Ops]) /\ Len(c) \in Nat
  BY DEF Commits
<1>3. d \in Commits
  BY CommitType
<1>4. Len(d) = Len(c) + 1 /\ d[Len(c) + 1] = Entry(t, o) /\ \A k \in 1 .. Len(c) : d[k] = c[k]
  BY <1>1, <1>2
<1>5. d # << >>
  BY <1>2, <1>4
<1>6. IsPrefix(c, d)
  <2>1. Len(c) <= Len(d) /\ \A k \in 1 .. Len(c) : c[k] = d[k]
    BY <1>2, <1>4
  <2> QED BY <1>3, <2>1, PrefixElements
<1>7. d \in Seq([tree : Nat, by : {Other} \cup Ops])
  BY <1>3 DEF Commits
<1>8. ASSUME NEW k \in 1 .. Len(c) + 1 PROVE SubSeq(d, 1, k - 1) = SubSeq(c, 1, k - 1)
  <2>1. k - 1 \in Nat /\ k - 1 <= Len(c)
    BY <1>2
  <2>2. SubSeq(d, 1, k - 1) = [j \in 1 .. k - 1 |-> d[j]]
    BY <1>2, <1>4, <1>7, <2>1
  <2>3. SubSeq(c, 1, k - 1) = [j \in 1 .. k - 1 |-> c[j]]
    BY <1>2, <2>1
  <2>4. \A j \in 1 .. k - 1 : d[j] = c[j]
    BY <1>2, <1>4, <2>1
  <2> QED BY <2>2, <2>3, <2>4
<1>9. SubSeq(d, 1, Len(c)) = c
  <2>1. SubSeq(d, 1, (Len(c) + 1) - 1) = SubSeq(c, 1, (Len(c) + 1) - 1)
    BY <1>2, <1>8
  <2>2. (Len(c) + 1) - 1 = Len(c)
    BY <1>2
  <2>3. SubSeq(c, 1, Len(c)) = c
    BY <1>2
  <2> QED BY <2>1, <2>2, <2>3
<1> QED BY <1>2, <1>3, <1>4, <1>5, <1>6, <1>8, <1>9

\* Nothing and the root were made by nobody.
LEMMA GoodRoots ==
    ASSUME NEW s, NEW r
    PROVE  Good(<< >>, s, r) /\ Good(Root, s, r) /\ << >> \in Commits /\ Root \in Commits
<1>1. << >> \in Commits /\ Root \in Commits
  BY DEF Commits, Root, Entry, Other
<1>2. \A k \in 1 .. Len(Root) : Root[k].by = 0
  BY DEF Root, Entry, Other
<1>3. 0 \notin Ops
  BY LimitsAssumption DEF Ops
<1> QED BY <1>1, <1>2, <1>3 DEF Good, Made

\* A commit of the agent or of others keeps what was good.
LEMMA GoodOther ==
    ASSUME NEW s, NEW r, NEW c \in Commits, NEW t \in Nat, Good(c, s, r)
    PROVE  Good(Append(c, Entry(t, Other)), s, r)
<1> DEFINE d == Append(c, Entry(t, Other))
<1>1. /\ Len(d) = Len(c) + 1 /\ d[Len(c) + 1] = Entry(t, Other)
      /\ \A k \in 1 .. Len(c) : d[k] = c[k] /\ SubSeq(d, 1, k - 1) = SubSeq(c, 1, k - 1)
  BY OnTop
<1>2. Other \notin Ops /\ Len(c) \in Nat /\ Entry(t, Other).by = Other
  BY CommitParts, LimitsAssumption DEF Ops, Other, Entry
<1> HIDE DEF d
<1>3. \A k \in Made(d) : k \in Made(c) /\ d[k] = c[k] /\ SubSeq(d, 1, k - 1) = SubSeq(c, 1, k - 1)
  BY <1>1, <1>2 DEF Made
<1>4. Good(d, s, r)
  BY <1>3 DEF Good
<1> QED BY <1>4 DEF d

\* A commit that an operation makes of what was reviewed is good.
LEMMA GoodMade ==
    ASSUME NEW s, NEW r, NEW c \in Commits, NEW t \in Nat, NEW o \in Ops, Good(c, s, r),
           s[o] # "absent",
           r[o].staged => t = r[o].tree /\ (~r[o].feature => c = r[o].head)
    PROVE  Good(Append(c, Entry(t, o)), s, r)
<1> DEFINE d == Append(c, Entry(t, o))
<1>1. /\ Len(d) = Len(c) + 1 /\ d[Len(c) + 1] = Entry(t, o)
      /\ \A k \in 1 .. Len(c) : d[k] = c[k] /\ SubSeq(d, 1, k - 1) = SubSeq(c, 1, k - 1)
      /\ SubSeq(d, 1, Len(c)) = c
  <2>1. o \in {Other} \cup Ops /\ d = Append(c, Entry(t, o))
    OBVIOUS
  <2> HIDE DEF d
  <2> QED BY <2>1, OnTop
<1>2. Len(c) \in Nat /\ Entry(t, o).by = o /\ Entry(t, o).tree = t
  BY CommitParts DEF Entry
<1> HIDE DEF d
<1>3. ASSUME NEW k \in Made(d), k # Len(c) + 1
      PROVE  k \in Made(c) /\ d[k] = c[k] /\ SubSeq(d, 1, k - 1) = SubSeq(c, 1, k - 1)
  BY <1>1, <1>2, <1>3 DEF Made
<1>4. (Len(c) + 1) - 1 = Len(c)
  BY <1>2
<1>5. Good(d, s, r)
  <2> SUFFICES ASSUME NEW k \in Made(d)
               PROVE  /\ s[d[k].by] # "absent"
                      /\ r[d[k].by].staged => /\ d[k].tree = r[d[k].by].tree
                                              /\ ~r[d[k].by].feature => SubSeq(d, 1, k - 1) = r[d[k].by].head
    BY DEF Good
  <2>1. CASE k = Len(c) + 1
    BY <1>1, <1>2, <1>4, <2>1
  <2>2. CASE k # Len(c) + 1
    <3>1. k \in Made(c) /\ d[k] = c[k] /\ SubSeq(d, 1, k - 1) = SubSeq(c, 1, k - 1)
      BY <1>3, <2>2
    <3> QED BY <3>1 DEF Good
  <2> QED BY <2>1, <2>2
<1> QED BY <1>5 DEF d

\* So is what is left of it when others rewrite the branch.
LEMMA GoodFront ==
    ASSUME NEW s, NEW r, NEW c \in Commits, c # << >>, Good(c, s, r)
    PROVE  Good(Front(c), s, r)
<1>1. c \in Seq([tree : Nat, by : {Other} \cup Ops]) /\ Len(c) \in Nat /\ Len(c) # 0
  BY DEF Commits
<1>2. Front(c) = [i \in 1 .. Len(c) - 1 |-> c[i]]
  BY <1>1 DEF Front
<1>3. Front(c) \in Seq([tree : Nat, by : {Other} \cup Ops]) /\ Len(Front(c)) = Len(c) - 1
  <2>1. Front(c) \in Seq([tree : Nat, by : {Other} \cup Ops])
    BY <1>1, SeqParts
  <2>2. Len(c) - 1 \in Nat
    BY <1>1
  <2> QED BY <1>2, <2>1, <2>2
<1>4. ASSUME NEW k \in Made(Front(c))
      PROVE  k \in Made(c) /\ Front(c)[k] = c[k] /\ SubSeq(Front(c), 1, k - 1) = SubSeq(c, 1, k - 1)
  <2>1. k \in 1 .. Len(c) - 1 /\ Front(c)[k] = c[k]
    BY <1>2, <1>3 DEF Made
  <2>2. k \in Made(c)
    BY <1>1, <2>1 DEF Made
  <2>3. SubSeq(Front(c), 1, k - 1) = [j \in 1 .. k - 1 |-> Front(c)[j]]
    BY <1>1, <1>3, <2>1
  <2>4. SubSeq(c, 1, k - 1) = [j \in 1 .. k - 1 |-> c[j]]
    BY <1>1, <2>1
  <2>5. \A j \in 1 .. k - 1 : Front(c)[j] = c[j]
    BY <1>1, <1>2, <2>1
  <2> QED BY <2>1, <2>2, <2>3, <2>4, <2>5
<1> QED BY <1>4 DEF Good

\* What is good stays good.
LEMMA GoodStays ==
    ASSUME NEW s, NEW r, NEW u, NEW v, NEW c \in Commits, Good(c, s, r),
           \A o \in Ops : s[o] # "absent" => u[o] # "absent" /\ v[o] = r[o]
    PROVE  Good(c, u, v)
<1>1. \A k \in Made(c) : c[k].by \in Ops
  BY DEF Made
<1> QED BY <1>1 DEF Good

\* Everybody's review, and the calls that were abandoned.
ReviewInv ==
    /\ req = [o \in Ops |-> req[o]]
    /\ \A w \in Workers : Reviews(pc[w], at[w], Req(w)) /\ Changes(pc[w], at[w])
    /\ \A c \in late : Changes(c.kind, c.at)

\* Every commit in the checkout, at GitHub and in anybody's hands is good.
SoundInv ==
    /\ \A b \in Branch : Good(ref[b], st, req) /\ Good(remote[b], st, req)
    /\ \A w \in Workers : Sound(at[w], st, req)
    /\ \A c \in late : Sound(c.at, st, req)

\* Where nothing is known of a review.
Plain == {"final", "idle", "prepare", "lock", "check", "fetch", "importing", "import", "remote",
          "ship", "push", "pushed", "pulls", "verify", "open", "committed"}

\* Where nothing is known nothing can be wrong.
LEMMA PlainKnows ==
    ASSUME NEW p \in Plain, NEW x, NEW r
    PROVE  Reviews(p, x, r) /\ Changes(p, x)
  BY DEF Plain, Reviews, Changes

\* Fields of a status after the changes that steps make.
LEMMA StatusFields ==
    ASSUME NEW x \in Statuses
    PROVE  /\ \A r : LET y == [x EXCEPT !.refs = r] IN
                 y.head = x.head /\ y.sha = x.sha /\ y.refs = r /\ y.branch = x.branch /\ y.tree = x.tree
           /\ \A c : LET y == [x EXCEPT !.sha = c] IN
                 y.head = x.head /\ y.sha = c /\ y.refs = x.refs /\ y.branch = x.branch /\ y.tree = x.tree
           /\ \A b : LET y == [x EXCEPT !.branch = b] IN
                 y.head = x.head /\ y.sha = x.sha /\ y.refs = x.refs /\ y.branch = b /\ y.tree = x.tree
  BY DEF Statuses

\* What readStatus returns speaks of good commits.
LEMMA StatusSound ==
    ASSUME CheckoutTypes, Good(Tip, st, req)
    PROVE  Sound(Status, st, req) /\ Status.head = Tip /\ Status.branch = branch
           /\ Status.tree = index /\ Status.dirty = Dirty
<1>1. /\ Status.head = Tip /\ Status.sha = << >> /\ Status.refs = NoRefs /\ Status.branch = branch
      /\ Status.tree = index /\ Status.dirty = Dirty
  BY DEF Status
<1>2. \A b \in Branch : NoRefs[b] = << >>
  BY DEF NoRefs
<1> QED BY <1>1, <1>2, GoodRoots DEF Sound

\* A step of a worker is a step of nobody else.
Alone(w) ==
    \A v \in Workers \ {w} :
        pc'[v] = pc[v] /\ at'[v] = at[v] /\ out'[v] = out[v] /\ err'[v] = err[v]

\* Going on and returning, seen from outside.
LEMMA MoveAlone ==
    ASSUME TypeOK, NEW w \in Workers,
           (\E l : Goto(w, l)) \/ (\E f : Return(w, f))
    PROVE  \A v \in Workers \ {w} : pc'[v] = pc[v] /\ err'[v] = err[v]
  BY DEF TypeOK, WorkerTypes, Goto, Return

\* Where Goto and Return lead.
LEMMA MoveTo ==
    ASSUME TypeOK, NEW w \in Workers
    PROVE  /\ \A l : Goto(w, l) => pc'[w] = l
           /\ \A f : Return(w, f) => pc'[w] = "final" /\ err'[w] = f
           /\ \A l : Advance(w, l) => pc'[w] = l /\ at' = at
           /\ Reject(w) => pc'[w] = "final" /\ at' = at /\ err'[w] = TRUE
           /\ \A d : Route(w, d) =>
                 \/ pc'[w] = "fetch" /\ Action(w) \in FetchActions
                 \/ pc'[w] = "stage" /\ Action(w) \in CommitActions /\ d
                 \/ pc'[w] = "final" /\ err'[w] = FALSE /\ Action(w) = "commit"
                 \/ pc'[w] = "remote"
           /\ Published(w) => \/ pc'[w] = "pulls" /\ WantsPR(w)
                              \/ pc'[w] = "final" /\ err'[w] = FALSE /\ ~WantsPR(w)
<1>1. pc \in [Workers -> PCs] /\ err \in [Workers -> BOOLEAN]
  BY DEF TypeOK, WorkerTypes
<1>2. \A l : Goto(w, l) => pc'[w] = l
  BY <1>1 DEF Goto
<1>3. \A f : Return(w, f) => pc'[w] = "final" /\ err'[w] = f
  BY <1>1 DEF Return
<1>4. \A l : Advance(w, l) => pc'[w] = l /\ at' = at
  BY <1>2 DEF Advance
<1>5. Reject(w) => pc'[w] = "final" /\ at' = at /\ err'[w] = TRUE
  BY <1>3 DEF Reject
<1>6. ASSUME NEW d, Route(w, d)
      PROVE  \/ pc'[w] = "fetch" /\ Action(w) \in FetchActions
             \/ pc'[w] = "stage" /\ Action(w) \in CommitActions /\ d
             \/ pc'[w] = "final" /\ err'[w] = FALSE /\ Action(w) = "commit"
             \/ pc'[w] = "remote"
  BY <1>2, <1>3, <1>6 DEF Route
<1>7. Published(w) => \/ pc'[w] = "pulls" /\ WantsPR(w)
                      \/ pc'[w] = "final" /\ err'[w] = FALSE /\ ~WantsPR(w)
  BY <1>2, <1>3 DEF Published
<1> QED BY <1>2, <1>3, <1>4, <1>5, <1>6, <1>7

\* The same for all steps of a worker.
LEMMA WorkAlone ==
    ASSUME TypeOK, NEW w \in Workers, Work(w) \/ Acquire(w) \/ Error(w) \/ Cancel(w)
    PROVE  Alone(w) /\ req' = req
<1> DEFINE Turn == \A v \in Workers \ {w} : pc'[v] = pc[v] /\ err'[v] = err[v]
           Look == \A v \in Workers \ {w} : at'[v] = at[v]
           Gain == \A v \in Workers \ {w} : out'[v] = out[v]
           Ok == Turn /\ Look /\ Gain /\ req' = req
<1>a. at \in [Workers -> Statuses] /\ out \in [Workers -> Outcomes] /\ pc \in [Workers -> PCs]
  BY DEF TypeOK, WorkerTypes
<1>b. \A l : Goto(w, l) => Turn
  BY MoveAlone
<1>c. \A f : Return(w, f) => Turn
  BY MoveAlone
<1>d. Reject(w) => Turn /\ Look
  BY <1>c DEF Reject
<1>e. \A l : Advance(w, l) => Turn /\ Look
  BY <1>b DEF Advance
<1>f. \A d : Route(w, d) => Turn
  BY <1>b, <1>c DEF Route
<1>g. Published(w) => Turn
  BY <1>b, <1>c DEF Published
<1>h. Quiet => Gain /\ req' = req
  BY DEF Quiet
<1> HIDE DEF Turn
<1>1. ASSUME Prepare(w) PROVE Ok
  BY <1>1, <1>d, <1>e, <1>h DEF Prepare, Publish
<1>2. ASSUME Check(w) PROVE Ok
  BY <1>2, <1>a, <1>b, <1>d, <1>f, <1>h DEF Check
<1>3. ASSUME NameFeature(w) PROVE Ok
  BY <1>3, <1>d, <1>e, <1>h DEF NameFeature, Publish
<1>4. ASSUME Enter(w) PROVE Ok
  BY <1>4, <1>d, <1>e, <1>h DEF Enter
<1>5. ASSUME Fetch(w) PROVE Ok
  BY <1>5, <1>a, <1>b, <1>d, <1>h DEF Fetch, Publish
<1>6. ASSUME Stage(w) PROVE Ok
  BY <1>6, <1>d, <1>e, <1>h DEF Stage, Publish
<1>7. ASSUME Review(w) PROVE Ok
  BY <1>7, <1>d, <1>e, <1>h DEF Review
<1>8. ASSUME Export(w) PROVE Ok
  BY <1>8, <1>a, <1>b, <1>d, <1>h DEF Export, Publish
<1>9. ASSUME Apply(w) PROVE Ok
  BY <1>9, <1>d, <1>e, <1>h DEF Apply
<1>10. ASSUME Committed(w) PROVE Ok
  BY <1>10, <1>c, <1>d, <1>e, <1>h DEF Committed, Publish
<1>11. ASSUME RefusePR(w) PROVE Ok
  BY <1>11, <1>d, <1>h DEF RefusePR
<1>12. ASSUME CheckRemote(w) PROVE Ok
  BY <1>12, <1>a, <1>b, <1>d, <1>g, <1>h DEF CheckRemote, Publish
<1>13. ASSUME Ship(w) PROVE Ok
  BY <1>13, <1>d, <1>e, <1>h DEF Ship, Publish
<1>14. ASSUME Pushed(w) PROVE Ok
  BY <1>14, <1>d, <1>g, <1>h DEF Pushed, Publish
<1>15. ASSUME Verify(w) PROVE Ok
  BY <1>15, <1>d, <1>e, <1>h DEF Verify, Publish
<1>16. ASSUME Name(w) PROVE Ok
  BY <1>16, <1>c, <1>d, <1>e, <1>h DEF Name, Publish
<1>17. ASSUME Reread(w) PROVE Ok
  BY <1>17, <1>a, <1>b, <1>d, <1>h DEF Reread
<1>18. ASSUME SaveBranch(w) PROVE Ok
  BY <1>18, <1>c, <1>f DEF SaveBranch
<1>19. ASSUME ListPulls(w) PROVE Ok
  BY <1>19, <1>a, <1>c, <1>d, <1>e DEF ListPulls, Publish
<1>20. ASSUME Call(w) PROVE Ok
  <2>1. at' = at /\ Gain /\ req' = req
    BY <1>20, <1>a DEF Call, Answer
  <2>2. (\E l : Goto(w, l)) \/ (\E f : Return(w, f))
    BY <1>20 DEF Call, Answer, Calls
  <2> QED BY <2>1, <2>2, <1>b, <1>c
<1>21. ASSUME See(w) PROVE Ok
  <2>1. Look /\ Gain /\ req' = req
    BY <1>21, <1>a DEF See
  <2>2. \E l : Goto(w, l)
    BY <1>21 DEF See
  <2> QED BY <2>1, <2>2, <1>b
<1>22. ASSUME Refused(w) PROVE Ok
  BY <1>22, <1>a, <1>c, <1>d DEF Refused
<1>23. ASSUME Final(w) PROVE Ok
  <2>1. Look /\ Gain /\ req' = req /\ err' = err /\ pc' = [pc EXCEPT ![w] = "idle"]
    BY <1>23 DEF Final
  <2> QED BY <2>1, <1>a DEF Turn
<1>24. ASSUME Acquire(w) PROVE Ok
  <2>1. Look /\ Gain /\ req' = req /\ err' = err
    BY <1>24, <1>h DEF Acquire
  <2>2. \E l : pc' = [pc EXCEPT ![w] = l]
    BY <1>24 DEF Acquire
  <2> QED BY <2>1, <2>2, <1>a DEF Turn
<1>25. ASSUME Error(w) PROVE Ok
  BY <1>25, <1>d DEF Error
<1>26. ASSUME Cancel(w) PROVE Ok
  <2>1. Look /\ Gain /\ req' = req /\ err' = err /\ pc' = [pc EXCEPT ![w] = "idle"]
    BY <1>26 DEF Cancel
  <2> QED BY <2>1, <1>a DEF Turn
<1>27. Ok
  BY <1>1, <1>2, <1>3, <1>4, <1>5, <1>6, <1>7, <1>8, <1>9, <1>10, <1>11, <1>12, <1>13, <1>14,
     <1>15, <1>16, <1>17, <1>18, <1>19, <1>20, <1>21, <1>22, <1>23, <1>24, <1>25, <1>26 DEF Work
<1> QED BY <1>27 DEF Alone, Turn

\* What a worker knows after its step.
LEMMA WorkReviews ==
    ASSUME TypeOK, ClaimInv, ReviewInv, SoundInv, NEW w \in Workers,
           Work(w) \/ Acquire(w) \/ Error(w) \/ Cancel(w)
    PROVE  /\ Reviews(pc'[w], at'[w], Req(w)) /\ Changes(pc'[w], at'[w])
           /\ Sound(at'[w], st, req)
<1> DEFINE Free == pc'[w] \in Plain
           Seen == Sound(at'[w], st, req)
           Rev == Reviews(pc'[w], at'[w], Req(w))
           Chg == Changes(pc'[w], at'[w])
           Ok == Rev /\ Chg /\ Seen
<1>a. /\ at \in [Workers -> Statuses] /\ pc \in [Workers -> PCs] /\ at[w] \in Statuses
      /\ CheckoutTypes /\ GitHubTypes
  BY DEF TypeOK, WorkerTypes
<1>b. Reviews(pc[w], at[w], Req(w)) /\ Changes(pc[w], at[w]) /\ Sound(at[w], st, req)
  BY DEF ReviewInv, SoundInv
<1>c. Good(Tip, st, req) /\ Tip \in Commits
  BY <1>a DEF SoundInv, Tip, CheckoutTypes
<1>d. Sound(Status, st, req) /\ Status.head = Tip /\ Status.tree = index
  BY <1>a, <1>c, StatusSound
<1>f. ASSUME Free, Seen PROVE Ok
  BY <1>f, PlainKnows
<1>m. /\ \A l : Goto(w, l) => pc'[w] = l
      /\ \A f : Return(w, f) => pc'[w] = "final"
      /\ \A l : Advance(w, l) => pc'[w] = l /\ at' = at
      /\ Reject(w) => pc'[w] = "final" /\ at' = at
      /\ \A d : Route(w, d) => pc'[w] \in {"fetch", "stage", "final", "remote"}
      /\ Published(w) => pc'[w] \in {"pulls", "final"}
  BY MoveTo
<1>p. "final" \in Plain
  BY DEF Plain
<1>r. Reject(w) => Ok
  BY <1>b, <1>f, <1>m, <1>p
<1> HIDE DEF Ok
<1>1. ASSUME Prepare(w) PROVE Ok
  <2>1. Reject(w) \/ Advance(w, "lock")
    BY <1>1 DEF Prepare, Publish
  <2> QED BY <2>1, <1>b, <1>f, <1>m, <1>r DEF Plain
<1>2. ASSUME Check(w) PROVE Ok
  <2>1. CASE Reject(w)
    BY <2>1, <1>r
  <2>2. CASE ~Reject(w)
    <3>1. at'[w] = Status /\ Tip = Req(w).head
      BY <1>2, <2>2, <1>a DEF Check, Reviewed
    <3>2. \/ pc'[w] = "feature" /\ Req(w).feature
          \/ pc'[w] = "stage" \/ Free
      BY <1>2, <2>2, <1>m DEF Check, Plain
    <3>3. Rev /\ Chg
      BY <3>1, <3>2, <1>d, <1>f, <1>b, PlainKnows DEF Reviews, Changes
    <3>4. Seen
      BY <3>1, <1>d
    <3> QED BY <3>3, <3>4 DEF Ok
  <2> QED BY <2>1, <2>2
<1>3. ASSUME NameFeature(w) PROVE Ok
  <2>1. CASE Advance(w, "creating")
    BY <1>3, <2>1, <1>b, <1>m DEF NameFeature, Reviews, Changes, Ok
  <2> QED BY <1>3, <2>1, <1>r DEF NameFeature, Publish
<1>4. ASSUME Enter(w) PROVE Ok
  <2>1. CASE pc[w] = "importing" /\ Advance(w, "import")
    BY <2>1, <1>b, <1>m, <1>f DEF Plain
  <2>2. CASE pc[w] = "creating" /\ Advance(w, "branch")
    BY <2>2, <1>b, <1>m DEF Reviews, Changes, Ok
  <2>3. CASE pc[w] = "renaming" /\ Advance(w, "rename")
    BY <2>3, <1>b, <1>m DEF Reviews, Changes, Ok
  <2>4. \/ Reject(w)
        \/ pc[w] = "importing" /\ Advance(w, "import")
        \/ pc[w] = "creating" /\ Advance(w, "branch")
        \/ pc[w] = "renaming" /\ Advance(w, "rename")
    BY <1>4 DEF Enter, Before
  <2> QED BY <2>1, <2>2, <2>3, <2>4, <1>r
<1>5. ASSUME Fetch(w) PROVE Ok
  <2>1. CASE Reject(w)
    BY <2>1, <1>r
  <2>2. CASE ~Reject(w)
    <3>1. at'[w] = [at[w] EXCEPT !.refs = remote] /\ pc'[w] = "importing"
      BY <1>5, <2>2, <1>a, <1>m DEF Fetch, Publish
    <3>2. at'[w].head = at[w].head /\ at'[w].sha = at[w].sha /\ at'[w].refs = remote
      BY <3>1, <1>a, StatusFields
    <3>3. Seen
      BY <3>2, <1>b DEF Sound, SoundInv
    <3> QED BY <3>1, <3>3, <1>f DEF Plain
  <2> QED BY <2>1, <2>2
<1>6. ASSUME Stage(w) PROVE Ok
  <2>1. CASE ~Req(w).staged /\ Advance(w, "review")
    BY <2>1, <1>b, <1>m DEF Reviews, Changes, Ok
  <2>2. CASE at[w].tree = Req(w).tree /\ Advance(w, "export") /\ pc[w] = "stage"
    BY <2>2, <1>b, <1>m DEF Reviews, Changes, Ok
  <2> QED BY <1>6, <2>1, <2>2, <1>r DEF Stage, Publish
<1>7. ASSUME Review(w) PROVE Ok
  <2>1. CASE pc[w] = "review" /\ Advance(w, "add")
    BY <2>1, <1>b, <1>m DEF Reviews, Changes, Ok
  <2> QED BY <1>7, <2>1, <1>r DEF Review
<1>8. ASSUME Export(w) PROVE Ok
  <2>1. CASE Reject(w)
    BY <2>1, <1>r
  <2>2. CASE ~Reject(w)
    <3> DEFINE c == Append(Tip, Entry(index, job[w]))
    <3>1. /\ at'[w] = [at[w] EXCEPT !.sha = c] /\ pc'[w] = "apply" /\ pc[w] = "export"
          /\ Tip = at[w].head /\ index = at[w].tree
      BY <1>8, <2>2, <1>a, <1>m DEF Export, Publish
    <3>2. job[w] \in Ops /\ st[job[w]] # "absent" /\ index \in Nat
      BY <3>1, <1>a DEF ClaimInv, CheckoutTypes
    <3>3. req[job[w]].staged =>
             index = req[job[w]].tree /\ (~req[job[w]].feature => Tip = req[job[w]].head)
      BY <3>1, <1>b DEF Reviews, Req
    <3>4. Good(c, st, req)
      BY <3>2, <3>3, <1>c, GoodMade
    <3>5. IsPrefix(Tip, c) /\ c # << >>
      <4>1. job[w] \in {Other} \cup Ops /\ c = Append(Tip, Entry(index, job[w]))
        BY <3>2
      <4> HIDE DEF c
      <4> QED BY <3>2, <4>1, <1>c, OnTop
    <3> HIDE DEF c
    <3>6. at'[w].head = at[w].head /\ at'[w].sha = c /\ at'[w].refs = at[w].refs
      BY <3>1, <1>a, StatusFields
    <3>7. Seen
      BY <3>4, <3>6, <1>b DEF Sound
    <3>8. Rev
      BY <3>1 DEF Reviews
    <3>9. Chg
      BY <3>1, <3>5, <3>6 DEF Changes
    <3> QED BY <3>7, <3>8, <3>9 DEF Ok
  <2> QED BY <2>1, <2>2
<1>9. ASSUME Apply(w) PROVE Ok
  <2>1. CASE pc[w] = "apply" /\ Advance(w, "update")
    BY <2>1, <1>b, <1>m DEF Reviews, Changes, Ok
  <2> QED BY <1>9, <2>1, <1>r DEF Apply
<1>10. ASSUME Committed(w) PROVE Ok
  <2>1. Reject(w) \/ (Free /\ at' = at)
    BY <1>10, <1>m DEF Committed, Publish, Plain
  <2> QED BY <2>1, <1>b, <1>f, <1>r
<1>11. ASSUME RefusePR(w) PROVE Ok
  BY <1>11, <1>r DEF RefusePR
<1>12. ASSUME CheckRemote(w) PROVE Ok
  <2>1. CASE Reject(w)
    BY <2>1, <1>r
  <2>2. CASE ~Reject(w)
    <3>1. at'[w] = [at[w] EXCEPT !.refs = remote] /\ Free
      BY <1>12, <2>2, <1>a, <1>m DEF CheckRemote, Publish, Plain
    <3>2. at'[w].head = at[w].head /\ at'[w].sha = at[w].sha /\ at'[w].refs = remote
      BY <3>1, <1>a, StatusFields
    <3>3. Seen
      BY <3>2, <1>b DEF Sound, SoundInv
    <3> QED BY <3>1, <3>3, <1>f
  <2> QED BY <2>1, <2>2
<1>13. ASSUME Ship(w) PROVE Ok
  <2>1. Reject(w) \/ Advance(w, "push")
    BY <1>13 DEF Ship, Publish
  <2> QED BY <2>1, <1>b, <1>f, <1>m, <1>r DEF Plain
<1>14. ASSUME Pushed(w) PROVE Ok
  <2>1. Reject(w) \/ (Free /\ at' = at)
    BY <1>14, <1>m DEF Pushed, Publish, Plain
  <2> QED BY <2>1, <1>b, <1>f, <1>r
<1>15. ASSUME Verify(w) PROVE Ok
  <2>1. Reject(w) \/ Advance(w, "open")
    BY <1>15 DEF Verify, Publish
  <2> QED BY <2>1, <1>b, <1>f, <1>m, <1>r DEF Plain
<1>16. ASSUME Name(w) PROVE Ok
  <2>1. CASE Free /\ at' = at
    BY <2>1, <1>b, <1>f
  <2>2. CASE pc[w] = "name" /\ Advance(w, "namelock")
    BY <2>2, <1>b, <1>m DEF Reviews, Changes, Ok
  <2> QED BY <1>16, <2>1, <2>2, <1>m, <1>p, <1>r DEF Name, Publish
<1>17. ASSUME Reread(w) PROVE Ok
  <2>1. CASE Reject(w)
    BY <2>1, <1>r
  <2>2. CASE ~Reject(w)
    <3>1. /\ at'[w] = [at[w] EXCEPT !.branch = named] /\ pc'[w] = "renaming"
          /\ pc[w] = "reread" /\ named = "chore"
      BY <1>17, <2>2, <1>a, <1>m DEF Reread
    <3>2. /\ at'[w].head = at[w].head /\ at'[w].sha = at[w].sha /\ at'[w].refs = at[w].refs
          /\ at'[w].branch = "chore"
      BY <3>1, <1>a, StatusFields
    <3>3. Seen
      BY <3>2, <1>b DEF Sound
    <3>4. Rev
      BY <3>1, <1>b DEF Reviews
    <3>5. Chg
      BY <3>1, <3>2 DEF Changes
    <3> QED BY <3>3, <3>4, <3>5 DEF Ok
  <2> QED BY <2>1, <2>2
<1>18. ASSUME SaveBranch(w) PROVE Ok
  <2>1. CASE Free
    BY <1>18, <2>1, <1>b, <1>f DEF SaveBranch
  <2>2. CASE pc'[w] = "stage" /\ Req(w).feature
    BY <1>18, <2>2, <1>b DEF SaveBranch, Reviews, Changes, Ok
  <2>3. Req(w).feature \/ Action(w) = "name_branch"
    BY <1>18, <1>b DEF SaveBranch, Reviews, Action
  <2> QED BY <1>18, <2>1, <2>2, <2>3, <1>m DEF SaveBranch, Plain
<1>19. ASSUME ListPulls(w) PROVE Ok
  <2>1. Reject(w) \/ (Free /\ at' = at)
    BY <1>19, <1>m DEF ListPulls, Publish, Plain
  <2> QED BY <2>1, <1>b, <1>f, <1>r
<1>20. ASSUME Call(w) PROVE Ok
  <2>1. at' = at
    BY <1>20 DEF Call, Answer
  <2>2. \/ Free
        \/ pc[w] = "branch" /\ pc'[w] = "branched"
        \/ pc[w] = "add" /\ pc'[w] = "added"
        \/ pc[w] = "update" /\ pc'[w] = "updated"
        \/ pc[w] = "rename" /\ pc'[w] = "renamed"
    BY <1>20, <1>m DEF Call, Answer, Calls, Plain
  <2>3. CASE Free
    BY <2>1, <2>3, <1>b, <1>f
  <2>4. CASE ~Free
    <3>1. Rev
      BY <2>1, <2>2, <2>4, <1>b DEF Reviews
    <3>2. Chg
      BY <2>1, <2>2, <2>4, <1>b DEF Changes
    <3> QED BY <2>1, <3>1, <3>2, <1>b DEF Ok
  <2> QED BY <2>3, <2>4
<1>21. ASSUME See(w) PROVE Ok
  <2>1. at'[w] = Status
    BY <1>21, <1>a DEF See
  <2>2. \/ pc[w] \in {"branched", "renamed"} /\ pc'[w] = "row"
        \/ pc[w] = "added" /\ pc'[w] = "export"
        \/ pc'[w] = "committed"
    BY <1>21, <1>m DEF See, Answers
  <2>3. Rev
    BY <2>2, <1>b DEF Reviews
  <2>4. Chg
    BY <2>2 DEF Changes
  <2> QED BY <2>1, <2>3, <2>4, <1>d DEF Ok
<1>22. ASSUME Refused(w) PROVE Ok
  <2>1. Reject(w) \/ (Free /\ at' = at)
    BY <1>22, <1>m, <1>p DEF Refused
  <2> QED BY <2>1, <1>b, <1>f, <1>r
<1>23. ASSUME Final(w) \/ Cancel(w) PROVE Ok
  <2>1. pc'[w] = "idle" /\ at' = at
    BY <1>23, <1>a DEF Final, Cancel
  <2> QED BY <2>1, <1>b, <1>f DEF Plain
<1>24. ASSUME Acquire(w) PROVE Ok
  <2>1. at' = at
    BY <1>24 DEF Acquire
  <2>2. pc[w] \in {"lock", "namelock"} /\ pc' = [pc EXCEPT ![w] = IF pc[w] = "lock" THEN "check" ELSE "reread"]
    BY <1>24 DEF Acquire
  <2>3. CASE pc[w] = "lock"
    <3>1. pc'[w] = "check"
      BY <2>2, <2>3, <1>a
    <3> QED BY <2>1, <3>1, <1>b, <1>f DEF Plain
  <2>4. CASE pc[w] = "namelock"
    <3>1. pc'[w] = "reread"
      BY <2>2, <2>4, <1>a
    <3> QED BY <2>1, <2>4, <3>1, <1>b DEF Reviews, Changes, Ok
  <2> QED BY <2>2, <2>3, <2>4
<1>25. ASSUME Error(w) PROVE Ok
  BY <1>25, <1>r DEF Error
<1>26. Ok
  BY <1>1, <1>2, <1>3, <1>4, <1>5, <1>6, <1>7, <1>8, <1>9, <1>10, <1>11, <1>12, <1>13, <1>14,
     <1>15, <1>16, <1>17, <1>18, <1>19, <1>20, <1>21, <1>22, <1>23, <1>24, <1>25 DEF Work
<1> QED BY <1>26 DEF Ok

\* A call that takes effect takes no commit away, and a branch only when it
\* renames the temporary one.
Keeps ==
    /\ \A b \in Branch : \E d \in Branch : IsPrefix(ref[b], ref'[d])
    /\ \A b \in Branch \ {"chore"} : ref[b] # << >> => ref'[b] # << >>

\* A branch that only grows keeps its commits.
LEMMA GrowsKeeps ==
    ASSUME TypeOK, NEW a \in Branch, NEW c \in Commits, IsPrefix(ref[a], c),
           ref' = [ref EXCEPT ![a] = c]
    PROVE  Keeps
<1>1. ref \in [Branch -> Commits]
  BY DEF TypeOK, CheckoutTypes
<1>2. ref'[a] = c /\ \A b \in Branch \ {a} : ref'[b] = ref[b]
  BY <1>1
<1>3. \A b \in Branch : IsPrefix(ref[b], ref[b])
  BY <1>1, PrefixReflexive
<1>4. ref[a] # << >> => c # << >>
  <2>1. ASSUME c = << >> PROVE ref[a] = << >>
    <3>1. Len(ref[a]) <= 0 /\ Len(ref[a]) \in Nat
      BY <1>1, <2>1, CommitParts DEF IsPrefix
    <3>2. ref[a] \in Seq([tree : Nat, by : {Other} \cup Ops])
      BY <1>1 DEF Commits
    <3> QED BY <3>1, <3>2
  <2> QED BY <2>1
<1>5. ASSUME NEW b \in Branch PROVE IsPrefix(ref[b], ref'[b]) /\ (ref[b] # << >> => ref'[b] # << >>)
  BY <1>2, <1>3, <1>4
<1> QED BY <1>5 DEF Keeps

\* A checkout without a call keeps its branches.
LEMMA SameKeeps ==
    ASSUME TypeOK, ref' = ref
    PROVE  Keeps
  BY PrefixReflexive DEF Keeps, TypeOK, CheckoutTypes

\* Nothing is part of every commit.
LEMMA EmptyPrefix ==
    ASSUME NEW c \in Commits
    PROVE  IsPrefix(<< >>, c)
<1>1. << >> \in Commits /\ Len(<< >>) = 0 /\ Len(c) \in Nat
  BY GoodRoots, CommitParts
<1> QED BY <1>1, PrefixElements

\* Every call keeps the commits of the checkout.
LEMMA DoKeeps ==
    ASSUME TypeOK, NEW c \in Requests, Changes(c.kind, c.at), Can(c), Do(c)
    PROVE  Keeps
<1>a. /\ ref \in [Branch -> Commits] /\ branch \in Branch /\ Tip = ref[branch]
      /\ "topic" \in Branch /\ "title" \in Branch
  BY DEF TypeOK, CheckoutTypes, Tip, Branch
<1>b. /\ c.at.branch \in Branch /\ c.at.head \in Commits
      /\ c.at.sha \in Commits /\ c.at.refs \in [Branch -> Commits]
  BY StatusParts DEF Requests
<1>1. CASE c.kind = "branch"
  <2>1. ref["topic"] = << >> /\ ref' = [ref EXCEPT !["topic"] = Tip]
    BY <1>1 DEF Can, Do, CanBranch, DoBranch
  <2>2. IsPrefix(ref["topic"], Tip) /\ Tip \in Commits
    BY <1>a, <2>1, EmptyPrefix
  <2> QED BY <1>a, <2>1, <2>2, GrowsKeeps
<1>2. CASE c.kind = "import"
  <2>1. DoImport(c)
    BY <1>2 DEF Do
  <2>2. CASE ref' = ref
    BY <2>2, SameKeeps
  <2>3. CASE IsPrefix(Tip, c.at.refs[c.at.branch]) /\ ref' = [ref EXCEPT ![branch] = c.at.refs[c.at.branch]]
    BY <1>a, <1>b, <2>3, GrowsKeeps
  <2> QED BY <2>1, <2>2, <2>3 DEF DoImport
<1>3. CASE c.kind \in {"add", "push", "open"}
  <2>1. ref' = ref
    BY <1>3 DEF Do, DoAdd, DoPush, DoOpen
  <2> QED BY <2>1, SameKeeps
<1>4. CASE c.kind = "update"
  <2>1. ref[c.at.branch] = c.at.head /\ ref' = [ref EXCEPT ![c.at.branch] = c.at.sha]
    BY <1>4 DEF Can, Do, CanUpdate, DoUpdate
  <2>2. IsPrefix(c.at.head, c.at.sha)
    BY <1>4 DEF Changes
  <2> QED BY <1>b, <2>1, <2>2, GrowsKeeps
<1>5. CASE c.kind = "rename"
  <2>1. /\ c.at.branch = "chore" /\ ref["title"] = << >>
        /\ ref' = [ref EXCEPT !["chore"] = << >>, !["title"] = ref["chore"]]
    BY <1>5 DEF Can, Do, CanRename, DoRename, Changes
  <2>2. /\ "chore" \in Branch /\ "title" # "chore"
        /\ ref'["title"] = ref["chore"] /\ ref'["chore"] = << >>
        /\ \A b \in Branch \ {"title", "chore"} : ref'[b] = ref[b]
    BY <1>a, <2>1 DEF Branch
  <2>3. IsPrefix(ref["chore"], ref'["title"]) /\ IsPrefix(ref["title"], ref'["title"])
    BY <1>a, <2>1, <2>2, PrefixReflexive, EmptyPrefix
  <2>4. ASSUME NEW b \in Branch \ {"title", "chore"} PROVE IsPrefix(ref[b], ref'[b])
    BY <1>a, <2>2, PrefixReflexive
  <2>5. \A b \in Branch : \E d \in Branch : IsPrefix(ref[b], ref'[d])
    BY <1>a, <2>3, <2>4
  <2>6. \A b \in Branch \ {"chore"} : ref[b] # << >> => ref'[b] # << >>
    BY <2>1, <2>2
  <2> QED BY <2>5, <2>6 DEF Keeps
<1> QED BY <1>1, <1>2, <1>3, <1>4, <1>5 DEF Requests, Calls

\* A worker's call is a call.
LEMMA CallIs ==
    ASSUME TypeOK, NEW w \in Workers, pc[w] \in Calls
    PROVE  CallOf(w) \in Requests
  BY DEF CallOf, Requests, TypeOK, WorkerTypes

\* Steps of a worker without a call do not touch the checkout or GitHub.
LEMMA WorkIdle ==
    ASSUME NEW w \in Workers, Work(w) \/ Acquire(w) \/ Error(w) \/ Cancel(w), ~Call(w)
    PROVE  UNCHANGED <<branch, ref, remote, landed, prs>>
  BY DEF Work, Prepare, Check, NameFeature, Enter, SaveBranch, Fetch, Stage, Review, Export, Apply,
         Committed, RefusePR, CheckRemote, Ship, Pushed, ListPulls, Verify, Name, Reread, See,
         Refused, Final, Acquire, Error, Cancel, Quiet

\* No step takes a commit of the checkout away, that of the agent included.
LEMMA StepKeeps ==
    ASSUME TypeOK, ReviewInv, [Next]_vars
    PROVE  Keeps
<1>1. ASSUME NEW w \in Workers, Work(w) \/ Acquire(w) \/ Error(w) \/ Cancel(w) PROVE Keeps
  <2>1. CASE Call(w)
    <3>1. CallOf(w) \in Requests /\ Can(CallOf(w)) /\ Do(CallOf(w))
      BY <2>1, CallIs DEF Call
    <3>2. Changes(CallOf(w).kind, CallOf(w).at)
      BY DEF CallOf, ReviewInv
    <3> QED BY <3>1, <3>2, DoKeeps
  <2>2. CASE ~Call(w)
    BY <1>1, <2>2, WorkIdle, SameKeeps
  <2> QED BY <2>1, <2>2
<1>2. ASSUME NEW c \in late, Late(c) PROVE Keeps
  BY <1>2, DoKeeps DEF Late, ReviewInv, TypeOK
<1>3. CASE Agent
  <2>1. CASE AgentCommit
    <3>1. /\ branch \in Branch /\ ref[branch] \in Commits /\ index \in Nat /\ Other \in {Other} \cup Ops
          /\ ref' = [ref EXCEPT ![branch] = Append(ref[branch], Entry(index, Other))]
      BY <2>1 DEF AgentCommit, TypeOK, CheckoutTypes
    <3> DEFINE d == Append(ref[branch], Entry(index, Other))
    <3>2. d = Append(ref[branch], Entry(index, Other))
      OBVIOUS
    <3> HIDE DEF d
    <3>3. d \in Commits /\ IsPrefix(ref[branch], d)
      BY <3>1, <3>2, OnTop
    <3> QED BY <3>1, <3>2, <3>3, GrowsKeeps
  <2>2. CASE ref' = ref
    BY <2>2, SameKeeps
  <2> QED BY <1>3, <2>1, <2>2 DEF Agent, Edit, AgentStage, Switch
<1>4. CASE Rows \/ LoseLock \/ GitHub \/ (\E w \in Workers, o \in Ops : Claim(w, o)) \/ UNCHANGED vars
  <2>1. ref' = ref
    BY <1>4 DEF Rows, Start, Expire, Interrupt, Prune, LoseLock, GitHub, GitHubPush, Claim
  <2> QED BY <2>1, SameKeeps
<1> QED BY <1>1, <1>2, <1>3, <1>4 DEF Next

\* Calls bring only good commits to the checkout and to GitHub.
LEMMA DoGood ==
    ASSUME TypeOK, SoundInv, NEW c \in Requests, Sound(c.at, st, req), Do(c)
    PROVE  \A b \in Branch : Good(ref'[b], st, req) /\ Good(remote'[b], st, req)
<1> DEFINE Tips == \A b \in Branch : Good(ref'[b], st, req) /\ Good(remote'[b], st, req)
<1>a. /\ ref \in [Branch -> Commits] /\ remote \in [Branch -> Commits] /\ Tip = ref[branch]
      /\ branch \in Branch /\ "topic" \in Branch /\ "title" \in Branch
  BY DEF TypeOK, CheckoutTypes, GitHubTypes, Tip, Branch
<1>b. c.at.branch \in Branch
  BY StatusParts DEF Requests
<1>c. /\ \A b \in Branch : Good(ref[b], st, req) /\ Good(remote[b], st, req) /\ Good(c.at.refs[b], st, req)
      /\ Good(c.at.head, st, req) /\ Good(c.at.sha, st, req)
  BY DEF SoundInv, Sound
<1>1. CASE DoBranch(c)
  BY <1>1, <1>a, <1>c DEF DoBranch
<1>2. CASE DoImport(c)
  <2>1. remote' = remote /\ (ref' = ref \/ ref' = [ref EXCEPT ![branch] = c.at.refs[c.at.branch]])
    BY <1>2 DEF DoImport
  <2> QED BY <2>1, <1>a, <1>b, <1>c
<1>3. CASE DoAdd(c) \/ DoOpen(c)
  BY <1>3, <1>c DEF DoAdd, DoOpen
<1>4. CASE DoUpdate(c)
  BY <1>4, <1>a, <1>c DEF DoUpdate
<1>5. CASE DoPush(c)
  BY <1>5, <1>a, <1>c DEF DoPush
<1>6. CASE DoRename(c)
  <2>1. ref' = [ref EXCEPT ![c.at.branch] = << >>, !["title"] = ref[c.at.branch]] /\ remote' = remote
    BY <1>6 DEF DoRename
  <2>2. ASSUME NEW b \in Branch PROVE ref'[b] \in {<< >>, ref[b], ref[c.at.branch]}
    BY <2>1, <1>a
  <2>3. Good(<< >>, st, req)
    BY GoodRoots
  <2> QED BY <2>1, <2>2, <2>3, <1>b, <1>c
<1> QED BY <1>1, <1>2, <1>3, <1>4, <1>5, <1>6 DEF Do

\* So does every step.
LEMMA StepGood ==
    ASSUME TypeOK, SoundInv, [Next]_vars
    PROVE  \A b \in Branch : Good(ref'[b], st, req) /\ Good(remote'[b], st, req)
<1> DEFINE Tips == \A b \in Branch : Good(ref'[b], st, req) /\ Good(remote'[b], st, req)
<1>a. /\ ref \in [Branch -> Commits] /\ remote \in [Branch -> Commits]
      /\ branch \in Branch /\ index \in Nat
      /\ \A b \in Branch : Good(ref[b], st, req) /\ Good(remote[b], st, req)
  BY DEF TypeOK, CheckoutTypes, GitHubTypes, SoundInv
<1>b. ASSUME UNCHANGED <<ref, remote>> PROVE Tips
  BY <1>a, <1>b
<1>1. ASSUME NEW w \in Workers, Work(w) \/ Acquire(w) \/ Error(w) \/ Cancel(w) PROVE Tips
  <2>1. CASE Call(w)
    <3>1. CallOf(w) \in Requests /\ Do(CallOf(w))
      BY <2>1, CallIs DEF Call
    <3>2. Sound(CallOf(w).at, st, req)
      BY DEF CallOf, SoundInv
    <3> QED BY <3>1, <3>2, DoGood
  <2>2. CASE ~Call(w)
    BY <1>1, <2>2, WorkIdle, <1>b
  <2> QED BY <2>1, <2>2
<1>2. ASSUME NEW c \in late, Late(c) PROVE Tips
  BY <1>2, DoGood DEF Late, SoundInv, TypeOK
<1>3. CASE Agent
  <2>1. CASE AgentCommit
    <3>1. /\ ref' = [ref EXCEPT ![branch] = Append(ref[branch], Entry(index, Other))]
          /\ remote' = remote
      BY <1>3, <2>1 DEF Agent, AgentCommit
    <3>2. Good(Append(ref[branch], Entry(index, Other)), st, req)
      BY <1>a, GoodOther
    <3> QED BY <3>1, <3>2, <1>a
  <2>2. CASE ref' = ref
    BY <1>3, <2>2, <1>b DEF Agent
  <2> QED BY <1>3, <2>1, <2>2 DEF Agent, Edit, AgentStage, Switch
<1>4. CASE GitHub
  <2>0. PICK b \in Branch : \E base \in {remote[b], Front(remote[b])} :
             remote[b] # << >> /\ GitHubPush(b, base)
    BY <1>4 DEF GitHub
  <2>1. PICK base \in {remote[b], Front(remote[b])} :
             remote[b] # << >> /\ GitHubPush(b, base)
    BY <2>0
  <2>2. base \in Commits /\ Good(base, st, req)
    BY <2>1, <1>a, GoodFront, CommitType, 0 \in Nat
  <2>3. MaxEdits + 2 + pushes \in Nat
    BY LimitsAssumption DEF TypeOK, BudgetTypes
  <2>4. Good(Append(base, Entry(MaxEdits + 2 + pushes, Other)), st, req)
    BY <2>2, <2>3, GoodOther
  <2>5. /\ remote' = [remote EXCEPT ![b] = Append(base, Entry(MaxEdits + 2 + pushes, Other))]
        /\ ref' = ref
    BY <2>1 DEF GitHubPush
  <2> QED BY <2>4, <2>5, <1>a
<1>5. CASE Rows \/ LoseLock \/ (\E w \in Workers, o \in Ops : Claim(w, o)) \/ UNCHANGED vars
  <2>1. UNCHANGED <<ref, remote>>
    BY <1>5 DEF Rows, Start, Expire, Interrupt, Prune, LoseLock, Claim
  <2> QED BY <2>1, <1>b
<1> QED BY <1>1, <1>2, <1>3, <1>4, <1>5 DEF Next

\* A status that speaks of good commits goes on to do so.
LEMMA SoundStays ==
    ASSUME NEW s, NEW r, NEW u, NEW v, NEW x \in Statuses, Sound(x, s, r),
           \A o \in Ops : s[o] # "absent" => u[o] # "absent" /\ v[o] = r[o]
    PROVE  Sound(x, u, v)
<1>1. x.head \in Commits /\ x.sha \in Commits /\ \A b \in Branch : x.refs[b] \in Commits
  BY StatusParts
<1>2. Good(x.head, s, r) /\ Good(x.sha, s, r) /\ \A b \in Branch : Good(x.refs[b], s, r)
  BY DEF Sound
<1>3. Good(x.head, u, v)
  BY <1>1, <1>2, GoodStays
<1>4. Good(x.sha, u, v)
  BY <1>1, <1>2, GoodStays
<1>5. \A b \in Branch : Good(x.refs[b], u, v)
  BY <1>1, <1>2, GoodStays
<1> QED BY <1>3, <1>4, <1>5 DEF Sound

\* Nobody changes the request of an accepted operation.
LEMMA StepSteady ==
    ASSUME TypeOK, ClaimInv, ReviewInv, [Next]_vars
    PROVE  Steady /\ req' = [o \in Ops |-> req'[o]]
<1> DEFINE Ok == Steady /\ req' = [o \in Ops |-> req'[o]]
<1>a. st \in [Ops -> OpStates] /\ req = [o \in Ops |-> req[o]]
  BY DEF TypeOK, RowTypes, ReviewInv
<1>b. ASSUME req' = req, st' = st \/ \E o \in Ops, s \in OpStates \ {"absent"} : st' = [st EXCEPT ![o] = s]
      PROVE  Ok
  BY <1>a, <1>b DEF Steady
<1>1. ASSUME NEW w \in Workers, Work(w) \/ Acquire(w) \/ Error(w) \/ Cancel(w) PROVE Ok
  <2>1. req' = req
    BY <1>1, WorkAlone
  <2>2. CASE Final(w)
    <3>1. job[w] \in Ops
      BY <2>2 DEF Final, ClaimInv
    <3>2. st' = st \/ \E s \in {"failed", "succeeded"} : st' = [st EXCEPT ![job[w]] = s]
      BY <2>2 DEF Final
    <3> QED BY <2>1, <3>1, <3>2, <1>b DEF OpStates, Terminal
  <2>3. CASE ~Final(w)
    <3>1. WorkerFacts(w)
      BY <1>1, <2>3, QuietFacts, CallFacts DEF Work
    <3> QED BY <2>1, <3>1, <1>b DEF WorkerFacts
  <2> QED BY <2>2, <2>3
<1>2. ASSUME NEW o \in Ops, NEW a, NEW s, NEW f, Start(o, a, s, f) PROVE Ok
  <2>1. CASE st[o] = "absent"
    <3>1. /\ st' = [st EXCEPT ![o] = "queued"]
          /\ \E q : req' = [req EXCEPT ![o] = q]
      BY <1>2, <2>1 DEF Start
    <3>2. PICK q : req' = [req EXCEPT ![o] = q]
      BY <3>1
    <3>3. \A p \in Ops \ {o} : st'[p] = st[p] /\ req'[p] = req[p]
      BY <1>a, <3>1, <3>2
    <3>4. req' = [p \in Ops |-> req'[p]]
      BY <1>a, <3>2
    <3> QED BY <2>1, <3>3, <3>4 DEF Steady
  <2>2. CASE st[o] # "absent"
    BY <1>2, <2>2, <1>b DEF Start
  <2> QED BY <2>1, <2>2
<1>3. ASSUME NEW o \in Ops, Expire(o) \/ Interrupt(o) \/ Prune(o) PROVE Ok
  BY <1>3, <1>b DEF Expire, Interrupt, Prune, OpStates, Terminal
<1>4. ASSUME NEW w \in Workers, NEW o \in Ops, Claim(w, o) PROVE Ok
  BY <1>4, <1>b DEF Claim, OpStates, Open
<1>5. CASE (\E c \in late : Late(c)) \/ LoseLock \/ Agent \/ GitHub \/ UNCHANGED vars
  BY <1>5, <1>b DEF Late, LoseLock, Agent, GitHub, GitHubPush
<1> QED BY <1>1, <1>2, <1>3, <1>4, <1>5 DEF Next, Rows

\* Calls that are given up were a worker's.
LEMMA StepLate ==
    ASSUME TypeOK, [Next]_vars
    PROVE  LateStep
<1>1. ASSUME NEW w \in Workers, Work(w) \/ Acquire(w) \/ Error(w) \/ Cancel(w) PROVE LateStep
  <2>1. CASE Final(w)
    BY <2>1 DEF Final, LateStep
  <2> QED BY <1>1, <2>1, QuietFacts, CallFacts DEF Work, WorkerFacts
<1>2. CASE \E c \in late : Late(c)
  BY <1>2 DEF Late, LateStep
<1>3. CASE Rows \/ LoseLock \/ Agent \/ GitHub \/ (\E w \in Workers, o \in Ops : Claim(w, o)) \/ UNCHANGED vars
  <2>1. late' = late
    BY <1>3 DEF Rows, Start, Expire, Interrupt, Prune, LoseLock, Agent, GitHub, GitHubPush, Claim
  <2> QED BY <2>1 DEF LateStep
<1> QED BY <1>1, <1>2, <1>3 DEF Next

\* Steps that are no worker's leave the workers where they are.
LEMMA StepStays ==
    ASSUME [Next]_vars, ~\E w \in Workers : \/ Work(w) \/ Acquire(w) \/ Error(w) \/ Cancel(w)
                                            \/ \E o \in Ops : Claim(w, o)
    PROVE  UNCHANGED <<pc, job, at, out, err>>
<1>1. CASE Rows
  BY <1>1 DEF Rows, Start, Expire, Interrupt, Prune
<1>2. CASE (\E c \in late : Late(c)) \/ LoseLock \/ Agent \/ GitHub \/ UNCHANGED vars
  BY <1>2 DEF Late, LoseLock, Agent, GitHub, GitHubPush
<1> QED BY <1>1, <1>2 DEF Next

\* A claim starts a worker afresh.
LEMMA ClaimStarts ==
    ASSUME TypeOK, NEW w \in Workers, NEW o \in Ops, Claim(w, o)
    PROVE  /\ pc[w] = "idle" /\ job'[w] = o /\ at'[w] = Nothing /\ out'[w] = NoOutcome
           /\ pc'[w] = IF req[o].action = "name_branch" THEN "name" ELSE "prepare"
           /\ \A v \in Workers \ {w} : /\ pc'[v] = pc[v] /\ job'[v] = job[v] /\ at'[v] = at[v]
                                       /\ out'[v] = out[v] /\ err'[v] = err[v]
           /\ UNCHANGED <<req, told, late, ref, branch, remote, landed, prs>>
           /\ st[o] = "queued" /\ st' = [st EXCEPT ![o] = "running"]
  BY DEF Claim, TypeOK, WorkerTypes

\* A worker's step leaves jobs and requests alone.
LEMMA WorkSameJob ==
    ASSUME TypeOK, NEW w \in Workers, Work(w) \/ Acquire(w) \/ Error(w) \/ Cancel(w)
    PROVE  UNCHANGED <<job, req>>
<1>1. req' = req
  BY WorkAlone
<1>2. CASE Final(w)
  BY <1>1, <1>2 DEF Final
<1>3. CASE ~Final(w)
  BY <1>1, <1>3, QuietFacts, CallFacts DEF Work, WorkerFacts
<1> QED BY <1>2, <1>3

\* Reviews carry over.
LEMMA ReviewNext ==
    ASSUME TypeOK, ClaimInv, ReviewInv, SoundInv, [Next]_vars
    PROVE  ReviewInv'
<1> DEFINE Rev(w) == Reviews(pc'[w], at'[w], req'[job'[w]]) /\ Changes(pc'[w], at'[w])
<1>a. req' = [o \in Ops |-> req'[o]] /\ Steady
  BY StepSteady
<1>b. \A w \in Workers : Reviews(pc[w], at[w], req[job[w]]) /\ Changes(pc[w], at[w])
  BY DEF ReviewInv, Req
<1>c. ASSUME NEW v \in Workers, pc'[v] = pc[v], at'[v] = at[v], job'[v] = job[v] PROVE Rev(v)
  <2>1. CASE pc[v] = "idle"
    BY <1>c, <2>1, PlainKnows DEF Plain
  <2>2. CASE pc[v] # "idle"
    <3>1. job[v] \in Ops /\ st[job[v]] # "absent"
      BY <2>2 DEF ClaimInv
    <3>2. req'[job[v]] = req[job[v]]
      BY <3>1, <1>a DEF Steady
    <3> QED BY <1>b, <1>c, <3>2
  <2> QED BY <2>1, <2>2
<1>1. ASSUME NEW v \in Workers PROVE Rev(v)
  <2>1. ASSUME NEW w \in Workers, Work(w) \/ Acquire(w) \/ Error(w) \/ Cancel(w) PROVE Rev(v)
    <3>1. UNCHANGED <<job, req>> /\ Alone(w)
      BY <2>1, WorkSameJob, WorkAlone
    <3>2. CASE v # w
      BY <3>1, <3>2, <1>c DEF Alone
    <3>3. CASE v = w
      <4>1. Reviews(pc'[w], at'[w], Req(w)) /\ Changes(pc'[w], at'[w])
        BY <2>1, WorkReviews
      <4> QED BY <3>1, <3>3, <4>1 DEF Req
    <3> QED BY <3>2, <3>3
  <2>2. ASSUME NEW w \in Workers, NEW o \in Ops, Claim(w, o) PROVE Rev(v)
    <3>1. CASE v # w
      BY <2>2, <3>1, ClaimStarts, <1>c
    <3>2. CASE v = w
      <4>1. /\ job'[w] = o /\ req' = req
            /\ pc'[w] = IF req[o].action = "name_branch" THEN "name" ELSE "prepare"
        BY <2>2, ClaimStarts
      <4>2. CASE req[o].action = "name_branch"
        BY <4>1, <4>2, <3>2 DEF Reviews, Changes
      <4>3. CASE req[o].action # "name_branch"
        BY <4>1, <4>3, <3>2, PlainKnows DEF Plain
      <4> QED BY <4>2, <4>3
    <3> QED BY <3>1, <3>2
  <2>3. CASE UNCHANGED <<pc, job, at>>
    BY <2>3, <1>c
  <2> QED BY <2>1, <2>2, <2>3, StepStays
<1>2. ASSUME NEW c \in late' PROVE Changes(c.kind, c.at)
  <2>1. c \in late \/ \E w \in Workers : c = CallOf(w)
    BY StepLate DEF LateStep
  <2>2. CASE c \in late
    BY <2>2 DEF ReviewInv
  <2>3. ASSUME NEW w \in Workers, c = CallOf(w) PROVE Changes(c.kind, c.at)
    BY <2>3, <1>b DEF CallOf
  <2> QED BY <2>1, <2>2, <2>3
<1> QED BY <1>a, <1>1, <1>2 DEF ReviewInv, Req

\* So do sound commits.
LEMMA SoundNext ==
    ASSUME TypeOK, ClaimInv, ReviewInv, SoundInv, [Next]_vars
    PROVE  SoundInv'
<1>a. \A o \in Ops : st[o] # "absent" => st'[o] # "absent" /\ req'[o] = req[o]
  BY StepSteady DEF Steady
<1>b. TypeOK'
  BY NextType
<1>1. ASSUME NEW b \in Branch PROVE Good(ref'[b], st', req') /\ Good(remote'[b], st', req')
  <2>1. Good(ref'[b], st, req) /\ Good(remote'[b], st, req)
    BY StepGood
  <2>2. ref'[b] \in Commits /\ remote'[b] \in Commits
    BY <1>b DEF TypeOK, CheckoutTypes, GitHubTypes
  <2> QED BY <2>1, <2>2, <1>a, GoodStays
<1>2. ASSUME NEW v \in Workers PROVE Sound(at'[v], st', req')
  <2>a. Sound(at[v], st, req)
    BY DEF SoundInv
  <2>1. Sound(at'[v], st, req)
    <3>1. ASSUME NEW w \in Workers, Work(w) \/ Acquire(w) \/ Error(w) \/ Cancel(w)
          PROVE  Sound(at'[v], st, req)
      <4>1. CASE v # w
        BY <3>1, <4>1, <2>a, WorkAlone DEF Alone
      <4>2. CASE v = w
        BY <3>1, <4>2, WorkReviews
      <4> QED BY <4>1, <4>2
    <3>2. ASSUME NEW w \in Workers, NEW o \in Ops, Claim(w, o) PROVE Sound(at'[v], st, req)
      <4>1. CASE v # w
        BY <3>2, <4>1, <2>a, ClaimStarts
      <4>2. CASE v = w
        <5>1. at'[v] = Nothing
          BY <3>2, <4>2, ClaimStarts
        <5>2. Nothing.head = << >> /\ Nothing.sha = << >> /\ \A b \in Branch : Nothing.refs[b] = << >>
          BY DEF Nothing, NoRefs
        <5> QED BY <5>1, <5>2, GoodRoots DEF Sound
      <4> QED BY <4>1, <4>2
    <3>3. CASE UNCHANGED at
      BY <3>3, <2>a
    <3> QED BY <3>1, <3>2, <3>3, StepStays
  <2>2. at'[v] \in Statuses
    BY <1>b DEF TypeOK, WorkerTypes
  <2> QED BY <2>1, <2>2, <1>a, SoundStays
<1>3. ASSUME NEW c \in late' PROVE Sound(c.at, st', req')
  <2>1. c \in late \/ \E w \in Workers : c = CallOf(w)
    BY StepLate DEF LateStep
  <2>2. Sound(c.at, st, req)
    BY <2>1 DEF SoundInv, CallOf
  <2>3. c \in Requests
    BY <1>b DEF TypeOK
  <2>4. c.at \in Statuses
    BY <2>3 DEF Requests
  <2> QED BY <2>2, <2>4, <1>a, SoundStays
<1> QED BY <1>1, <1>2, <1>3 DEF SoundInv

\* Nothing was reviewed or committed at first.
LEMMA ReviewInitially == ASSUME Init PROVE ReviewInv /\ SoundInv
<1>1. ReviewInv
  <2>1. \A w \in Workers : pc[w] = "idle" /\ pc[w] \in Plain
    BY DEF Init, Plain
  <2>2. \A w \in Workers : Reviews(pc[w], at[w], Req(w)) /\ Changes(pc[w], at[w])
    BY <2>1, PlainKnows
  <2>3. req = [o \in Ops |-> req[o]] /\ late = {}
    BY DEF Init
  <2> QED BY <2>2, <2>3 DEF ReviewInv
<1>2. SoundInv
  <2>1. \A b \in Branch : ref[b] \in {Root, << >>} /\ remote[b] \in {Root, << >>}
    BY DEF Init
  <2>2. \A w \in Workers : at[w] = Nothing
    BY DEF Init
  <2>3. Nothing.head = << >> /\ Nothing.sha = << >> /\ \A b \in Branch : Nothing.refs[b] = << >>
    BY DEF Nothing, NoRefs
  <2>4. Sound(Nothing, st, req)
    BY <2>3, GoodRoots DEF Sound
  <2>5. \A b \in Branch : Good(ref[b], st, req) /\ Good(remote[b], st, req)
    BY <2>1, GoodRoots
  <2>6. late = {}
    BY DEF Init
  <2> QED BY <2>2, <2>4, <2>5, <2>6 DEF SoundInv
<1> QED BY <1>1, <1>2

\* Reviews and sound commits hold throughout, with types and claims.
LEMMA ReviewInvariance == Spec => [](TypeOK /\ ClaimInv /\ ReviewInv /\ SoundInv)
<1>1. Init => TypeOK /\ ClaimInv /\ ReviewInv /\ SoundInv
  BY InitType, ReviewInitially DEF Init, ClaimInv
<1>2. TypeOK /\ ClaimInv /\ ReviewInv /\ SoundInv /\ [Next]_vars
      => (TypeOK /\ ClaimInv /\ ReviewInv /\ SoundInv)'
  BY NextType, LedgerSteps, ReviewNext, SoundNext
<1> QED BY <1>1, <1>2, PTL DEF Spec

\* A commit of an operation has the tree that was reviewed and sits on the HEAD
\* that was reviewed, wherever it is and whatever the agent did between the
\* review and the commit (PrepareCommit and ApplyCommit).
THEOREM CommitsWhatWasReviewed == Spec => []CommitsReviewed
<1>1. SoundInv => CommitsReviewed
  BY DEF SoundInv, Good, CommitsReviewed, Faithful
<1> QED BY <1>1, ReviewInvariance, PTL

\* No operation takes a commit of the checkout away: update-ref moves the branch
\* only to a commit made on top of it, also when its caller had given up.
THEOREM KeepsLocalCommits == Spec => LocalKept
<1>1. TypeOK /\ ReviewInv /\ [Next]_vars =>
        [Agent \/ \A b \in Branch : \E d \in Branch : IsPrefix(ref[b], ref'[d])]_vars
  BY StepKeeps DEF Keeps
<1> QED BY <1>1, ReviewInvariance, PTL DEF Spec, LocalKept

\* Only the temporary branch is ever renamed or left empty (nameCodingBranch):
\* whoever may still rename read its name under the lock.
THEOREM RenamesOnlyTemporary == Spec => RenamesTemporary
<1>1. TypeOK /\ ReviewInv /\ [Next]_vars =>
        [\A b \in Branch \ {"chore"} : ref[b] # << >> => ref'[b] # << >>]_vars
  BY StepKeeps DEF Keeps
<1> QED BY <1>1, ReviewInvariance, PTL DEF Spec, RenamesTemporary

-----------------------------------------------------------------------------
(***************************************************************************)
(* What the browser is told.                                               *)
(***************************************************************************)
\* From here on a worker publishes its branch.
Publishing == {"remote", "ship", "push", "pushed", "pulls", "verify", "open"}

\* What a worker at p knows of the branch it publishes.
Reaches(p, x, y, r) ==
    /\ p \in {"fetch", "importing", "import"} => r.action \in FetchActions
    /\ p = "committed" => y.commit # << >>
    /\ p \in Publishing \cup {"row", "committed"} => x.head # << >>
    /\ p \in Publishing => r.feature \/ y.commit # << >> \/ x.head = r.head
    /\ p \in Publishing \ {"remote"} /\ r.action \in PRActions => x.branch # "main"
    /\ p \in {"pulls", "verify", "open"} => r.action \in PRActions

HasPR(q) == \E b \in q : b # "main"
PartOf(c, f) == \E b \in Branch : IsPrefix(c, f[b])

\* An outcome y of request r that is true of the branches f, the history l and
\* the pull requests q.
TrueOf(y, r, f, l, q) ==
    /\ PartOf(y.commit, f)
    /\ y.pushed /\ y.commit = << >> /\ ~r.feature => r.head \in l
    /\ y.pr => HasPR(q)

\* What success means.
Achieved(y, r, l, q) ==
    /\ r.action \in PushActions /\ y.commit = << >> /\ ~r.feature => r.head \in l
    /\ r.action \in PRActions => HasPR(q)

\* What a worker at p has found or done.
Sees(p, x, y, r, e, f, l, q) ==
    /\ TrueOf(y, r, f, l, q)
    /\ p \in {"pushed", "pulls", "verify", "open"} => x.head \in l
    /\ p = "updated" => PartOf(x.sha, f)
    /\ p = "final" /\ ~e => Achieved(y, r, l, q)

TruthInv ==
    /\ ref[branch] # << >>
    /\ \A b \in Branch : remote[b] # << >> => remote[b] \in landed
    /\ \A o \in Ops :
          /\ st[o] = "absent" => told[o] = NoOutcome
          /\ TrueOf(told[o], req[o], ref, landed, prs)
          /\ st[o] = "succeeded" => Achieved(told[o], req[o], landed, prs)
    /\ \A w \in Workers :
          pc[w] # "idle" => /\ Reaches(pc[w], at[w], out[w], Req(w))
                            /\ Sees(pc[w], at[w], out[w], Req(w), err[w], ref, landed, prs)

\* The history and the pull requests only grow, and no commit is taken away.
Grows == Keeps /\ landed \subseteq landed' /\ prs \subseteq prs'

\* Which is what every step does.
LEMMA StepGrows ==
    ASSUME TypeOK, ReviewInv, [Next]_vars
    PROVE  Grows
<1>1. Keeps
  BY StepKeeps
<1>2. ASSUME NEW c, Do(c) PROVE landed \subseteq landed' /\ prs \subseteq prs'
  BY <1>2 DEF Do, DoBranch, DoImport, DoAdd, DoUpdate, DoPush, DoOpen, DoRename
<1>3. ASSUME NEW w \in Workers, Work(w) \/ Acquire(w) \/ Error(w) \/ Cancel(w)
      PROVE  landed \subseteq landed' /\ prs \subseteq prs'
  <2>1. CASE Call(w)
    BY <2>1, <1>2 DEF Call
  <2>2. CASE ~Call(w)
    BY <1>3, <2>2, WorkIdle
  <2> QED BY <2>1, <2>2
<1>4. ASSUME NEW c \in late, Late(c) PROVE landed \subseteq landed' /\ prs \subseteq prs'
  BY <1>2, <1>4 DEF Late
<1>5. CASE Rows \/ LoseLock \/ Agent \/ (\E w \in Workers, o \in Ops : Claim(w, o)) \/ UNCHANGED vars
  <2>1. UNCHANGED <<landed, prs>>
    BY <1>5 DEF Rows, Start, Expire, Interrupt, Prune, LoseLock, Agent, Claim
  <2> QED BY <2>1, <1>1 DEF Grows
<1>6. CASE GitHub
  BY <1>6, <1>1 DEF GitHub, GitHubPush, Grows
<1> QED BY <1>1, <1>3, <1>4, <1>5, <1>6 DEF Next, Grows

\* A commit that is part of a branch stays so.
LEMMA PartStays ==
    ASSUME TypeOK, TypeOK', Keeps, NEW c \in Commits, PartOf(c, ref)
    PROVE  PartOf(c, ref')
<1>1. PICK b \in Branch : IsPrefix(c, ref[b])
  BY DEF PartOf
<1>2. PICK d \in Branch : IsPrefix(ref[b], ref'[d])
  BY DEF Keeps
<1>3. ref[b] \in Commits /\ ref'[d] \in Commits
  BY DEF TypeOK, CheckoutTypes
<1>4. IsPrefix(c, ref'[d])
  BY <1>1, <1>2, <1>3, PrefixTransitive
<1> QED BY <1>4 DEF PartOf

\* What is true stays true.
LEMMA TruthStays ==
    ASSUME TypeOK, TypeOK', Grows, NEW y \in Outcomes, NEW r
    PROVE  /\ TrueOf(y, r, ref, landed, prs) => TrueOf(y, r, ref', landed', prs')
           /\ Achieved(y, r, landed, prs) => Achieved(y, r, landed', prs')
<1>1. y.commit \in Commits
  BY DEF Outcomes
<1>2. PartOf(y.commit, ref) => PartOf(y.commit, ref')
  BY <1>1, PartStays DEF Grows
<1>3. HasPR(prs) => HasPR(prs')
  BY DEF HasPR, Grows
<1> QED BY <1>2, <1>3 DEF TrueOf, Achieved, Grows

\* And what a worker has found.
LEMMA SeesStays ==
    ASSUME TypeOK, TypeOK', Grows, NEW p, NEW x \in Statuses, NEW y \in Outcomes, NEW r, NEW e,
           Sees(p, x, y, r, e, ref, landed, prs)
    PROVE  Sees(p, x, y, r, e, ref', landed', prs')
<1>1. TrueOf(y, r, ref', landed', prs')
  BY TruthStays DEF Sees
<1>2. p = "final" /\ ~e => Achieved(y, r, landed', prs')
  BY TruthStays DEF Sees
<1>3. p = "updated" => PartOf(x.sha, ref')
  BY PartStays, StatusParts DEF Sees, Grows
<1> QED BY <1>1, <1>2, <1>3 DEF Sees, Grows

\* The branch that is checked out exists.
LEMMA DoHead ==
    ASSUME TypeOK, ref[branch] # << >>, NEW c \in Requests, Changes(c.kind, c.at), Can(c), Do(c)
    PROVE  ref'[branch'] # << >>
<1>a. /\ ref \in [Branch -> Commits] /\ branch \in Branch /\ Tip = ref[branch]
      /\ "topic" \in Branch /\ "title" \in Branch
  BY DEF TypeOK, CheckoutTypes, Tip, Branch
<1>b. c.at.branch \in Branch
  BY StatusParts DEF Requests
<1>1. CASE c.kind = "branch"
  BY <1>1, <1>a DEF Do, DoBranch
<1>2. CASE c.kind = "import"
  <2>1. DoImport(c) /\ branch' = branch
    BY <1>2 DEF Do, DoImport
  <2>2. CASE ref' = ref
    BY <2>1, <2>2
  <2>3. CASE IsPrefix(Tip, c.at.refs[c.at.branch]) /\ ref' = [ref EXCEPT ![branch] = c.at.refs[c.at.branch]]
    <3>1. ref'[branch] = c.at.refs[c.at.branch]
      BY <1>a, <2>3
    <3>2. Len(Tip) <= Len(c.at.refs[c.at.branch])
      BY <2>3 DEF IsPrefix
    <3>3. Tip \in Seq([tree : Nat, by : {Other} \cup Ops])
      BY <1>a DEF Commits
    <3>4. Len(Tip) > 0
      BY <1>a, <3>3
    <3>5. Len(<< >>) = 0
      OBVIOUS
    <3>6. c.at.refs[c.at.branch] # << >>
      BY <3>2, <3>3, <3>4, <3>5
    <3> QED BY <2>1, <3>1, <3>6
  <2> QED BY <2>1, <2>2, <2>3 DEF DoImport
<1>3. CASE c.kind \in {"add", "push", "open"}
  BY <1>3 DEF Do, DoAdd, DoPush, DoOpen
<1>4. CASE c.kind = "update"
  <2>1. branch' = branch /\ ref' = [ref EXCEPT ![c.at.branch] = c.at.sha]
    BY <1>4 DEF Do, DoUpdate
  <2>2. c.at.sha # << >>
    BY <1>4 DEF Changes
  <2> QED BY <1>a, <1>b, <2>1, <2>2
<1>5. CASE c.kind = "rename"
  <2>1. /\ c.at.branch = "chore" /\ ref["chore"] # << >>
        /\ ref' = [ref EXCEPT !["chore"] = << >>, !["title"] = ref["chore"]]
        /\ branch' = IF branch = "chore" THEN "title" ELSE branch
    BY <1>5 DEF Can, Do, CanRename, DoRename, Changes
  <2>2. ref'["title"] = ref["chore"] /\ \A b \in Branch \ {"title", "chore"} : ref'[b] = ref[b]
    BY <1>a, <2>1 DEF Branch
  <2> QED BY <1>a, <2>1, <2>2
<1> QED BY <1>1, <1>2, <1>3, <1>4, <1>5 DEF Requests, Calls

\* What is at GitHub has landed.
LEMMA DoLanded ==
    ASSUME TypeOK, \A b \in Branch : remote[b] # << >> => remote[b] \in landed, NEW c, Do(c)
    PROVE  \A b \in Branch : remote'[b] # << >> => remote'[b] \in landed'
<1>1. CASE DoPush(c)
  BY <1>1 DEF DoPush, TypeOK, GitHubTypes
<1>2. CASE ~DoPush(c)
  BY <1>2 DEF Do, DoBranch, DoImport, DoAdd, DoUpdate, DoOpen, DoRename
<1> QED BY <1>1, <1>2

\* What a worker reaches by its step.
LEMMA WorkReaches ==
    ASSUME TypeOK, ReviewInv, TruthInv, NEW w \in Workers, pc[w] # "idle",
           Work(w) \/ Acquire(w) \/ Error(w) \/ Cancel(w)
    PROVE  Reaches(pc'[w], at'[w], out'[w], Req(w))
<1> DEFINE Ok == Reaches(pc'[w], at'[w], out'[w], Req(w))
           Bare == {"idle", "final", "prepare", "lock", "check", "feature", "creating", "branch",
                    "branched", "stage", "review", "add", "added", "export", "apply", "update",
                    "updated", "name", "namelock", "reread", "renaming", "rename", "renamed"}
<1>a. /\ at \in [Workers -> Statuses] /\ pc \in [Workers -> PCs] /\ at[w] \in Statuses
      /\ out \in [Workers -> Outcomes] /\ out[w] \in Outcomes
  BY DEF TypeOK, WorkerTypes
<1>b. Reaches(pc[w], at[w], out[w], Req(w)) /\ Reviews(pc[w], at[w], Req(w)) /\ Changes(pc[w], at[w])
  BY DEF ReviewInv, TruthInv
<1>c. Tip # << >> /\ Status.head = Tip
  BY DEF TruthInv, Tip, Status
<1>e. ASSUME pc'[w] \in Bare PROVE Ok
  BY <1>e DEF Reaches, Publishing
<1>m. /\ \A l : Goto(w, l) => pc'[w] = l
      /\ \A f : Return(w, f) => pc'[w] = "final"
      /\ \A l : Advance(w, l) => pc'[w] = l /\ at' = at
      /\ Reject(w) => pc'[w] = "final" /\ at' = at
      /\ Published(w) => \/ pc'[w] = "pulls" /\ WantsPR(w)
                         \/ pc'[w] = "final"
  BY MoveTo
<1>t. \A d : Route(w, d) =>
         \/ pc'[w] = "fetch" /\ Action(w) \in FetchActions
         \/ pc'[w] \in {"stage", "final", "remote"}
  BY MoveTo
<1>q. Quiet => out' = out
  BY DEF Quiet
<1>r. Reject(w) => Ok
  BY <1>e, <1>m
<1> HIDE DEF Ok
<1>1. ASSUME Prepare(w) \/ NameFeature(w) \/ Stage(w) \/ Review(w) \/ Apply(w) \/ Name(w)
      PROVE  Ok
  BY <1>1, <1>e, <1>m DEF Prepare, NameFeature, Stage, Review, Apply, Name, Publish
<1>2. ASSUME RefusePR(w) \/ Error(w) PROVE Ok
  BY <1>2, <1>r DEF RefusePR, Error
<1>3. ASSUME Final(w) \/ Cancel(w) PROVE Ok
  <2>1. pc'[w] = "idle"
    BY <1>3, <1>a DEF Final, Cancel
  <2> QED BY <2>1, <1>e
<1>4. ASSUME Acquire(w) PROVE Ok
  <2>1. pc' = [pc EXCEPT ![w] = IF pc[w] = "lock" THEN "check" ELSE "reread"]
    BY <1>4 DEF Acquire
  <2>2. pc'[w] \in {"check", "reread"}
    BY <2>1, <1>a
  <2> QED BY <2>2, <1>e
<1>5. ASSUME Export(w) PROVE Ok
  <2>1. Reject(w) \/ Goto(w, "apply")
    BY <1>5 DEF Export, Publish
  <2> QED BY <2>1, <1>e, <1>m
<1>6. ASSUME Reread(w) PROVE Ok
  <2>1. Reject(w) \/ Goto(w, "renaming")
    BY <1>6 DEF Reread
  <2> QED BY <2>1, <1>e, <1>m
<1>7. ASSUME Check(w) PROVE Ok
  <2>1. CASE pc'[w] \in Bare
    BY <2>1, <1>e
  <2>2. CASE pc'[w] \notin Bare
    <3>1. Reviewed(Req(w)) /\ at' = [at EXCEPT ![w] = Status]
      BY <1>7, <2>2, <1>m DEF Check
    <3>2. at'[w] = Status /\ Tip = Req(w).head
      BY <3>1, <1>a DEF Reviewed
    <3>3. (pc'[w] = "fetch" /\ Action(w) \in FetchActions) \/ pc'[w] = "remote"
      BY <1>7, <2>2, <3>1, <1>m, <1>t DEF Check
    <3> QED BY <3>2, <3>3, <1>c DEF Reaches, Action, Publishing, Ok
  <2> QED BY <2>1, <2>2
<1>8. ASSUME Enter(w) PROVE Ok
  <2>1. CASE pc[w] = "importing" /\ Advance(w, "import")
    <3>1. pc'[w] = "import" /\ at' = at /\ out' = out
      BY <1>8, <2>1, <1>m, <1>q DEF Enter
    <3> QED BY <2>1, <3>1, <1>b DEF Reaches, Publishing, Ok
  <2>2. CASE Reject(w) \/ Advance(w, "branch") \/ Advance(w, "rename")
    BY <2>2, <1>e, <1>m
  <2> QED BY <1>8, <2>1, <2>2 DEF Enter, Before
<1>9. ASSUME SaveBranch(w) PROVE Ok
  <2>1. at' = at /\ out' = out /\ pc[w] = "row"
    BY <1>9 DEF SaveBranch
  <2>2. CASE pc'[w] \in Bare
    BY <2>2, <1>e
  <2>3. CASE pc'[w] \notin Bare
    <3>1. (pc'[w] = "fetch" /\ Action(w) \in FetchActions) \/ pc'[w] = "remote"
      BY <1>9, <2>3, <1>m, <1>t DEF SaveBranch
    <3>2. Action(w) # "name_branch"
      BY <1>9, <2>3, <1>m DEF SaveBranch
    <3>3. Req(w).feature
      BY <2>1, <3>2, <1>b DEF Reviews, Action
    <3> QED BY <2>1, <3>1, <3>3, <1>b DEF Reaches, Action, Publishing, Ok
  <2> QED BY <2>2, <2>3
<1>10. ASSUME Fetch(w) PROVE Ok
  <2>1. CASE Reject(w)
    BY <2>1, <1>r
  <2>2. CASE ~Reject(w)
    <3>1. pc'[w] = "importing" /\ pc[w] = "fetch"
      BY <1>10, <2>2, <1>m DEF Fetch, Publish
    <3> QED BY <3>1, <1>b DEF Reaches, Publishing, Ok
  <2> QED BY <2>1, <2>2
<1>11. ASSUME Committed(w) PROVE Ok
  <2>1. CASE pc'[w] \in Bare
    BY <2>1, <1>e
  <2>2. CASE pc'[w] \notin Bare
    <3>1. pc'[w] = "remote" /\ pc[w] = "committed" /\ at' = at /\ out' = out
      BY <1>11, <2>2, <1>m, <1>q DEF Committed, Publish
    <3> QED BY <3>1, <1>b DEF Reaches, Publishing, Ok
  <2> QED BY <2>1, <2>2
<1>12. ASSUME CheckRemote(w) PROVE Ok
  <2>1. CASE pc'[w] \in Bare
    BY <2>1, <1>e
  <2>2. CASE pc'[w] \notin Bare
    <3>1. /\ at'[w] = [at[w] EXCEPT !.refs = remote] /\ out' = out /\ pc[w] = "remote"
          /\ pc'[w] = "ship" \/ (pc'[w] = "pulls" /\ WantsPR(w))
          /\ WantsPR(w) => at[w].branch # "main"
      BY <1>12, <2>2, <1>a, <1>m, <1>q DEF CheckRemote, Publish
    <3>2. at'[w].head = at[w].head /\ at'[w].branch = at[w].branch
      BY <3>1, <1>a, StatusFields
    <3> QED BY <3>1, <3>2, <1>b DEF Reaches, Publishing, WantsPR, Action, Ok
  <2> QED BY <2>1, <2>2
<1>13. ASSUME Ship(w) PROVE Ok
  <2>1. CASE Reject(w)
    BY <2>1, <1>r
  <2>2. CASE ~Reject(w)
    <3>1. pc'[w] = "push" /\ pc[w] = "ship" /\ at' = at /\ out' = out
      BY <1>13, <2>2, <1>m, <1>q DEF Ship, Publish
    <3> QED BY <3>1, <1>b DEF Reaches, Publishing, Ok
  <2> QED BY <2>1, <2>2
<1>14. ASSUME Pushed(w) PROVE Ok
  <2>1. CASE pc'[w] \in Bare
    BY <2>1, <1>e
  <2>2. CASE pc'[w] \notin Bare
    <3>1. pc'[w] = "pulls" /\ WantsPR(w) /\ pc[w] = "pushed" /\ at' = at /\ out' = out
      BY <1>14, <2>2, <1>m, <1>q DEF Pushed, Publish
    <3> QED BY <3>1, <1>b DEF Reaches, Publishing, WantsPR, Action, Ok
  <2> QED BY <2>1, <2>2
<1>15. ASSUME Verify(w) \/ ListPulls(w) PROVE Ok
  <2>1. CASE pc'[w] \in Bare
    BY <2>1, <1>e
  <2>2. CASE pc'[w] \notin Bare
    <3>1. /\ pc'[w] \in {"open", "verify"} /\ pc[w] \in {"verify", "pulls"} /\ at' = at /\ out' = out
      BY <1>15, <2>2, <1>m, <1>q DEF Verify, ListPulls, Publish
    <3> QED BY <3>1, <1>b DEF Reaches, Publishing, Ok
  <2> QED BY <2>1, <2>2
<1>16. ASSUME Call(w) PROVE Ok
  <2>1. CASE pc'[w] \in Bare
    BY <2>1, <1>e
  <2>2. CASE pc'[w] \notin Bare
    <3>1. pc[w] = "push" /\ pc'[w] = "pushed"
      BY <1>16, <2>2, <1>m DEF Call, Answer, Calls
    <3>2. at' = at /\ out'[w] = [out[w] EXCEPT !.pushed = TRUE]
      BY <1>16, <3>1, <1>a DEF Call, Answer
    <3>3. out'[w].commit = out[w].commit
      BY <3>2, <1>a DEF Outcomes
    <3> QED BY <3>1, <3>2, <3>3, <1>b DEF Reaches, Publishing, Ok
  <2> QED BY <2>1, <2>2
<1>17. ASSUME See(w) PROVE Ok
  <2>1. at'[w] = Status
    BY <1>17, <1>a DEF See
  <2>2. CASE pc'[w] \in Bare
    BY <2>2, <1>e
  <2>3. CASE pc'[w] = "row"
    BY <2>1, <2>3, <1>c DEF Reaches, Publishing, Ok
  <2>4. CASE pc'[w] \notin Bare \cup {"row"}
    <3>1. pc[w] = "updated" /\ pc'[w] = "committed"
      BY <1>17, <2>4, <1>m DEF See, Answers
    <3>2. out'[w] = [out[w] EXCEPT !.commit = at[w].sha]
      BY <1>17, <3>1, <1>a DEF See
    <3>3. out'[w].commit = at[w].sha
      BY <3>2, <1>a DEF Outcomes
    <3>4. at[w].sha # << >>
      BY <3>1, <1>b DEF Changes
    <3> QED BY <2>1, <3>1, <3>3, <3>4, <1>c DEF Reaches, Publishing, Ok
  <2> QED BY <2>2, <2>3, <2>4
<1>18. ASSUME Refused(w) PROVE Ok
  BY <1>18, <1>e, <1>m DEF Refused
<1>19. Ok
  BY <1>1, <1>2, <1>3, <1>4, <1>5, <1>6, <1>7, <1>8, <1>9, <1>10, <1>11, <1>12, <1>13, <1>14,
     <1>15, <1>16, <1>17, <1>18 DEF Work
<1> QED BY <1>19 DEF Ok

\* What a worker has found or done by its step.
LEMMA WorkSees ==
    ASSUME TypeOK, TypeOK', ReviewInv, TruthInv, Grows, NEW w \in Workers, pc[w] # "idle",
           Work(w) \/ Acquire(w) \/ Error(w) \/ Cancel(w), pc'[w] # "idle"
    PROVE  Sees(pc'[w], at'[w], out'[w], Req(w), err'[w], ref', landed', prs')
<1> DEFINE Ok == Sees(pc'[w], at'[w], out'[w], Req(w), err'[w], ref', landed', prs')
           Bare == PCs \ {"pushed", "pulls", "verify", "open", "updated", "final"}
           Same == out'[w] = out[w]
           Landed == {"pushed", "pulls", "verify", "open"}
           True(y) == TrueOf(y, Req(w), ref', landed', prs')
           Goal(y) == Achieved(y, Req(w), landed', prs')
<1>a. /\ at \in [Workers -> Statuses] /\ pc \in [Workers -> PCs] /\ at[w] \in Statuses
      /\ out \in [Workers -> Outcomes] /\ out[w] \in Outcomes /\ pc'[w] \in PCs
      /\ at[w].branch \in Branch /\ at[w].sha \in Commits /\ at[w].head \in Commits
  BY StatusParts DEF TypeOK, WorkerTypes
<1>b. Reaches(pc[w], at[w], out[w], Req(w)) /\ Reviews(pc[w], at[w], Req(w)) /\ Changes(pc[w], at[w])
  BY DEF ReviewInv, TruthInv
<1>c. Sees(pc[w], at[w], out[w], Req(w), err[w], ref', landed', prs')
  BY <1>a, SeesStays DEF TruthInv
<1>d. True(out[w])
  BY <1>c DEF Sees
<1>e. ASSUME pc'[w] \notin Landed \cup {"updated", "final"}, Same PROVE Ok
  BY <1>d, <1>e DEF Sees
<1>f. ASSUME pc'[w] = "final", err'[w] = TRUE, Same PROVE Ok
  BY <1>d, <1>f DEF Sees
<1>g. ASSUME pc'[w] = "final", True(out'[w]), Goal(out'[w]) PROVE Ok
  BY <1>g DEF Sees
<1>l. ASSUME pc'[w] \in Landed, Same, at'[w].head \in landed' PROVE Ok
  BY <1>d, <1>l DEF Sees
<1>p. ASSUME pc[w] \in Publishing, at[w].head \in landed', ~WantsPR(w) PROVE Goal(out[w])
  BY <1>b, <1>p DEF Reaches, Achieved, WantsPR, Action
<1>m. /\ \A l : Goto(w, l) => pc'[w] = l
      /\ \A f : Return(w, f) => pc'[w] = "final" /\ err'[w] = f
      /\ \A l : Advance(w, l) => pc'[w] = l /\ at' = at
      /\ Reject(w) => pc'[w] = "final" /\ at' = at /\ err'[w] = TRUE
      /\ Published(w) => \/ pc'[w] = "pulls" /\ WantsPR(w)
                         \/ pc'[w] = "final" /\ err'[w] = FALSE /\ ~WantsPR(w)
  BY MoveTo
<1>t. \A d : Route(w, d) =>
         \/ pc'[w] \in {"fetch", "stage", "remote"}
         \/ pc'[w] = "final" /\ err'[w] = FALSE /\ Action(w) = "commit"
  BY MoveTo
<1>q. Quiet => Same
  BY DEF Quiet
<1>n. Action(w) \in FetchActions \cup {"commit", "name_branch"} => Goal(out[w])
  BY DEF Achieved, Action, FetchActions, PushActions, PRActions
<1> HIDE DEF Ok, True, Goal
<1>1. ASSUME Prepare(w) \/ NameFeature(w) \/ Stage(w) \/ Review(w) \/ Apply(w) \/ Ship(w) \/ Enter(w) \/ RefusePR(w)
      PROVE  Ok
  <2>1. Same
    BY <1>1, <1>q DEF Prepare, NameFeature, Stage, Review, Apply, Ship, Enter, RefusePR
  <2>2. Reject(w) \/ \E l \in {"lock", "creating", "review", "export", "add", "update", "push", "branch", "import", "rename"} : Advance(w, l)
    BY <1>1 DEF Prepare, NameFeature, Stage, Review, Apply, Ship, Enter, RefusePR, Publish, Before
  <2> QED BY <2>1, <2>2, <1>e, <1>f, <1>m
<1>2. ASSUME Export(w) \/ Fetch(w) \/ Reread(w) PROVE Ok
  <2>1. Same
    BY <1>2, <1>q DEF Export, Fetch, Reread
  <2>2. Reject(w) \/ \E l \in {"apply", "importing", "renaming"} : Goto(w, l)
    BY <1>2 DEF Export, Fetch, Reread, Publish
  <2> QED BY <2>1, <2>2, <1>e, <1>f, <1>m
<1>3. ASSUME Error(w) PROVE Ok
  BY <1>3, <1>f, <1>m DEF Error
<1>4. ASSUME Acquire(w) PROVE Ok
  <2>1. pc' = [pc EXCEPT ![w] = IF pc[w] = "lock" THEN "check" ELSE "reread"] /\ Same
    BY <1>4, <1>q DEF Acquire
  <2>2. pc'[w] \in {"check", "reread"}
    BY <2>1, <1>a
  <2> QED BY <2>1, <2>2, <1>e
<1>5. ASSUME Check(w) PROVE Ok
  <2>1. Same
    BY <1>5, <1>q DEF Check
  <2>2. \/ Reject(w) \/ Goto(w, "feature") \/ Route(w, Dirty)
    BY <1>5 DEF Check
  <2>3. ASSUME Route(w, Dirty) PROVE Ok
    BY <2>1, <2>3, <1>d, <1>e, <1>g, <1>n, <1>t
  <2> QED BY <2>1, <2>2, <2>3, <1>e, <1>f, <1>m
<1>6. ASSUME SaveBranch(w) PROVE Ok
  <2>1. Same /\ pc[w] = "row"
    BY <1>6 DEF SaveBranch
  <2>2. CASE Action(w) # "name_branch"
    <3>1. Route(w, at[w].dirty)
      BY <1>6, <2>2 DEF SaveBranch
    <3> QED BY <2>1, <3>1, <1>d, <1>e, <1>g, <1>n, <1>t
  <2>3. CASE Action(w) = "name_branch"
    <3>1. Return(w, FALSE) \/ Return(w, TRUE)
      BY <1>6, <2>3 DEF SaveBranch
    <3>2. Goal(out'[w]) /\ True(out'[w])
      BY <2>1, <2>3, <1>d, <1>n
    <3> QED BY <3>1, <3>2, <1>g, <1>m
  <2> QED BY <2>2, <2>3
<1>7. ASSUME Name(w) PROVE Ok
  <2>1. Same /\ pc[w] = "name"
    BY <1>7, <1>q DEF Name
  <2>2. Action(w) = "name_branch"
    BY <2>1, <1>b DEF Reviews, Action
  <2>3. Goal(out'[w]) /\ True(out'[w])
    BY <2>1, <2>2, <1>d, <1>n
  <2>4. Return(w, FALSE) \/ Reject(w) \/ Advance(w, "namelock")
    BY <1>7 DEF Name, Publish
  <2>5. CASE Return(w, FALSE)
    BY <2>3, <2>5, <1>g, <1>m
  <2>6. CASE Reject(w)
    BY <2>1, <2>6, <1>f, <1>m
  <2>7. CASE Advance(w, "namelock")
    BY <2>1, <2>7, <1>e, <1>m
  <2> QED BY <2>4, <2>5, <2>6, <2>7
<1>8. ASSUME Committed(w) PROVE Ok
  <2>1. Same
    BY <1>8, <1>q DEF Committed
  <2>2. Reject(w) \/ Advance(w, "remote") \/ (Return(w, FALSE) /\ Action(w) = "commit")
    BY <1>8 DEF Committed, Publish
  <2>3. CASE Return(w, FALSE) /\ Action(w) = "commit"
    <3>1. Goal(out'[w]) /\ True(out'[w])
      BY <2>1, <2>3, <1>d, <1>n
    <3> QED BY <2>3, <3>1, <1>g, <1>m
  <2>4. CASE Reject(w)
    BY <2>1, <2>4, <1>f, <1>m
  <2>5. CASE Advance(w, "remote")
    BY <2>1, <2>5, <1>e, <1>m
  <2> QED BY <2>2, <2>3, <2>4, <2>5
<1>9. ASSUME pc[w] \in Publishing, Same, at'[w].head = at[w].head, at[w].head \in landed', Published(w)
      PROVE  Ok
  <2>1. ~WantsPR(w) => Goal(out'[w]) /\ True(out'[w])
    BY <1>9, <1>d, <1>p
  <2> QED BY <1>9, <2>1, <1>g, <1>l, <1>m
<1>10. ASSUME CheckRemote(w) PROVE Ok
  <2>1. Same /\ pc[w] = "remote"
    BY <1>10, <1>q DEF CheckRemote
  <2>2. CASE Reject(w)
    BY <2>1, <2>2, <1>f, <1>m
  <2>3. CASE Goto(w, "ship")
    BY <2>1, <2>3, <1>e, <1>m
  <2>4. CASE ~Reject(w) /\ ~Goto(w, "ship")
    <3>1. /\ at'[w] = [at[w] EXCEPT !.refs = remote] /\ Published(w)
          /\ remote[at[w].branch] = at[w].remote /\ at[w].remote = at[w].head
      BY <1>10, <2>4, <1>a DEF CheckRemote, Publish
    <3>2. at'[w].head = at[w].head
      BY <3>1, <1>a, StatusFields
    <3>3. at[w].head # << >>
      BY <2>1, <1>b DEF Reaches, Publishing
    <3>4. at[w].head \in landed
      BY <3>1, <3>3, <1>a DEF TruthInv
    <3>5. at[w].head \in landed' /\ pc[w] \in Publishing
      BY <2>1, <3>4 DEF Grows, Publishing
    <3> QED BY <2>1, <3>1, <3>2, <3>5, <1>9
  <2> QED BY <2>2, <2>3, <2>4
<1>11. ASSUME Pushed(w) PROVE Ok
  <2>1. Same /\ pc[w] = "pushed"
    BY <1>11, <1>q DEF Pushed
  <2>2. CASE Reject(w)
    BY <2>1, <2>2, <1>f, <1>m
  <2>3. CASE Published(w) /\ at' = at
    <3>1. at[w].head \in landed' /\ pc[w] \in Publishing
      BY <2>1, <1>c DEF Sees, Publishing
    <3> QED BY <2>1, <2>3, <3>1, <1>9
  <2> QED BY <1>11, <2>2, <2>3 DEF Pushed, Publish
<1>12. ASSUME pc[w] \in {"pulls", "verify"}, Same,
              Reject(w) \/ Advance(w, "verify") \/ Advance(w, "open")
       PROVE  Ok
  <2>1. at[w].head \in landed'
    BY <1>12, <1>c DEF Sees
  <2> QED BY <2>1, <1>12, <1>f, <1>l, <1>m
<1>13. ASSUME pc[w] \in {"pulls", "open"}, HasPR(prs'), at[w].head \in landed',
              out' = [out EXCEPT ![w].pr = TRUE], pc'[w] = "final"
       PROVE  Ok
  <2>1. out'[w] = [out[w] EXCEPT !.pr = TRUE]
    BY <1>13, <1>a
  <2>2. out'[w].pushed = out[w].pushed /\ out'[w].commit = out[w].commit
    BY <2>1, <1>a DEF Outcomes
  <2>3. True(out'[w])
    BY <2>2, <1>13, <1>d DEF True, TrueOf
  <2>4. Goal(out'[w])
    BY <2>2, <1>13, <1>b DEF Goal, Achieved, Reaches, Publishing
  <2> QED BY <1>13, <2>3, <2>4, <1>g
<1>14. ASSUME pc[w] \in {"pulls", "open"}, at[w].branch \in prs'
       PROVE  HasPR(prs')
  <2>1. Req(w).action \in PRActions /\ at[w].branch # "main"
    BY <1>14, <1>b DEF Reaches, Publishing
  <2> QED BY <1>14, <2>1 DEF HasPR
<1>15. pc[w] \in {"pulls", "open"} => at[w].head \in landed'
  BY <1>c DEF Sees
<1>16. ASSUME ListPulls(w) \/ Verify(w) PROVE Ok
  <2>1. CASE ListPulls(w) /\ at[w].branch \in prs
    <3>1. pc[w] = "pulls" /\ out' = [out EXCEPT ![w].pr = TRUE] /\ Return(w, FALSE)
      BY <2>1 DEF ListPulls
    <3> QED BY <2>1, <3>1, <1>13, <1>14, <1>15, <1>m DEF Grows
  <2>2. CASE ~(ListPulls(w) /\ at[w].branch \in prs)
    <3>1. Same /\ pc[w] \in {"pulls", "verify"}
      BY <1>16, <2>2, <1>q DEF ListPulls, Verify
    <3>2. Reject(w) \/ Advance(w, "verify") \/ Advance(w, "open")
      BY <1>16, <2>2 DEF ListPulls, Verify, Publish
    <3> QED BY <3>1, <3>2, <1>12
  <2> QED BY <2>1, <2>2
<1>17. ASSUME Refused(w) PROVE Ok
  <2>1. CASE Reject(w) /\ out' = out
    BY <2>1, <1>f, <1>m
  <2>2. CASE pc[w] = "open" /\ at[w].branch \in prs /\ out' = [out EXCEPT ![w].pr = TRUE] /\ Return(w, FALSE)
    BY <2>2, <1>13, <1>14, <1>15, <1>m DEF Grows
  <2> QED BY <1>17, <2>1, <2>2 DEF Refused
<1>18. ASSUME Call(w) PROVE Ok
  <2>1. CASE pc[w] \in {"branch", "add", "rename"}
    <3>1. Same /\ pc'[w] \in {"branched", "added", "renamed"}
      BY <1>18, <2>1, <1>m DEF Call, Answer
    <3> QED BY <3>1, <1>e
  <2>2. CASE pc[w] = "import"
    <3>1. Same /\ pc'[w] = "final"
      BY <1>18, <2>2, <1>m DEF Call, Answer
    <3>2. Action(w) \in FetchActions
      BY <2>2, <1>b DEF Reaches, Action
    <3> QED BY <3>1, <3>2, <1>d, <1>g, <1>n
  <2>3. CASE pc[w] = "update"
    <3>1. Same /\ pc'[w] = "updated" /\ at' = at
      BY <1>18, <2>3, <1>m DEF Call, Answer
    <3>2. ref' = [ref EXCEPT ![at[w].branch] = at[w].sha]
      BY <1>18, <2>3 DEF Call, Do, CallOf, DoUpdate
    <3>3. ref'[at[w].branch] = at[w].sha
      BY <3>2, <1>a DEF TypeOK, CheckoutTypes
    <3>4. PartOf(at[w].sha, ref')
      BY <3>3, <1>a, PrefixReflexive DEF PartOf
    <3> QED BY <3>1, <3>4, <1>d DEF Ok, True, Sees
  <2>4. CASE pc[w] = "push"
    <3>1. out' = [out EXCEPT ![w].pushed = TRUE] /\ pc'[w] = "pushed" /\ at' = at
      BY <1>18, <2>4, <1>m DEF Call, Answer
    <3>2. at[w].head \in landed'
      BY <1>18, <2>4 DEF Call, Do, CallOf, DoPush
    <3>3. out'[w] = [out[w] EXCEPT !.pushed = TRUE]
      BY <3>1, <1>a
    <3>4. out'[w].pr = out[w].pr /\ out'[w].commit = out[w].commit
      BY <3>3, <1>a DEF Outcomes
    <3>5. Req(w).feature \/ out[w].commit # << >> \/ at[w].head = Req(w).head
      BY <2>4, <1>b DEF Reaches, Publishing
    <3>6. True(out'[w])
      BY <3>2, <3>4, <3>5, <1>d DEF True, TrueOf
    <3> QED BY <3>1, <3>2, <3>6 DEF Ok, True, Sees
  <2>5. CASE pc[w] = "open"
    <3>1. out' = [out EXCEPT ![w].pr = TRUE] /\ pc'[w] = "final"
      BY <1>18, <2>5, <1>m DEF Call, Answer
    <3>2. at[w].branch \in prs'
      BY <1>18, <2>5 DEF Call, Do, CallOf, DoOpen
    <3> QED BY <2>5, <3>1, <3>2, <1>13, <1>14, <1>15
  <2> QED BY <1>18, <2>1, <2>2, <2>3, <2>4, <2>5 DEF Call, Calls
<1>19. ASSUME See(w) PROVE Ok
  <2>1. CASE pc[w] = "updated"
    <3>1. out' = [out EXCEPT ![w].commit = at[w].sha] /\ pc'[w] = "committed"
      BY <1>19, <2>1, <1>m DEF See
    <3>2. out'[w] = [out[w] EXCEPT !.commit = at[w].sha]
      BY <3>1, <1>a
    <3>3. out'[w].commit = at[w].sha /\ out'[w].pr = out[w].pr
      BY <3>2, <1>a DEF Outcomes
    <3>4. PartOf(at[w].sha, ref') /\ at[w].sha # << >>
      BY <2>1, <1>b, <1>c DEF Sees, Changes
    <3>5. True(out'[w])
      BY <3>3, <3>4, <1>d DEF True, TrueOf
    <3> QED BY <3>1, <3>5 DEF Ok, True, Sees
  <2>2. CASE pc[w] # "updated"
    <3>1. Same /\ pc'[w] \in {"row", "export"}
      BY <1>19, <2>2, <1>m DEF See, Answers
    <3> QED BY <3>1, <1>e
  <2> QED BY <2>1, <2>2
<1>20. ASSUME Final(w) \/ Cancel(w) PROVE FALSE
  BY <1>20, <1>a DEF Final, Cancel
<1>21. Ok
  BY <1>1, <1>2, <1>3, <1>4, <1>5, <1>6, <1>7, <1>8, <1>10, <1>11, <1>16, <1>17, <1>18, <1>19, <1>20 DEF Work
<1> QED BY <1>21 DEF Ok

\* A worker that steps was at work.
LEMMA WorkBusy ==
    ASSUME TypeOK, NEW w \in Workers, Work(w) \/ Acquire(w) \/ Error(w) \/ Cancel(w)
    PROVE  pc[w] # "idle"
<1>1. Call(w) \/ See(w) \/ Refused(w) => pc[w] # "idle"
  BY DEF Call, See, Refused, Calls, Answers
<1>2. Enter(w) => pc[w] # "idle"
  BY DEF Enter, Before
<1> QED
  BY <1>1, <1>2 DEF Work, Prepare, Check, NameFeature, SaveBranch, Fetch, Stage, Review, Export, Apply,
     Committed, RefusePR, CheckRemote, Ship, Pushed, ListPulls, Verify, Name, Reread, Final, Acquire,
     Error, Cancel

\* To have reported nothing is true.
LEMMA NothingTrue ==
    ASSUME NEW r, NEW f \in [Branch -> Commits], NEW l, NEW q
    PROVE  NoOutcome \in Outcomes /\ TrueOf(NoOutcome, r, f, l, q)
<1>1. NoOutcome.commit = << >> /\ NoOutcome.pushed = FALSE /\ NoOutcome.pr = FALSE
  BY DEF NoOutcome
<1>2. "main" \in Branch
  BY DEF Branch
<1>3. PartOf(<< >>, f)
  BY <1>2, EmptyPrefix DEF PartOf
<1>4. NoOutcome \in Outcomes
  BY GoodRoots DEF NoOutcome, Outcomes
<1> QED BY <1>1, <1>3, <1>4 DEF TrueOf

\* The branch that is checked out exists, and what is at GitHub has landed.
LEMMA HeadNext ==
    ASSUME TypeOK, ReviewInv, TruthInv, [Next]_vars
    PROVE  /\ ref'[branch'] # << >>
           /\ \A b \in Branch : remote'[b] # << >> => remote'[b] \in landed'
<1> DEFINE Ok == /\ ref'[branch'] # << >>
                 /\ \A b \in Branch : remote'[b] # << >> => remote'[b] \in landed'
<1>a. /\ ref[branch] # << >> /\ \A b \in Branch : remote[b] # << >> => remote[b] \in landed
      /\ ref \in [Branch -> Commits] /\ remote \in [Branch -> Commits]
      /\ branch \in Branch /\ index \in Nat
  BY DEF TruthInv, TypeOK, CheckoutTypes, GitHubTypes
<1>b. ASSUME UNCHANGED <<ref, branch, remote, landed>> PROVE Ok
  BY <1>a, <1>b
<1>1. ASSUME NEW w \in Workers, Work(w) \/ Acquire(w) \/ Error(w) \/ Cancel(w) PROVE Ok
  <2>1. CASE Call(w)
    <3>1. CallOf(w) \in Requests /\ Can(CallOf(w)) /\ Do(CallOf(w))
      BY <2>1, CallIs DEF Call
    <3>2. Changes(CallOf(w).kind, CallOf(w).at)
      BY DEF CallOf, ReviewInv
    <3> QED BY <3>1, <3>2, <1>a, DoHead, DoLanded
  <2>2. CASE ~Call(w)
    BY <1>1, <2>2, WorkIdle, <1>b
  <2> QED BY <2>1, <2>2
<1>2. ASSUME NEW c \in late, Late(c) PROVE Ok
  <2>1. c \in Requests /\ Changes(c.kind, c.at) /\ Can(c) /\ Do(c)
    BY <1>2 DEF Late, ReviewInv, TypeOK
  <2> QED BY <2>1, <1>a, DoHead, DoLanded
<1>3. CASE Agent
  <2>1. UNCHANGED <<remote, landed>>
    BY <1>3 DEF Agent
  <2>2. CASE AgentCommit
    <3> DEFINE d == Append(ref[branch], Entry(index, Other))
    <3>1. branch' = branch /\ ref' = [ref EXCEPT ![branch] = d]
      BY <2>2 DEF AgentCommit
    <3>2. Other \in {Other} \cup Ops /\ ref[branch] \in Commits /\ d = Append(ref[branch], Entry(index, Other))
      BY <1>a
    <3> HIDE DEF d
    <3>3. d # << >>
      BY <1>a, <3>2, OnTop
    <3> QED BY <1>a, <2>1, <3>1, <3>3
  <2>3. CASE Edit \/ AgentStage
    BY <1>a, <2>1, <2>3 DEF Edit, AgentStage
  <2>4. ASSUME NEW b \in Branch, Switch(b) PROVE Ok
    BY <1>a, <2>1, <2>4 DEF Switch
  <2> QED BY <1>3, <2>2, <2>3, <2>4 DEF Agent
<1>4. CASE GitHub
  <2>0. PICK b \in Branch : \E base : GitHubPush(b, base)
    BY <1>4 DEF GitHub
  <2>1. PICK base : GitHubPush(b, base)
    BY <2>0
  <2>2. UNCHANGED <<ref, branch>> /\ landed' = landed \cup {remote'[b]} /\ \E c : remote' = [remote EXCEPT ![b] = c]
    BY <2>1 DEF GitHubPush
  <2> QED BY <1>a, <2>2
<1>5. CASE Rows \/ LoseLock \/ (\E w \in Workers, o \in Ops : Claim(w, o)) \/ UNCHANGED vars
  <2>1. UNCHANGED <<ref, branch, remote, landed>>
    BY <1>5 DEF Rows, Start, Expire, Interrupt, Prune, LoseLock, Claim
  <2> QED BY <2>1, <1>b
<1> QED BY <1>1, <1>2, <1>3, <1>4, <1>5 DEF Next

\* What workers know carries over.
LEMMA WorkersTrue ==
    ASSUME TypeOK, ClaimInv, ReviewInv, TruthInv, [Next]_vars, NEW v \in Workers, pc'[v] # "idle"
    PROVE  /\ Reaches(pc'[v], at'[v], out'[v], req'[job'[v]])
           /\ Sees(pc'[v], at'[v], out'[v], req'[job'[v]], err'[v], ref', landed', prs')
<1> DEFINE Ok == /\ Reaches(pc'[v], at'[v], out'[v], req'[job'[v]])
                 /\ Sees(pc'[v], at'[v], out'[v], req'[job'[v]], err'[v], ref', landed', prs')
<1>a. Grows /\ Steady /\ TypeOK'
  BY StepGrows, StepSteady, NextType
<1>b. at[v] \in Statuses /\ out[v] \in Outcomes /\ ref' \in [Branch -> Commits]
  BY <1>a DEF TypeOK, WorkerTypes, CheckoutTypes
<1>c. ASSUME pc'[v] = pc[v], at'[v] = at[v], out'[v] = out[v], err'[v] = err[v], job'[v] = job[v] PROVE Ok
  <2>1. /\ Reaches(pc[v], at[v], out[v], req[job[v]])
        /\ Sees(pc[v], at[v], out[v], req[job[v]], err[v], ref, landed, prs)
    BY <1>c DEF TruthInv, Req
  <2>2. req'[job[v]] = req[job[v]]
    BY <1>a, <1>c DEF ClaimInv, Steady
  <2>3. Sees(pc[v], at[v], out[v], req[job[v]], err[v], ref', landed', prs')
    BY <1>a, <1>b, <2>1, SeesStays
  <2> QED BY <1>c, <2>1, <2>2, <2>3
<1>1. ASSUME NEW w \in Workers, Work(w) \/ Acquire(w) \/ Error(w) \/ Cancel(w) PROVE Ok
  <2>1. UNCHANGED <<job, req>> /\ Alone(w) /\ pc[w] # "idle"
    BY <1>1, WorkSameJob, WorkAlone, WorkBusy
  <2>2. CASE v # w
    BY <2>1, <2>2, <1>c DEF Alone
  <2>3. CASE v = w
    <3>1. Reaches(pc'[w], at'[w], out'[w], Req(w))
      BY <1>1, <2>1, WorkReaches
    <3>2. Sees(pc'[w], at'[w], out'[w], Req(w), err'[w], ref', landed', prs')
      BY <1>1, <1>a, <2>1, <2>3, WorkSees
    <3> QED BY <2>1, <2>3, <3>1, <3>2 DEF Req
  <2> QED BY <2>2, <2>3
<1>2. ASSUME NEW w \in Workers, NEW o \in Ops, Claim(w, o) PROVE Ok
  <2>1. CASE v # w
    BY <1>2, <2>1, <1>c, ClaimStarts
  <2>2. CASE v = w
    <3>1. out'[v] = NoOutcome /\ pc'[v] \in {"name", "prepare"}
      BY <1>2, <2>2, ClaimStarts
    <3>2. TrueOf(out'[v], req'[job'[v]], ref', landed', prs')
      BY <3>1, <1>b, NothingTrue
    <3>3. Reaches(pc'[v], at'[v], out'[v], req'[job'[v]])
      BY <3>1 DEF Reaches, Publishing
    <3> QED BY <3>1, <3>2, <3>3 DEF Sees
  <2> QED BY <2>1, <2>2
<1>3. CASE UNCHANGED <<pc, job, at, out, err>>
  BY <1>3, <1>c
<1> QED BY <1>1, <1>2, <1>3, StepStays

\* What rows report carries over.
LEMMA RowsTrue ==
    ASSUME TypeOK, ClaimInv, ReviewInv, TruthInv, [Next]_vars, NEW o \in Ops
    PROVE  /\ st'[o] = "absent" => told'[o] = NoOutcome
           /\ TrueOf(told'[o], req'[o], ref', landed', prs')
           /\ st'[o] = "succeeded" => Achieved(told'[o], req'[o], landed', prs')
<1> DEFINE Ok == /\ st'[o] = "absent" => told'[o] = NoOutcome
                 /\ TrueOf(told'[o], req'[o], ref', landed', prs')
                 /\ st'[o] = "succeeded" => Achieved(told'[o], req'[o], landed', prs')
<1>a. Grows /\ Steady /\ TypeOK'
  BY StepGrows, StepSteady, NextType
<1>b. /\ told \in [Ops -> Outcomes] /\ st \in [Ops -> OpStates] /\ told[o] \in Outcomes
      /\ ref' \in [Branch -> Commits]
  BY <1>a DEF TypeOK, RowTypes, CheckoutTypes
<1>c. /\ st[o] = "absent" => told[o] = NoOutcome
      /\ TrueOf(told[o], req[o], ref', landed', prs')
      /\ st[o] = "succeeded" => Achieved(told[o], req[o], landed', prs')
  BY <1>a, <1>b, TruthStays DEF TruthInv
<1>d. ASSUME told'[o] = told[o], req'[o] = req[o], st'[o] = st[o] \/ st'[o] \notin {"absent", "succeeded"}
      PROVE  Ok
  BY <1>c, <1>d
<1>1. ASSUME NEW w \in Workers, Work(w) \/ Acquire(w) \/ Error(w) \/ Cancel(w), ~Final(w) PROVE Ok
  <2>1. UNCHANGED <<st, req>> /\ RowStep(w)
    BY <1>1, WorkSameJob, QuietFacts, CallFacts DEF Work, WorkerFacts
  <2>2. CASE told' = told
    BY <2>1, <2>2, <1>d
  <2>3. CASE told' = [told EXCEPT ![job[w]] = out[w]] /\ Leased(w) /\ pc[w] # "idle"
    <3>1. CASE o # job[w]
      BY <2>1, <2>3, <3>1, <1>b, <1>d
    <3>2. CASE o = job[w]
      <4>1. st[o] = "running"
        BY <2>3, <3>2 DEF ClaimInv, Leased
      <4>2. told'[o] = out[w]
        BY <2>3, <3>2, <1>b
      <4>3. out[w] \in Outcomes
        BY DEF TypeOK, WorkerTypes
      <4>4. TrueOf(out[w], req[o], ref, landed, prs)
        BY <2>3, <3>2 DEF TruthInv, Sees, Req
      <4>5. TrueOf(out[w], req[o], ref', landed', prs')
        BY <4>3, <4>4, <1>a, TruthStays
      <4> QED BY <2>1, <4>1, <4>2, <4>5
    <3> QED BY <3>1, <3>2
  <2> QED BY <2>1, <2>2, <2>3 DEF RowStep
<1>2. ASSUME NEW w \in Workers, Final(w) PROVE Ok
  <2>1. req' = req /\ pc[w] = "final"
    BY <1>2 DEF Final
  <2>2. CASE ~Leased(w)
    <3>1. UNCHANGED <<st, told>>
      BY <1>2, <2>2 DEF Final
    <3> QED BY <2>1, <3>1, <1>d
  <2>3. CASE Leased(w)
    <3>1. /\ told' = [told EXCEPT ![job[w]] = out[w]]
          /\ \/ st' = [st EXCEPT ![job[w]] = "failed"]
             \/ ~err[w] /\ st' = [st EXCEPT ![job[w]] = "succeeded"]
      BY <1>2, <2>3 DEF Final
    <3>2. CASE o # job[w]
      BY <2>1, <3>1, <3>2, <1>b, <1>d
    <3>3. CASE o = job[w]
      <4>1. told'[o] = out[w] /\ (st'[o] = "failed" \/ (~err[w] /\ st'[o] = "succeeded"))
        BY <3>1, <3>3, <1>b
      <4>2. out[w] \in Outcomes
        BY DEF TypeOK, WorkerTypes
      <4>3. TrueOf(out[w], req[o], ref, landed, prs) /\ (~err[w] => Achieved(out[w], req[o], landed, prs))
        BY <2>1, <3>3 DEF TruthInv, Sees, Req
      <4>4. TrueOf(out[w], req[o], ref', landed', prs') /\ (~err[w] => Achieved(out[w], req[o], landed', prs'))
        BY <4>2, <4>3, <1>a, TruthStays
      <4> QED BY <2>1, <4>1, <4>4
    <3> QED BY <3>2, <3>3
  <2> QED BY <2>2, <2>3
<1>3. ASSUME NEW p \in Ops, NEW a, NEW s, NEW f, Start(p, a, s, f) PROVE Ok
  <2>1. told' = told
    BY <1>3 DEF Start
  <2>2. CASE st[p] # "absent"
    BY <1>3, <2>1, <2>2, <1>d DEF Start
  <2>3. CASE st[p] = "absent"
    <3>1. st' = [st EXCEPT ![p] = "queued"] /\ \E q : req' = [req EXCEPT ![p] = q]
      BY <1>3, <2>3 DEF Start
    <3>2. CASE o = p
      <4>1. told'[o] = NoOutcome /\ st'[o] = "queued"
        BY <2>1, <2>3, <3>1, <3>2, <1>b, <1>c
      <4>2. TrueOf(NoOutcome, req'[o], ref', landed', prs')
        BY <1>b, NothingTrue
      <4> QED BY <4>1, <4>2
    <3>3. CASE o # p
      <4>1. st'[o] = st[o]
        BY <3>1, <3>3, <1>b
      <4>2. req'[o] = req[o]
        BY <3>1, <3>3 DEF ReviewInv
      <4> QED BY <2>1, <4>1, <4>2, <1>d
    <3> QED BY <3>2, <3>3
  <2> QED BY <2>2, <2>3
<1>4. ASSUME NEW p \in Ops, Expire(p) \/ Interrupt(p) \/ Prune(p) PROVE Ok
  BY <1>4, <1>b, <1>d DEF Expire, Interrupt, Prune
<1>5. ASSUME NEW w \in Workers, NEW p \in Ops, Claim(w, p) PROVE Ok
  BY <1>5, <1>b, <1>d, ClaimStarts
<1>6. CASE (\E c \in late : Late(c)) \/ LoseLock \/ Agent \/ GitHub \/ UNCHANGED vars
  <2>1. UNCHANGED <<st, told, req>>
    BY <1>6 DEF Late, LoseLock, Agent, GitHub, GitHubPush
  <2> QED BY <2>1, <1>d
<1> QED BY <1>1, <1>2, <1>3, <1>4, <1>5, <1>6 DEF Next, Rows, Work

\* What is reported is true, throughout.
LEMMA TruthNext ==
    ASSUME TypeOK, ClaimInv, ReviewInv, TruthInv, [Next]_vars
    PROVE  TruthInv'
<1>1. ref'[branch'] # << >> /\ \A b \in Branch : remote'[b] # << >> => remote'[b] \in landed'
  BY HeadNext
<1>2. \A o \in Ops : /\ st'[o] = "absent" => told'[o] = NoOutcome
                     /\ TrueOf(told'[o], req'[o], ref', landed', prs')
                     /\ st'[o] = "succeeded" => Achieved(told'[o], req'[o], landed', prs')
  BY RowsTrue
<1>3. \A v \in Workers : pc'[v] # "idle" =>
         /\ Reaches(pc'[v], at'[v], out'[v], req'[job'[v]])
         /\ Sees(pc'[v], at'[v], out'[v], req'[job'[v]], err'[v], ref', landed', prs')
  BY WorkersTrue
<1> QED BY <1>1, <1>2, <1>3 DEF TruthInv, Req

\* At first nothing is reported.
LEMMA TruthInitially == ASSUME Init PROVE TruthInv
<1>1. Root # << >>
  BY DEF Root
<1>2. ref[branch] = Root /\ ref \in [Branch -> Commits]
  BY InitType DEF Init, TypeOK, CheckoutTypes, Branch
<1>3. \A b \in Branch : remote[b] # << >> => remote[b] \in landed
  BY DEF Init
<1>4. \A o \in Ops : told[o] = NoOutcome /\ st[o] = "absent"
  BY DEF Init
<1>5. \A w \in Workers : pc[w] = "idle"
  BY DEF Init
<1>6. \A o \in Ops : TrueOf(NoOutcome, req[o], ref, landed, prs)
  BY <1>2, NothingTrue
<1> QED BY <1>1, <1>2, <1>3, <1>4, <1>5, <1>6 DEF TruthInv

\* What the browser is told of an operation is true: a commit it reports is part
\* of a branch of the checkout, the reviewed HEAD it says it pushed reached
\* GitHub, and there is a pull request, whatever was lost or abandoned meanwhile
\* (publish and the last update of executeCodingOperation).
THEOREM ReportsTruthfully == Spec => []Truthful
<1>1. TruthInv => Truthful
  <2> SUFFICES ASSUME TruthInv, NEW o \in Ops
               PROVE  /\ \E b \in Branch : IsPrefix(told[o].commit, ref[b])
                      /\ Pure(o) /\ (\/ told[o].pushed
                                     \/ st[o] = "succeeded" /\ req[o].action \in PushActions)
                         => req[o].head \in landed
                      /\ \/ told[o].pr
                         \/ st[o] = "succeeded" /\ req[o].action \in PRActions
                         => \E b \in prs : b # "main"
    BY DEF Truthful
  <2>1. /\ TrueOf(told[o], req[o], ref, landed, prs)
        /\ st[o] = "succeeded" => Achieved(told[o], req[o], landed, prs)
    BY DEF TruthInv
  <2> QED BY <2>1 DEF TrueOf, Achieved, PartOf, HasPR, Pure
<1>2. TypeOK /\ ClaimInv /\ ReviewInv /\ TruthInv /\ [Next]_vars => TruthInv'
  BY TruthNext
<1>3. Init => TruthInv
  BY TruthInitially
<1> QED BY <1>1, <1>2, <1>3, ReviewInvariance, PTL DEF Spec
=============================================================================
