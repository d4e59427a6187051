----------------------- MODULE CodingSnapshotsProofs -----------------------
(***************************************************************************)
(* Proofs about CodingSnapshots, for any number of workers, operations and *)
(* branches.                                                               *)
(*                                                                         *)
(* A worker may write its result only while it holds the row's lease, and  *)
(* the result counts only while the row has the generation it was claimed  *)
(* with.  The invariant says what that buys: such a worker's result is not *)
(* older than what is acknowledged, than what has been invalidated and     *)
(* will be acknowledged, and than the row's own.                           *)
(***************************************************************************)
EXTENDS CodingSnapshots, TLAPS

TreeOK == tree \in [state : {"ready", "deleting", "gone"}, version : Nat, branch : Branches]

RowOK == row \in Rows /\ (~row.live => row = NoRow)

Work == [pc : {"idle", "load", "lookup", "save"}, token : Tokens \cup {0}, generation : Nat,
         result : Snapshots, remote : BOOLEAN]

Ops == [pc : {"start", "ran", "invalidated", "done"}, version : Nat]

\* What a version, a snapshot's, may be replaced by.
Floor(v) ==
    \/ v = 0
    \/ acked <= v /\ \A o \in Operations : ops[o].pc = "invalidated" => ops[o].version <= v

Holder(w) == work[w].pc # "idle" /\ row.live /\ row.token = work[w].token

\* A worker whose result would count.
Current(w) == Holder(w) /\ work[w].generation = row.generation

\* No version is ahead of the worktree's.
Tracked ==
    /\ acked <= tree.version
    /\ \A o \in Operations : ops[o].version <= tree.version
    /\ row.result.version <= tree.version
    /\ \A w \in Workers : work[w].result.version <= tree.version

\* A worker at work holds, or held, a lease of its own.
Leased ==
    /\ \A w \in Workers : work[w].pc # "idle" => work[w].token # 0
    /\ \A w \in Workers : Holder(w) => work[w].generation <= row.generation

\* What counts is not older than what was promised, or than what it replaces.
Counts ==
    /\ Floor(row.result.version)
    /\ \A w \in Workers : Current(w) => Floor(work[w].result.version)
    /\ \A w \in Workers : Current(w) =>
          work[w].result.version = 0 \/ row.result.version <= work[w].result.version

PullOK(s) == s.pull \in {NoBranch, s.branch}

Pulls == PullOK(row.result) /\ \A w \in Workers : PullOK(work[w].result)

IInv == TypeOK /\ Tracked /\ Leased /\ Counts

-----------------------------------------------------------------------------
(* Types *)

\* The blank snapshot, the absent row and a new one are rows.
LEMMA BlankType ==
    Blank \in Snapshots /\ Blank.version = 0 /\ Blank.branch = NoBranch /\ Blank.pull = NoBranch
BY DEF Blank, Snapshots

\* An absent row and a new one are rows without a result and without a lease.
LEMMA NewRowType ==
    /\ NoRow \in Rows /\ ~NoRow.live /\ NoRow.result = Blank /\ NoRow.token = 0 /\ NoRow.generation = 0
    /\ NewRow \in Rows /\ NewRow.live /\ NewRow.result = Blank /\ NewRow.token = 0 /\ NewRow.generation = 0
BY BlankType DEF NoRow, NewRow, Rows

\* Invalidation empties a row and, where it is live, moves its generation on.
LEMMA InvalidatedType ==
    ASSUME NEW r \in Rows
    PROVE  /\ Invalidated(r) \in Rows
           /\ Invalidated(r).live = r.live
           /\ Invalidated(r).token = r.token
           /\ r.live => Invalidated(r).generation = r.generation + 1 /\ Invalidated(r).result = Blank
           /\ ~r.live => Invalidated(r) = r
<1>1. CASE ~r.live
  BY <1>1 DEF Invalidated, Rows
<1>2. CASE r.live
  <2>1. Invalidated(r) = [live |-> r.live, result |-> Blank, generation |-> r.generation + 1,
                          token |-> r.token, leased |-> r.leased, due |-> TRUE, remote |-> TRUE]
    BY <1>2 DEF Invalidated, Rows
  <2> QED BY <1>2, <2>1, BlankType DEF Rows
<1> QED BY <1>1, <1>2

\* A save ends the lease, and its result counts or the row keeps its own.
LEMMA SavedType ==
    ASSUME NEW r \in Rows, NEW s \in Work
    PROVE  /\ Saved(r, s) \in Rows
           /\ Saved(r, s).live = r.live
           /\ Saved(r, s).token = 0
           /\ Saved(r, s).generation = r.generation
           /\ Saved(r, s).result = IF r.generation = s.generation THEN s.result ELSE r.result
BY DEF Saved, Rows, Work

\* A worker at rest holds nothing.
LEMMA IdleType == Idle \in Work /\ Idle.pc = "idle" /\ Idle.result = Blank
BY BlankType DEF Idle, Work

\* What a worker reads of the worktree has its version and its branch.
LEMMA ReadType ==
    ASSUME TreeOK, NEW old \in Snapshots
    PROVE  /\ Read(old) \in Snapshots
           /\ Read(old).version = tree.version
           /\ PullOK(old) => PullOK(Read(old))
BY DEF TreeOK, Read, Snapshots, PullOK

-----------------------------------------------------------------------------
(* Steps *)

\* What a step of a worker that keeps the row does: it goes on with a result
\* that it had or has just read, or it gives up.
Progress(w) ==
    /\ UNCHANGED <<tree, row, ops, acked, removals>>
    /\ faults' \in Nat
    /\ \E s \in Work :
          /\ work' = [work EXCEPT ![w] = s]
          /\ \/ s = Idle
             \/ /\ work[w].pc # "idle"
                /\ s.token = work[w].token /\ s.generation = work[w].generation
                /\ s.result.version \in {work[w].result.version, tree.version}
          /\ PullOK(work[w].result) => PullOK(s.result)

\* Reading the worktree, asking GitHub, failing and crashing are such steps.
LEMMA ProgressSteps ==
    ASSUME TypeOK, NEW w \in Workers, Load(w) \/ Lookup(w) \/ LoadFails(w) \/ Crash(w)
    PROVE  Progress(w)
<1> USE DEF Progress
<1>1. TreeOK /\ work \in [Workers -> Work] /\ faults \in Nat
  BY DEF TypeOK, TreeOK, Work
<1>2. work[w] \in Work /\ work[w].result \in Snapshots
  BY <1>1 DEF Work
<1>3. CASE Load(w)
  <2> DEFINE s == IF tree.state = "ready"
                  THEN [work[w] EXCEPT !.result = Read(work[w].result),
                                       !.pc = IF work[w].remote THEN "lookup" ELSE "save"]
                  ELSE [work[w] EXCEPT !.pc = "save"]
  <2>0. work[w].pc = "load" /\ UNCHANGED <<tree, row, ops, acked, removals, faults>>
    BY <1>3 DEF Load
  <2>1. work' = [work EXCEPT ![w] = s]
    <3>1. CASE tree.state = "ready"
      BY <1>3, <1>1, <3>1 DEF Load
    <3>2. CASE tree.state # "ready"
      BY <1>3, <1>1, <3>2 DEF Load
    <3> QED BY <3>1, <3>2
  <2>2. /\ Read(work[w].result) \in Snapshots /\ Read(work[w].result).version = tree.version
        /\ PullOK(work[w].result) => PullOK(Read(work[w].result))
    BY <1>1, <1>2, ReadType
  <2>3. /\ s \in Work /\ s.token = work[w].token /\ s.generation = work[w].generation
        /\ s.result \in {work[w].result, Read(work[w].result)}
    BY <1>2, <2>2 DEF Work
  <2> HIDE DEF s
  <2> QED BY <1>1, <2>0, <2>1, <2>2, <2>3
<1>4. CASE Lookup(w)
  <2> DEFINE s == IF tree.state = "gone" THEN [work[w] EXCEPT !.pc = "save"]
                  ELSE IF tree.branch = work[w].result.branch
                  THEN [work[w] EXCEPT !.pc = "save", !.remote = FALSE, !.result.pull = tree.branch]
                  ELSE [work[w] EXCEPT !.pc = "save", !.result = Read(Blank)]
  <2>0. work[w].pc = "lookup" /\ UNCHANGED <<tree, row, ops, acked, removals, faults>>
    BY <1>4 DEF Lookup
  <2>1. work' = [work EXCEPT ![w] = s]
    BY <1>4, <1>1 DEF Lookup
  <2>2. /\ Read(Blank) \in Snapshots /\ Read(Blank).version = tree.version
        /\ PullOK(Read(Blank))
    BY <1>1, BlankType, ReadType DEF PullOK
  <2>3. /\ s \in Work /\ s.token = work[w].token /\ s.generation = work[w].generation
        /\ s.result.version \in {work[w].result.version, tree.version}
    BY <1>1, <1>2, <2>2 DEF Work, Snapshots, TreeOK
  <2>4. PullOK(work[w].result) => PullOK(s.result)
    BY <1>1, <1>2, <2>2 DEF Work, Snapshots, TreeOK, PullOK
  <2> HIDE DEF s
  <2> QED BY <1>1, <2>0, <2>1, <2>3, <2>4
<1>5. CASE LoadFails(w)
  <2> DEFINE s == [work[w] EXCEPT !.pc = "save"]
  <2>1. s \in Work /\ s.token = work[w].token /\ s.generation = work[w].generation /\ s.result = work[w].result
    BY <1>2 DEF Work
  <2>2. work' = [work EXCEPT ![w] = s] /\ work[w].pc # "idle"
    BY <1>5, <1>1 DEF LoadFails
  <2>3. UNCHANGED <<tree, row, ops, acked, removals>> /\ faults' \in Nat
    BY <1>1, <1>5 DEF LoadFails
  <2> HIDE DEF s
  <2> QED BY <2>1, <2>2, <2>3
<1>6. CASE Crash(w)
  <2>1. Idle \in Work /\ PullOK(Idle.result)
    BY IdleType, BlankType DEF PullOK
  <2>2. UNCHANGED <<tree, row, ops, acked, removals>> /\ faults' \in Nat
    BY <1>1, <1>6 DEF Crash
  <2>3. work' = [work EXCEPT ![w] = Idle]
    BY <1>6 DEF Crash
  <2> QED BY <2>1, <2>2, <2>3
<1> QED BY <1>3, <1>4, <1>5, <1>6

\* Such a step keeps the invariant.
LEMMA ProgressInv ==
    ASSUME IInv, NEW w \in Workers, Progress(w)
    PROVE  IInv'
<1>1. PICK s \in Work :
          /\ work' = [work EXCEPT ![w] = s]
          /\ \/ s = Idle
             \/ /\ work[w].pc # "idle"
                /\ s.token = work[w].token /\ s.generation = work[w].generation
                /\ s.result.version \in {work[w].result.version, tree.version}
  BY DEF Progress
<1>2. UNCHANGED <<tree, row, ops, acked, removals>> /\ faults' \in Nat
  BY DEF Progress
<1>3. work \in [Workers -> Work] /\ row \in Rows /\ row.result \in Snapshots /\ row.result.version \in Nat
      /\ acked \in Nat /\ tree.version \in Nat /\ ops \in [Operations -> Ops]
  BY DEF IInv, TypeOK, Work, Rows, Ops, Snapshots
<1>4. Idle.pc = "idle" /\ Idle.result.version = 0
  BY IdleType, BlankType
<1>5. TypeOK'
  BY <1>1, <1>2 DEF IInv, TypeOK, Work
<1>6. work'[w] = s /\ \A x \in Workers : x # w => work'[x] = work[x]
  BY <1>1, <1>3
<1>7. Tracked'
  BY <1>1, <1>2, <1>3, <1>4, <1>6 DEF IInv, Tracked
<1>8. Leased'
  BY <1>1, <1>2, <1>3, <1>4, <1>6 DEF IInv, Leased, Holder
<1>9. Floor(tree.version)
  BY <1>3 DEF IInv, Floor, Tracked
<1>10. Counts'
  BY <1>1, <1>2, <1>3, <1>4, <1>6, <1>9 DEF IInv, Counts, Floor, Holder, Current, Tracked
<1> QED BY <1>5, <1>7, <1>8, <1>10 DEF IInv

\* Facts about the state that most steps use.
LEMMA Facts ==
    ASSUME IInv
    PROVE  /\ TreeOK /\ tree.version \in Nat
           /\ row \in Rows /\ row.result \in Snapshots /\ row.result.version \in Nat
           /\ row.generation \in Nat /\ (~row.live => row = NoRow)
           /\ work \in [Workers -> Work]
           /\ \A w \in Workers : work[w] \in Work /\ work[w].result \in Snapshots
                                 /\ work[w].result.version \in Nat /\ work[w].generation \in Nat
           /\ ops \in [Operations -> Ops]
           /\ \A o \in Operations : ops[o] \in Ops /\ ops[o].version \in Nat
           /\ acked \in Nat /\ removals \in Nat /\ faults \in Nat
BY DEF IInv, TypeOK, TreeOK, Work, Rows, Ops, Snapshots

\* The initial states satisfy the invariant.
LEMMA InitInv == Init => IInv
<1> SUFFICES ASSUME Init PROVE IInv
  OBVIOUS
<1>1. TypeOK
  BY NewRowType, IdleType DEF Init, TypeOK, TreeOK, Ops, Work
<1>2. Tracked /\ Leased /\ Counts
  BY NewRowType, IdleType, BlankType DEF Init, Tracked, Leased, Counts, Holder, Current, Floor
<1> QED BY <1>1, <1>2 DEF IInv

\* A row appears or disappears: it has no result, and nobody holds its lease.
LEMMA FreshRowInv ==
    ASSUME IInv, row' \in {NoRow, NewRow}, UNCHANGED <<tree, work, ops, acked, removals, faults>>
    PROVE  IInv'
<1>1. row' \in Rows /\ row'.result.version = 0 /\ row'.token = 0 /\ (~row'.live => row' = NoRow)
  BY NewRowType, BlankType
<1>2. TypeOK'
  BY <1>1, Facts DEF IInv, TypeOK, TreeOK, Work, Ops
<1>3. \A w \in Workers : ~Holder(w)'
  BY <1>1 DEF IInv, Leased, Holder
<1>4. Tracked' /\ Leased' /\ Counts'
  BY <1>1, <1>3, Facts DEF IInv, Tracked, Leased, Counts, Current, Floor
<1> QED BY <1>2, <1>4 DEF IInv

\* The row keeps its result, its generation and its lease.
LEMMA SameResultInv ==
    ASSUME IInv, row' \in Rows, row.live, row'.live, row'.result = row.result, row'.generation = row.generation,
           row'.token = row.token, faults' \in Nat, UNCHANGED <<tree, work, ops, acked, removals>>
    PROVE  IInv'
<1>1. TypeOK'
  BY Facts DEF IInv, TypeOK, TreeOK, Work, Ops
<1>2. Tracked' /\ Leased' /\ Counts'
  BY Facts DEF IInv, Tracked, Leased, Counts, Holder, Current, Floor
<1> QED BY <1>1, <1>2 DEF IInv

\* Only the worktree's state, and nobody's version, changes.
LEMMA SameRowInv ==
    ASSUME IInv, TreeOK', tree'.version = tree.version, removals' \in Nat,
           UNCHANGED <<row, work, ops, acked, faults>>
    PROVE  IInv'
<1>1. TypeOK'
  BY Facts DEF IInv, TypeOK, TreeOK, Work, Ops
<1>2. Tracked' /\ Leased' /\ Counts'
  BY Facts DEF IInv, Tracked, Leased, Counts, Holder, Current, Floor
<1> QED BY <1>1, <1>2 DEF IInv

\* Invalidation disowns whoever is refreshing, so that no result is left that
\* could count, whatever the operation's version is.
LEMMA InvalidatedInv ==
    ASSUME IInv, row' = Invalidated(row), TreeOK', tree'.version = tree.version, ops' \in [Operations -> Ops],
           \A o \in Operations : ops'[o].version = ops[o].version,
           UNCHANGED <<work, acked, removals, faults>>
    PROVE  IInv'
<1>1. row' \in Rows /\ row'.token = row.token /\ row'.live = row.live /\ row'.result.version = 0
      /\ (row.live => row'.generation = row.generation + 1) /\ (~row.live => row' = row)
  BY Facts, InvalidatedType, NewRowType, BlankType
<1>2. TypeOK'
  BY <1>1, Facts DEF IInv, TypeOK, TreeOK, Work, Ops
<1>3. Tracked' /\ Leased'
  BY <1>1, Facts DEF IInv, Tracked, Leased, Holder
<1>4. \A w \in Workers : ~Current(w)'
  BY <1>1, Facts DEF IInv, Leased, Holder, Current
<1>5. Counts'
  BY <1>1, <1>4 DEF Counts, Floor
<1> QED BY <1>2, <1>3, <1>5 DEF IInv

\* An operation changes the worktree: its version moves on.
LEMMA RunGitInv ==
    ASSUME IInv, NEW o \in Operations, NEW b \in Branches, RunGit(o, b)
    PROVE  IInv'
<1>1. /\ TreeOK' /\ tree'.version = tree.version + 1
      /\ UNCHANGED <<row, work, acked, removals, faults>>
  <2>1. tree' = [state |-> tree.state, version |-> tree.version + 1, branch |-> b]
    BY Facts DEF RunGit, TreeOK
  <2> QED BY <2>1, Facts DEF RunGit, TreeOK
<1>2. /\ ops' \in [Operations -> Ops]
      /\ ops'[o].pc = "ran" /\ ops'[o].version = tree'.version
      /\ \A x \in Operations : x # o => ops'[x] = ops[x]
  BY <1>1, Facts DEF RunGit, Ops, TreeOK
<1>3. TypeOK'
  BY <1>1, <1>2, Facts DEF IInv, TypeOK, TreeOK, Work, Ops
<1>4. Tracked' /\ Leased'
  BY <1>1, <1>2, Facts DEF IInv, Tracked, Leased, Holder
<1>5. \A v \in Nat : Floor(v) => Floor(v)'
  BY <1>1, <1>2 DEF Floor
<1>6. Counts'
  BY <1>1, <1>5, Facts DEF IInv, Counts, Holder, Current
<1> QED BY <1>3, <1>4, <1>6 DEF IInv

\* An operation answers: what it did had been invalidated, and is now promised.
LEMMA AnswerInv ==
    ASSUME IInv, NEW o \in Operations, Answer(o) \/ GitFails(o)
    PROVE  IInv'
<1>1. /\ UNCHANGED <<tree, row, work, removals>> /\ faults' \in Nat
      /\ ops' = [ops EXCEPT ![o].pc = "done"]
  BY Facts DEF Answer, GitFails
<1>2. /\ ops' \in [Operations -> Ops]
      /\ ops'[o].pc = "done" /\ ops'[o].version = ops[o].version
      /\ \A x \in Operations : x # o => ops'[x] = ops[x]
  BY <1>1, Facts DEF Ops
<1>3. \/ acked' = acked
      \/ acked' = ops[o].version /\ ops[o].pc = "invalidated"
  BY DEF Answer, GitFails
<1>4. TypeOK'
  BY <1>1, <1>2, <1>3, Facts DEF IInv, TypeOK, TreeOK, Work, Ops
<1>5. Tracked' /\ Leased'
  BY <1>1, <1>2, <1>3, Facts DEF IInv, Tracked, Leased, Holder
<1>6. \A v \in Nat : Floor(v) => Floor(v)'
  BY <1>2, <1>3 DEF Floor
<1>7. Counts'
  BY <1>1, <1>6, Facts DEF IInv, Counts, Holder, Current
<1> QED BY <1>4, <1>5, <1>7 DEF IInv

\* A claim: the lease is the worker's alone, and it starts from the row.
LEMMA ClaimInv ==
    ASSUME IInv, NEW w \in Workers, Claim(w)
    PROVE  IInv'
<1>1. PICK token \in Tokens \ InUse :
          /\ row' = [row EXCEPT !.token = token, !.leased = TRUE]
          /\ work' = [work EXCEPT ![w] = [pc |-> "load", token |-> token, generation |-> row.generation,
                                          result |-> row.result, remote |-> row.remote]]
  BY DEF Claim
<1>2. row.live /\ UNCHANGED <<tree, ops, acked, removals, faults>>
  BY DEF Claim
<1>3. /\ row' \in Rows /\ row'.live /\ row'.token = token /\ row'.generation = row.generation
      /\ row'.result = row.result
  BY <1>1, <1>2, Facts DEF Rows
<1>4. /\ work' \in [Workers -> Work] /\ work'[w].token = token /\ work'[w].generation = row.generation
      /\ work'[w].result = row.result
      /\ \A x \in Workers : x # w => work'[x] = work[x]
  BY <1>1, Facts DEF Work, Rows
<1>5. token # 0 /\ \A x \in Workers : x # w => ~Holder(x)'
  <2>1. token # 0 /\ \A x \in Workers : work[x].token # token
    BY ConstantsAssumption DEF InUse
  <2> QED BY <2>1, <1>3, <1>4 DEF Holder
<1>6. TypeOK'
  BY <1>2, <1>3, <1>4, Facts DEF IInv, TypeOK, TreeOK, Work, Ops
<1>7. Tracked' /\ Leased'
  BY <1>2, <1>3, <1>4, <1>5, Facts DEF IInv, Tracked, Leased, Holder
<1>8. Counts'
  BY <1>2, <1>3, <1>4, <1>5, Facts DEF IInv, Counts, Current, Floor
<1> QED BY <1>6, <1>7, <1>8 DEF IInv

\* A save that counts keeps every promise, and it leaves the lease to nobody.
LEMMA SaveInv ==
    ASSUME IInv, NEW w \in Workers, Save(w)
    PROVE  IInv' /\ (row.live => row'.result.version = 0 \/ row.result.version <= row'.result.version)
<1>1. /\ work[w].pc = "save" /\ work' = [work EXCEPT ![w] = Idle]
      /\ row' = IF Holds(w) THEN Saved(row, work[w]) ELSE row
      /\ UNCHANGED <<tree, ops, acked, removals, faults>>
  BY DEF Save
<1>2. /\ work' \in [Workers -> Work] /\ work'[w].pc = "idle" /\ work'[w].result.version = 0
      /\ \A x \in Workers : x # w => work'[x] = work[x]
  BY <1>1, Facts, IdleType, BlankType
<1>3. CASE ~Holds(w)
  <2>1. UNCHANGED row
    BY <1>1, <1>3
  <2>2. TypeOK'
    BY <1>1, <1>2, <2>1, Facts DEF IInv, TypeOK, TreeOK, Work, Ops
  <2>3. Tracked' /\ Leased' /\ Counts'
    BY <1>1, <1>2, <2>1, Facts DEF IInv, Tracked, Leased, Counts, Holder, Current, Floor
  <2> QED BY <2>1, <2>2, <2>3, Facts DEF IInv
<1>4. CASE Holds(w)
  <2>1. /\ row' \in Rows /\ row'.live /\ row'.token = 0 /\ row'.generation = row.generation
        /\ row'.result = IF row.generation = work[w].generation THEN work[w].result ELSE row.result
    BY <1>1, <1>4, Facts, SavedType DEF Holds
  <2>2. Holder(w)
    BY <1>1, <1>4 DEF Holds, Holder
  <2>3. /\ Floor(row'.result.version) /\ row'.result.version <= tree.version
        /\ row'.result.version = 0 \/ row.result.version <= row'.result.version
    BY <2>1, <2>2, Facts DEF IInv, Counts, Current, Tracked
  <2>4. \A x \in Workers : ~Holder(x)'
    BY <1>2, <2>1 DEF IInv, Leased, Holder
  <2>5. TypeOK'
    BY <1>1, <1>2, <2>1, Facts DEF IInv, TypeOK, TreeOK, Work, Ops
  <2>6. Tracked' /\ Leased' /\ Counts'
    BY <1>1, <1>2, <2>3, <2>4, Facts DEF IInv, Tracked, Leased, Counts, Current, Floor
  <2> QED BY <2>3, <2>5, <2>6 DEF IInv
<1> QED BY <1>3, <1>4

\* What else happens to the row: it is created, removed, due again, or its
\* lease is over.
LEMMA RowStepInv ==
    ASSUME IInv, TouchRow \/ PruneRow \/ RefreshDue \/ ExpireLease
    PROVE  IInv'
<1>1. CASE TouchRow
  BY <1>1, FreshRowInv DEF TouchRow
<1>2. CASE PruneRow
  BY <1>2, FreshRowInv DEF PruneRow
<1>3. CASE RefreshDue
  <2>1. /\ row' \in Rows /\ row.live /\ row'.live /\ row'.result = row.result
        /\ row'.generation = row.generation /\ row'.token = row.token
        /\ UNCHANGED <<tree, work, ops, acked, removals, faults>>
    BY <1>3, Facts DEF RefreshDue, Rows
  <2> QED BY <2>1, SameResultInv, Facts
<1>4. CASE ExpireLease
  <2>1. /\ row' \in Rows /\ row.live /\ row'.live /\ row'.result = row.result
        /\ row'.generation = row.generation /\ row'.token = row.token
        /\ UNCHANGED <<tree, work, ops, acked, removals>>
    BY <1>4, Facts DEF ExpireLease, Rows
  <2>2. faults' \in Nat
    BY <1>4, Facts DEF ExpireLease
  <2> QED BY <2>1, <2>2, SameResultInv
<1> QED BY <1>1, <1>2, <1>3, <1>4

\* The removal of the worktree, and an operation's invalidation.
LEMMA TreeStepInv ==
    ASSUME IInv,
           BeginRemove \/ (\E removed \in BOOLEAN : EndRemove(removed))
              \/ (\E o \in Operations : InvalidateSnapshots(o))
    PROVE  IInv'
<1>1. CASE BeginRemove
  <2>1. TreeOK' /\ tree'.version = tree.version
    BY <1>1, Facts DEF BeginRemove, TreeOK
  <2>2. removals' \in Nat /\ UNCHANGED <<row, work, ops, acked, faults>>
    BY <1>1, Facts DEF BeginRemove
  <2> QED BY <2>1, <2>2, SameRowInv
<1>2. ASSUME NEW removed \in BOOLEAN, EndRemove(removed) PROVE IInv'
  <2>1. TreeOK' /\ tree'.version = tree.version
    BY <1>2, Facts DEF EndRemove, TreeOK
  <2>2. /\ UNCHANGED <<work, ops, acked, removals, faults>>
        /\ row' = IF removed THEN Invalidated(row) ELSE row
    BY <1>2 DEF EndRemove
  <2>3. CASE removed
    BY <2>1, <2>2, <2>3, Facts, InvalidatedInv
  <2>4. CASE ~removed
    BY <2>1, <2>2, <2>4, Facts, SameRowInv
  <2> QED BY <2>3, <2>4
<1>3. ASSUME NEW o \in Operations, InvalidateSnapshots(o) PROVE IInv'
  <2>1. UNCHANGED <<tree, work, acked, removals, faults>> /\ row' = Invalidated(row)
    BY <1>3 DEF InvalidateSnapshots
  <2>2. ops' \in [Operations -> Ops] /\ \A x \in Operations : ops'[x].version = ops[x].version
    BY <1>3, Facts DEF InvalidateSnapshots, Ops
  <2>3. TreeOK' /\ tree'.version = tree.version
    BY <2>1, Facts DEF TreeOK
  <2> QED BY <2>1, <2>2, <2>3, InvalidatedInv
<1> QED BY <1>1, <1>2, <1>3

\* Every step keeps the invariant.
LEMMA StepInv == IInv /\ [Next]_vars => IInv'
<1> SUFFICES ASSUME IInv, [Next]_vars PROVE IInv'
  OBVIOUS
<1>1. CASE UNCHANGED vars
  <2>1. UNCHANGED <<tree, row, work, ops, acked, removals, faults>>
    BY <1>1 DEF vars
  <2>2. TypeOK'
    BY <2>1 DEF IInv, TypeOK
  <2>3. Tracked' /\ Leased' /\ Counts'
    BY <2>1 DEF IInv, Tracked, Leased, Counts, Holder, Current, Floor
  <2> QED BY <2>2, <2>3 DEF IInv
<1>2. CASE TouchRow \/ PruneRow \/ RefreshDue \/ ExpireLease
  BY <1>2, RowStepInv
<1>3. CASE BeginRemove \/ (\E removed \in BOOLEAN : EndRemove(removed))
  BY <1>3, TreeStepInv
<1>4. ASSUME NEW o \in Operations,
             InvalidateSnapshots(o) \/ Answer(o) \/ GitFails(o) \/ \E b \in Branches : RunGit(o, b)
      PROVE  IInv'
  BY <1>4, TreeStepInv, AnswerInv, RunGitInv
<1>5. ASSUME NEW w \in Workers, Refresh(w) \/ LoadFails(w) \/ Crash(w) PROVE IInv'
  <2>1. CASE Claim(w)
    BY <2>1, ClaimInv
  <2>2. CASE Load(w) \/ Lookup(w) \/ LoadFails(w) \/ Crash(w)
    BY <2>2, ProgressSteps, ProgressInv DEF IInv
  <2>3. CASE Save(w)
    BY <2>3, SaveInv
  <2> QED BY <1>5, <2>1, <2>2, <2>3 DEF Refresh
<1> QED BY <1>1, <1>2, <1>3, <1>4, <1>5 DEF Next

-----------------------------------------------------------------------------

\* The variables keep their types, and an absent row has no content.
THEOREM TypeCorrect == Spec => []TypeOK
<1>1. IInv => TypeOK
  BY DEF IInv
<1> QED BY <1>1, InitInv, StepInv, PTL DEF Spec

\* A status request is never served from a snapshot that was read before an
\* operation that has answered, by any number of workers and operations, with
\* leases that end under their workers and rows that come and go.
THEOREM NeverServesStale == Spec => []NeverStale
<1>1. IInv => NeverStale
  BY Facts DEF IInv, Counts, Floor, NeverStale
<1> QED BY <1>1, InitInv, StepInv, PTL DEF Spec

\* A snapshot is never replaced by an older one.
THEOREM NeverGoesBack == Spec => NeverBack
<1> DEFINE Newer == row.live /\ row'.live /\ row.result.version # 0 /\ row'.result.version # 0 =>
                        row'.result.version >= row.result.version
<1>1. ASSUME IInv, [Next]_vars PROVE [Newer]_vars
  <2> SUFFICES ASSUME Next PROVE Newer
    BY <1>1
  <2>1. CASE TouchRow \/ PruneRow
    BY <2>1, NewRowType DEF TouchRow, PruneRow
  <2>2. CASE RefreshDue \/ ExpireLease
    <3>1. row'.result = row.result
      BY <2>2, <1>1, Facts DEF RefreshDue, ExpireLease, Rows
    <3> QED BY <3>1, <1>1, Facts
  <2>3. CASE BeginRemove \/ (\E removed \in BOOLEAN : EndRemove(removed))
    BY <2>3, <1>1, Facts, InvalidatedType, BlankType DEF BeginRemove, EndRemove
  <2>4. ASSUME NEW o \in Operations,
               InvalidateSnapshots(o) \/ Answer(o) \/ GitFails(o) \/ \E b \in Branches : RunGit(o, b)
        PROVE  Newer
    <3>1. row' \in {row, Invalidated(row)}
      BY <2>4 DEF InvalidateSnapshots, Answer, GitFails, RunGit
    <3> QED BY <3>1, <1>1, Facts, InvalidatedType, BlankType
  <2>5. ASSUME NEW w \in Workers, Refresh(w) \/ LoadFails(w) \/ Crash(w) PROVE Newer
    <3>1. CASE Claim(w)
      BY <3>1, <1>1, Facts DEF Claim, Rows
    <3>2. CASE Load(w) \/ Lookup(w) \/ LoadFails(w) \/ Crash(w)
      BY <3>2, <1>1, Facts DEF Load, Lookup, LoadFails, Crash
    <3>3. CASE Save(w)
      BY <3>3, <1>1, SaveInv, Facts
    <3> QED BY <2>5, <3>1, <3>2, <3>3 DEF Refresh
  <2> QED BY <2>1, <2>2, <2>3, <2>4, <2>5 DEF Next
<1> QED BY <1>1, InitInv, StepInv, PTL DEF Spec, NeverBack

\* Whatever becomes of the row, its result is the one it had, none, or one a
\* worker had.
LEMMA RowResult ==
    ASSUME TypeOK, [Next]_vars
    PROVE  \/ row'.result \in {row.result, Blank}
           \/ \E w \in Workers : row'.result = work[w].result
<1>0. row \in Rows /\ (~row.live => row = NoRow) /\ \A w \in Workers : work[w] \in Work
  BY DEF TypeOK, Work
<1>1. CASE UNCHANGED vars
  BY <1>1 DEF vars
<1>2. CASE TouchRow \/ PruneRow
  BY <1>2, NewRowType DEF TouchRow, PruneRow
<1>3. CASE RefreshDue \/ ExpireLease
  BY <1>3, <1>0 DEF RefreshDue, ExpireLease, Rows
<1>4. CASE BeginRemove \/ (\E removed \in BOOLEAN : EndRemove(removed))
  <2>1. row' \in {row, Invalidated(row)}
    BY <1>4 DEF BeginRemove, EndRemove
  <2> QED BY <1>0, <2>1, InvalidatedType
<1>5. ASSUME NEW o \in Operations,
             InvalidateSnapshots(o) \/ Answer(o) \/ GitFails(o) \/ \E b \in Branches : RunGit(o, b)
      PROVE  row'.result \in {row.result, Blank}
  <2>1. row' \in {row, Invalidated(row)}
    BY <1>5 DEF InvalidateSnapshots, Answer, GitFails, RunGit
  <2> QED BY <1>0, <2>1, InvalidatedType
<1>6. ASSUME NEW w \in Workers, Refresh(w) \/ LoadFails(w) \/ Crash(w)
      PROVE  row'.result \in {row.result, work[w].result}
  <2>1. CASE Claim(w)
    BY <2>1, <1>0 DEF Claim, Rows
  <2>2. CASE Load(w) \/ Lookup(w) \/ LoadFails(w) \/ Crash(w)
    BY <2>2 DEF Load, Lookup, LoadFails, Crash
  <2>3. CASE Save(w)
    <3>1. row' \in {row, Saved(row, work[w])}
      BY <2>3 DEF Save
    <3> QED BY <1>0, <3>1, SavedType
  <2> QED BY <1>6, <2>1, <2>2, <2>3 DEF Refresh
<1> QED BY <1>1, <1>2, <1>3, <1>4, <1>5, <1>6 DEF Next

\* Whatever a worker does, the pull request it has is that of its branch.
LEMMA WorkResult ==
    ASSUME TypeOK, Pulls, [Next]_vars, NEW x \in Workers
    PROVE  PullOK(work'[x].result)
<1>0. work \in [Workers -> Work] /\ PullOK(work[x].result) /\ PullOK(row.result) /\ PullOK(Idle.result)
  BY IdleType, BlankType DEF TypeOK, Work, Pulls, PullOK
<1>1. CASE UNCHANGED work
  BY <1>0, <1>1
<1>2. ASSUME NEW w \in Workers, Refresh(w) \/ LoadFails(w) \/ Crash(w)
      PROVE  PullOK(work'[x].result)
  <2>1. CASE x # w
    <3>1. work'[x] = work[x]
      BY <1>0, <1>2, <2>1 DEF Refresh, Claim, Load, Lookup, Save, LoadFails, Crash
    <3> QED BY <1>0, <3>1
  <2>2. CASE x = w /\ Claim(w)
    <3>1. work'[w].result = row.result
      BY <1>0, <2>2 DEF Claim
    <3> QED BY <1>0, <2>2, <3>1
  <2>3. CASE x = w /\ Save(w)
    <3>1. work'[w] = Idle
      BY <1>0, <2>3 DEF Save
    <3> QED BY <1>0, <2>3, <3>1
  <2>4. CASE x = w /\ (Load(w) \/ Lookup(w) \/ LoadFails(w) \/ Crash(w))
    <3>1. PICK s \in Work : work' = [work EXCEPT ![w] = s] /\ (PullOK(work[w].result) => PullOK(s.result))
      BY <2>4, ProgressSteps DEF Progress
    <3> QED BY <1>0, <2>4, <3>1
  <2> QED BY <1>2, <2>1, <2>2, <2>3, <2>4 DEF Refresh
<1>3. ASSUME NEW o \in Operations,
             InvalidateSnapshots(o) \/ Answer(o) \/ GitFails(o) \/ \E b \in Branches : RunGit(o, b)
      PROVE  UNCHANGED work
  BY <1>3 DEF InvalidateSnapshots, Answer, GitFails, RunGit
<1>4. CASE TouchRow \/ PruneRow \/ BeginRemove \/ RefreshDue \/ ExpireLease
           \/ \E removed \in BOOLEAN : EndRemove(removed)
  BY <1>4, <1>1 DEF TouchRow, PruneRow, BeginRemove, RefreshDue, ExpireLease, EndRemove
<1>5. CASE UNCHANGED vars
  BY <1>5, <1>1 DEF vars
<1> QED BY <1>1, <1>2, <1>3, <1>4, <1>5 DEF Next

\* The pull request a snapshot shows is that of the branch it shows, although
\* branch and pull request are read at different times and from different
\* places.
THEOREM ShowsPullOfBranch == Spec => []PullOfBranch
<1>1. Init => Pulls
  BY NewRowType, IdleType, BlankType DEF Init, Pulls, PullOK
<1>2. TypeOK /\ Pulls /\ [Next]_vars => Pulls'
  <2> SUFFICES ASSUME TypeOK, Pulls, [Next]_vars PROVE Pulls'
    OBVIOUS
  <2>1. PullOK(row'.result)
    BY RowResult, BlankType DEF Pulls, PullOK
  <2>2. \A x \in Workers : PullOK(work'[x].result)
    BY WorkResult
  <2> QED BY <2>1, <2>2 DEF Pulls, PullOK
<1>3. Pulls => PullOfBranch
  BY DEF Pulls, PullOK, PullOfBranch
<1> QED BY <1>1, <1>2, <1>3, TypeCorrect, PTL DEF Spec
=============================================================================
