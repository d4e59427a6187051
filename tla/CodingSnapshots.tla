--------------------------- MODULE CodingSnapshots ---------------------------
(***************************************************************************)
(* The cached status of one coding worktree: a row of coding_snapshots     *)
(* that workers refresh under a lease, that Git operations of the gateway  *)
(* invalidate before they answer, and that status requests are served      *)
(* from.                                                                   *)
(*                                                                         *)
(* version counts what the gateway's operations did to the worktree.  A    *)
(* snapshot is what a worker read of it: that version, the branch, and the *)
(* branch whose pull request it shows.  The lease's end, a timestamp, is a *)
(* token no two claims share; the least one not in use suffices to tell    *)
(* claims apart.  The moments at which a row is due and at which its lease *)
(* is over are steps of their own.                                         *)
(***************************************************************************)
EXTENDS Integers, FiniteSets

CONSTANTS
    Workers,     \* goroutines that refresh, of all gateway processes
    Operations,  \* Git operations requested
    Branches,
    NoBranch,
    Tokens,      \* ends of leases, as timestamps
    MaxRemovals, \* requests to remove the worktree
    MaxFaults    \* failed calls, crashed workers and expired leases

ASSUME ConstantsAssumption ==
    /\ NoBranch \notin Branches
    /\ Tokens \subseteq Nat \ {0}
    /\ {MaxRemovals, MaxFaults} \subseteq Nat

VARIABLES
    tree,      \* the worktree: [state, version, branch]
    row,       \* its row in coding_snapshots
    work,      \* what each worker is doing
    ops,       \* the operations
    acked,     \* the latest version an operation reported as done
    removals,
    faults

vars == <<tree, row, work, ops, acked, removals, faults>>

-----------------------------------------------------------------------------
(* Rows *)

Snapshots == [version : Nat, branch : Branches \cup {NoBranch}, pull : Branches \cup {NoBranch}]

\* '{}': its revision is empty, and status requests read the worktree instead.
Blank == [version |-> 0, branch |-> NoBranch, pull |-> NoBranch]

Rows == [live : BOOLEAN, result : Snapshots, generation : Nat, token : Tokens \cup {0},
         leased : BOOLEAN, due : BOOLEAN, remote : BOOLEAN]

NoRow == [live |-> FALSE, result |-> Blank, generation |-> 0, token |-> 0,
          leased |-> FALSE, due |-> FALSE, remote |-> FALSE]

\* due: next_refresh has come; remote: next_remote has.
NewRow == [NoRow EXCEPT !.live = TRUE, !.due = TRUE, !.remote = TRUE]

\* Mutant: the result is cleared, a refresh under way is not disowned.
InvalidatedOnce(r) == IF r.live THEN [r EXCEPT !.result = Blank, !.due = TRUE, !.remote = TRUE] ELSE r

\* GatewayInvalidateCodingSnapshots
Invalidated(r) ==
    IF r.live
    THEN [r EXCEPT !.result = Blank, !.generation = @ + 1, !.due = TRUE, !.remote = TRUE]
    ELSE r

-----------------------------------------------------------------------------
(* Status requests and the housekeeper *)

\* GatewayTouchCodingSnapshot and GatewaySeedCodingSnapshots: the row is
\* inserted unless it exists.  A status request may have found the worktree
\* before its removal began.
TouchRow ==
    /\ ~row.live
    /\ tree.state # "gone"
    /\ row' = NewRow
    /\ UNCHANGED <<tree, work, ops, acked, removals, faults>>

\* GatewayPruneCodingSnapshots
PruneRow ==
    /\ row.live
    /\ tree.state # "ready"
    /\ row' = NoRow
    /\ UNCHANGED <<tree, work, ops, acked, removals, faults>>

-----------------------------------------------------------------------------
(* Operations on the worktree *)

\* Git changes the worktree.
RunGit(o, b) ==
    /\ ops[o].pc = "start"
    /\ tree.state = "ready"
    /\ tree' = [tree EXCEPT !.version = @ + 1, !.branch = b]
    /\ ops' = [ops EXCEPT ![o] = [pc |-> "ran", version |-> tree'.version]]
    /\ UNCHANGED <<row, work, acked, removals, faults>>

InvalidateSnapshots(o) ==
    /\ ops[o].pc = "ran"
    /\ row' = Invalidated(row)
    /\ ops' = [ops EXCEPT ![o].pc = "invalidated"]
    /\ UNCHANGED <<tree, work, acked, removals, faults>>

Answer(o) ==
    /\ ops[o].pc = "invalidated"
    /\ acked' = IF ops[o].version > acked THEN ops[o].version ELSE acked
    /\ ops' = [ops EXCEPT ![o].pc = "done"]
    /\ UNCHANGED <<tree, row, work, removals, faults>>

\* The worktree changed, but the call failed: an error is answered.
GitFails(o) ==
    /\ ops[o].pc = "ran"
    /\ faults < MaxFaults
    /\ faults' = faults + 1
    /\ ops' = [ops EXCEPT ![o].pc = "done"]
    /\ UNCHANGED <<tree, row, work, acked, removals>>

\* CodingGitRemove, under the project's lock: the worktree is marked, and
\* either goes, with its row invalidated, or is unmarked.  Where the handler
\* dies, or a call after the checkout went fails, the mark stays: then only
\* another removal request ends it, if anybody makes one.
BeginRemove ==
    /\ tree.state = "ready"
    /\ removals < MaxRemovals
    /\ removals' = removals + 1
    /\ tree' = [tree EXCEPT !.state = "deleting"]
    /\ UNCHANGED <<row, work, ops, acked, faults>>

EndRemove(removed) ==
    /\ tree.state = "deleting"
    /\ tree' = [tree EXCEPT !.state = IF removed THEN "gone" ELSE "ready"]
    /\ row' = IF removed THEN Invalidated(row) ELSE row
    /\ UNCHANGED <<work, ops, acked, removals, faults>>

-----------------------------------------------------------------------------
(* Workers *)

\* token and generation: of the row as claimed; remote: GitHub is to be asked.
Idle == [pc |-> "idle", token |-> 0, generation |-> 0, result |-> Blank, remote |-> FALSE]

InUse == {row.token} \cup {work[w].token : w \in Workers}

\* GatewayClaimCodingSnapshot
Claim(w) ==
    /\ work[w].pc = "idle"
    /\ row.live /\ row.due /\ ~row.leased
    /\ \E token \in Tokens \ InUse :
          /\ \A t \in Tokens \ InUse : token <= t
          /\ row' = [row EXCEPT !.token = token, !.leased = TRUE]
          /\ work' = [work EXCEPT ![w] = [pc |-> "load", token |-> token, generation |-> row.generation,
                                          result |-> row.result, remote |-> row.remote]]
    /\ UNCHANGED <<tree, ops, acked, removals, faults>>

\* The worktree's status, with the pull request that is known for its branch.
Read(old) ==
    [version |-> tree.version, branch |-> tree.branch,
     pull |-> IF old.branch = tree.branch THEN old.pull ELSE NoBranch]

\* loadCodingSnapshot reads the worktree, unless it is being removed.
Load(w) ==
    /\ work[w].pc = "load"
    /\ work' = [work EXCEPT ![w] =
                   IF tree.state = "ready"
                   THEN [@ EXCEPT !.result = Read(work[w].result),
                                  !.pc = IF work[w].remote THEN "lookup" ELSE "save"]
                   ELSE [@ EXCEPT !.pc = "save"]]
    /\ UNCHANGED <<tree, row, ops, acked, removals, faults>>

\* GitHub was asked for the pull request of the branch that was read; the
\* branch is read again, and the answer dropped if it is another one.
Lookup(w) ==
    /\ work[w].pc = "lookup"
    /\ work' = [work EXCEPT ![w] =
                   IF tree.state = "gone" THEN [@ EXCEPT !.pc = "save"]
                   ELSE IF tree.branch = @.result.branch
                   THEN [@ EXCEPT !.pc = "save", !.remote = FALSE, !.result.pull = tree.branch]
                   ELSE [@ EXCEPT !.pc = "save", !.result = Read(Blank)]]
    /\ UNCHANGED <<tree, row, ops, acked, removals, faults>>

\* A call fails: what is known so far is saved, and GitHub is asked next time.
LoadFails(w) ==
    /\ work[w].pc \in {"load", "lookup"}
    /\ faults < MaxFaults
    /\ faults' = faults + 1
    /\ work' = [work EXCEPT ![w].pc = "save"]
    /\ UNCHANGED <<tree, row, ops, acked, removals>>

\* GatewaySaveCodingSnapshot: the lease ends; the result counts only if the
\* row was not invalidated since it was claimed.
Saved(r, s) ==
    IF r.generation = s.generation
    THEN [r EXCEPT !.token = 0, !.leased = FALSE, !.result = s.result, !.due = FALSE, !.remote = s.remote]
    ELSE [r EXCEPT !.token = 0, !.leased = FALSE, !.due = TRUE, !.remote = TRUE]

\* Mutant: any worker may save.
HoldsAny(w) == row.live

\* WHERE lease_until = @lease_until
Holds(w) == row.live /\ row.token = work[w].token

Save(w) ==
    /\ work[w].pc = "save"
    /\ row' = IF Holds(w) THEN Saved(row, work[w]) ELSE row
    /\ work' = [work EXCEPT ![w] = Idle]
    /\ UNCHANGED <<tree, ops, acked, removals, faults>>

\* A worker is gone, and its lease stays until it is over.
Crash(w) ==
    /\ work[w].pc # "idle"
    /\ faults < MaxFaults
    /\ faults' = faults + 1
    /\ work' = [work EXCEPT ![w] = Idle]
    /\ UNCHANGED <<tree, row, ops, acked, removals>>

-----------------------------------------------------------------------------
(* Time *)

\* The minute, or the backoff, is over; GitHub has a pace of its own.
RefreshDue ==
    /\ row.live /\ ~row.due
    /\ \E remote \in {row.remote, TRUE} : row' = [row EXCEPT !.due = TRUE, !.remote = remote]
    /\ UNCHANGED <<tree, work, ops, acked, removals, faults>>

\* Mutant: a lease that nobody gave back is never over.
ExpireNever == FALSE /\ UNCHANGED vars

\* The lease is over, whether or not its worker still runs.
ExpireLease ==
    /\ row.live /\ row.leased
    /\ \/ UNCHANGED faults /\ \A w \in Workers : ~Holds(w)
       \/ faults < MaxFaults /\ faults' = faults + 1
    /\ row' = [row EXCEPT !.leased = FALSE]
    /\ UNCHANGED <<tree, work, ops, acked, removals>>

-----------------------------------------------------------------------------

Init ==
    /\ \E b \in Branches : tree = [state |-> "ready", version |-> 1, branch |-> b]
    /\ row = NoRow
    /\ work = [w \in Workers |-> Idle]
    /\ ops = [o \in Operations |-> [pc |-> "start", version |-> 0]]
    /\ acked = 0
    /\ removals = 0
    /\ faults = 0

Refresh(w) == Claim(w) \/ Load(w) \/ Lookup(w) \/ Save(w)

Next ==
    \/ TouchRow \/ PruneRow \/ BeginRemove \/ RefreshDue \/ ExpireLease
    \/ \E removed \in BOOLEAN : EndRemove(removed)
    \/ \E o \in Operations :
          InvalidateSnapshots(o) \/ Answer(o) \/ GitFails(o) \/ \E b \in Branches : RunGit(o, b)
    \/ \E w \in Workers : Refresh(w) \/ LoadFails(w) \/ Crash(w)

Spec == Init /\ [][Next]_vars

\* GatewaySeedCodingSnapshots, which leaves a marked worktree alone.
SeedRow == tree.state = "ready" /\ TouchRow

\* The housekeeper and the workers run on tickers, leases end and rows become
\* due.  Requests, a removal that has begun among them, promise nothing.
Fairness ==
    /\ WF_vars(SeedRow) /\ WF_vars(RefreshDue) /\ WF_vars(ExpireLease)
    /\ \A w \in Workers : WF_vars(Refresh(w))

FairSpec == Spec /\ Fairness

-----------------------------------------------------------------------------
(* Properties *)

\* The variables are well formed, and a row that is absent has no content.
TypeOK ==
    /\ tree \in [state : {"ready", "deleting", "gone"}, version : Nat, branch : Branches]
    /\ row \in Rows
    /\ ~row.live => row = NoRow
    /\ work \in [Workers -> [pc : {"idle", "load", "lookup", "save"}, token : Tokens \cup {0}, generation : Nat,
                             result : Snapshots, remote : BOOLEAN]]
    /\ ops \in [Operations -> [pc : {"start", "ran", "invalidated", "done"}, version : Nat]]
    /\ acked \in Nat
    /\ removals \in Nat /\ faults \in Nat

\* Once an operation answered, no status request is served from a snapshot
\* that was read before that operation changed the worktree: not by a refresh
\* that was under way, nor by one whose lease or whose row was lost meanwhile.
NeverStale == row.result.version # 0 => row.result.version >= acked

\* The pull request a snapshot shows is that of the branch it shows.
PullOfBranch == row.result.pull \in {NoBranch, row.result.branch}

\* An older snapshot never replaces a newer one.
NeverBack ==
    [][row.live /\ row'.live /\ row.result.version # 0 /\ row'.result.version # 0 =>
           row'.result.version >= row.result.version]_vars

Versions == 1 .. Cardinality(Operations) + 1

\* The worktree is neither removed nor left marked for ever.
Kept == []<>(tree.state = "ready")

\* What an operation did to a worktree that is kept reaches its snapshot,
\* although workers crash, reads fail, leases are lost, and a removal that is
\* given up prunes the row.
CatchesUp ==
    Kept => \A n \in Versions : acked >= n ~> row.result.version >= n
=============================================================================
