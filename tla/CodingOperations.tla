-------------------------- MODULE CodingOperations --------------------------
(***************************************************************************)
(* Background Git operations on ONE project with one checkout: commit,     *)
(* push, pull, fetch, pull request, naming of the temporary branch.        *)
(*                                                                         *)
(* Code: internal/gateway/operations.go, the coding_operations statements  *)
(* of db/query.sql, and the Git operations of filesystem/git.go that the   *)
(* worker calls.  Four workers per replica claim rows, hold a lease that a *)
(* heartbeat renews, and serialise on the project's advisory lock.  The    *)
(* agent and its terminals run Git in the same checkout without the lock,  *)
(* and others push to GitHub.  One action is one statement or one call.    *)
(*                                                                         *)
(* A commit is the sequence of its ancestors and itself, each as           *)
(* [tree, by]; << >> is the empty object name of the code.                 *)
(***************************************************************************)
EXTENDS Naturals, Sequences, SequencesExt

CONSTANTS
    Workers,       \* goroutines of runCoding, of all replicas
    None,          \* nobody holds the project lock
    MaxOps,        \* bound: operations requested
    Actions,       \* actions people request
    Staged,        \* subset of BOOLEAN: requests with an expected_tree
    Feature,       \* subset of BOOLEAN: requests with feature_branch
    MaxEdits,      \* bound: Git commands and edits of the agent
    MaxPushes,     \* bound: pushes of others to GitHub
    MaxFaults,     \* bound: errors, timeouts, crashes, missed heartbeats
    MaxLosses      \* bound: lost lock connections

CommitActions == {"commit", "commit_push", "commit_push_pr"}
PRActions == {"create_pr", "commit_push_pr"}
PushActions == PRActions \cup {"push", "commit_push"}
FetchActions == {"fetch", "pull"}
AllActions == CommitActions \cup PushActions \cup FetchActions \cup {"name_branch"}

ASSUME NoWorkerAssumption == None \notin Workers
ASSUME LimitsAssumption ==
    /\ MaxOps \in Nat /\ MaxEdits \in Nat /\ MaxPushes \in Nat
    /\ MaxFaults \in Nat /\ MaxLosses \in Nat
ASSUME RequestAssumption ==
    Actions \subseteq AllActions /\ Staged \subseteq BOOLEAN
    /\ Feature \subseteq BOOLEAN

Ops == 1 .. MaxOps
\* The default branch, the temporary one of a new checkout, the name suggested
\* for a feature branch, and that of name_branch with its first free suffix.
Branch == {"main", "chore", "topic", "title"}

Open == {"queued", "running"}
Terminal == {"succeeded", "failed", "interrupted"}
OpStates == {"absent", "pruned"} \cup Open \cup Terminal

\* The next call of a worker.  Those of Calls change the checkout or GitHub;
\* a call that was given up may still take effect (late).
Calls == {"branch", "import", "add", "update", "push", "open", "rename"}
\* A local call has changed the checkout; the status it returns is read next.
Answers == {"branched", "added", "updated", "renamed"}
\* A local call first reads the status; the agent may act before its change.
Before == [creating |-> "branch", importing |-> "import", renaming |-> "rename"]
PCs == Calls \cup Answers \cup DOMAIN Before \cup
       {"idle", "prepare", "lock", "check", "feature", "row", "fetch", "stage",
        "review", "export", "apply", "committed", "remote", "ship", "pushed",
        "pulls", "verify", "name", "namelock", "reread", "final"}

VARIABLES
    st,        \* coding_operations.result.state
    lease,     \* "none", "live" (lease_until > now()) or "expired"
    req,       \* coding_operations.request
    told,      \* the outcome in coding_operations.result
    pc, job,   \* next call of a worker, and its operation
    at,        \* its variable `current', with what it read from the remote
    out,       \* its variable `result'
    err,       \* executeCodingOperation returned an error
    lock,      \* holder of the exclusive project lock
    late,      \* calls whose caller gave up and that may still happen
    branch, index, work,   \* HEAD, staged tree and files of the checkout
    ref, track,            \* refs/heads and refs/remotes/origin
    named,     \* coding_worktrees.branch
    shared,    \* coding_worktrees.shared
    remote,    \* branches at GitHub
    landed,    \* history: every commit that was a branch tip at GitHub
    prs,       \* branches with an open pull request
    edits, pushes, faults, losses

rowVars == <<st, lease, req, told>>
workerVars == <<pc, job, at, out, err, lock>>
checkout == <<branch, index, work, ref, track, named, shared>>
github == <<remote, landed, prs>>
budgets == <<edits, pushes, faults, losses>>
vars == <<rowVars, workerVars, late, checkout, github, budgets>>

-----------------------------------------------------------------------------
Entry(t, b) == [tree |-> t, by |-> b]
Other == 0                 \* `by' of a commit that no operation made
Root == <<Entry(0, Other)>>
TreeOf(c) == IF c = << >> THEN 0 ELSE Last(c).tree

Tip == ref[branch]
\* The digest of readStatus: HEAD, the staged tree, and the files that differ.
Revision == <<Tip, index, work>>
Dirty == index # TreeOf(Tip) \/ work # TreeOf(Tip)

NoRefs == [b \in Branch |-> << >>]

\* readStatus and the remote part of the result of runGit.
Status == [branch |-> branch, head |-> Tip, tree |-> index,
           revision |-> Revision, dirty |-> Dirty, remote |-> track[branch],
           refs |-> NoRefs, sha |-> << >>]

NoOutcome == [commit |-> << >>, pushed |-> FALSE, pr |-> FALSE]
Nothing == [branch |-> "main", head |-> << >>, tree |-> 0,
            revision |-> << << >>, 0, 0>>, dirty |-> FALSE, remote |-> << >>,
            refs |-> NoRefs, sha |-> << >>]
NoRequest == [action |-> "fetch", branch |-> "main", head |-> << >>,
              revision |-> << << >>, 0, 0>>, tree |-> 0, staged |-> FALSE,
              feature |-> FALSE]

Init ==
    /\ st = [o \in Ops |-> "absent"]
    /\ lease = [o \in Ops |-> "none"]
    /\ req = [o \in Ops |-> NoRequest]
    /\ told = [o \in Ops |-> NoOutcome]
    /\ pc = [w \in Workers |-> "idle"]
    /\ job = [w \in Workers |-> 0]
    /\ at = [w \in Workers |-> Nothing]
    /\ out = [w \in Workers |-> NoOutcome]
    /\ err = [w \in Workers |-> FALSE]
    /\ lock = None
    /\ late = {}
    /\ shared \in BOOLEAN
    /\ branch = IF shared THEN "main" ELSE "chore"
    /\ named = branch
    /\ index = 0
    /\ work \in {0, 1}
    /\ ref = [b \in Branch |-> IF b \in {"main", branch} THEN Root ELSE << >>]
    /\ track = [b \in Branch |-> IF b = "main" THEN Root ELSE << >>]
    /\ remote = track
    /\ landed = {Root}
    /\ prs = {}
    /\ edits = 0 /\ pushes = 0 /\ faults = 0 /\ losses = 0

-----------------------------------------------------------------------------
(***************************************************************************)
(* Rows.                                                                   *)
(***************************************************************************)
\* StartCodingOperation: the request names what the person reviewed.  The
\* insert ignores an id it knows, so a repeated request changes nothing.
Start(o, a, s, f) ==
    /\ IF st[o] = "absent"
       THEN /\ \A q \in 1 .. o - 1 : st[q] # "absent"
            /\ st' = [st EXCEPT ![o] = "queued"]
            /\ req' = [req EXCEPT ![o] =
                         [action |-> a, branch |-> branch, head |-> Tip,
                          revision |-> Revision, tree |-> index,
                          staged |-> s, feature |-> f]]
       ELSE /\ <<a, s, f>> = <<req[o].action, req[o].staged, req[o].feature>>
            /\ UNCHANGED <<st, req>>
    /\ UNCHANGED <<lease, told, workerVars, late, checkout, github, budgets>>

\* GatewayClaimCodingOperation.  A row locked by a repeated request is
\* skipped, so any queued row may be next; the partial unique index keeps a
\* second row of the project from running.
Claim(w, o) ==
    /\ pc[w] = "idle"
    /\ st[o] = "queued"
    /\ \A q \in Ops : st[q] # "running"
    /\ st' = [st EXCEPT ![o] = "running"]
    /\ lease' = [lease EXCEPT ![o] = "live"]
    /\ job' = [job EXCEPT ![w] = o]
    /\ pc' = [pc EXCEPT ![w] = IF req[o].action = "name_branch"
                               THEN "name" ELSE "prepare"]
    /\ at' = [at EXCEPT ![w] = Nothing]
    /\ out' = [out EXCEPT ![w] = NoOutcome]
    /\ err' = [err EXCEPT ![w] = FALSE]
    /\ UNCHANGED <<req, told, lock, late, checkout, github, budgets>>

\* Sixty seconds without a heartbeat: its worker is gone, or its heartbeat
\* hangs (a fault) while the worker goes on.
Expire(o) ==
    /\ lease[o] = "live" /\ st[o] = "running"
    /\ \/ /\ \A w \in Workers : pc[w] = "idle" \/ job[w] # o
          /\ UNCHANGED faults
       \/ faults < MaxFaults /\ faults' = faults + 1
    /\ lease' = [lease EXCEPT ![o] = "expired"]
    /\ UNCHANGED <<st, req, told, workerVars, late, checkout, github, edits,
                   pushes, losses>>

\* Mutant: the comparison with now() is turned around.
InterruptLive(o) ==
    /\ st[o] = "running" /\ lease[o] = "live"
    /\ st' = [st EXCEPT ![o] = "interrupted"]
    /\ UNCHANGED <<lease, req, told, workerVars, late, checkout, github,
                   budgets>>

\* GatewayInterruptCodingOperations
Interrupt(o) ==
    /\ st[o] = "running" /\ lease[o] = "expired"
    /\ st' = [st EXCEPT ![o] = "interrupted"]
    /\ UNCHANGED <<lease, req, told, workerVars, late, checkout, github,
                   budgets>>

\* Mutant: pruning writes a state of its own.
PruneExpired(o) ==
    /\ st[o] \in Terminal
    /\ st' = [st EXCEPT ![o] = "expired"]
    /\ UNCHANGED <<lease, req, told, workerVars, late, checkout, github,
                   budgets>>

\* GatewayDeleteOldCodingOperations, a week later; nobody repeats a request
\* then.
Prune(o) ==
    /\ st[o] \in Terminal
    /\ st' = [st EXCEPT ![o] = "pruned"]
    /\ UNCHANGED <<lease, req, told, workerVars, late, checkout, github,
                   budgets>>

-----------------------------------------------------------------------------
(***************************************************************************)
(* Steps of a worker.                                                      *)
(***************************************************************************)
\* Mutant: rows are updated by id alone, without token and lease.
LeaseIgnored(w) == TRUE

Leased(w) == lease[job[w]] = "live"
Req(w) == req[job[w]]
Action(w) == Req(w).action

Goto(w, l) == pc' = [pc EXCEPT ![w] = l] /\ UNCHANGED <<job, err, lock>>

\* executeCodingOperation returns: the deferred release frees the lock.
Return(w, failed) ==
    /\ pc' = [pc EXCEPT ![w] = "final"]
    /\ err' = [err EXCEPT ![w] = failed]
    /\ lock' = IF lock = w THEN None ELSE lock
    /\ UNCHANGED job

\* Mutant: the error is dropped.
RejectSilently(w) == Return(w, FALSE) /\ UNCHANGED at

\* The operation fails: the error goes to the final result.
Reject(w) == Return(w, TRUE) /\ UNCHANGED at

\* publish(stage): saves the result so far if the lease is still live, and
\* goes on with A; otherwise the operation fails.
Publish(w, A) ==
    IF Leased(w) THEN told' = [told EXCEPT ![job[w]] = out[w]] /\ A
    ELSE UNCHANGED told /\ Reject(w)

\* What a step of a worker leaves alone unless it is a call.
Quiet == UNCHANGED <<st, lease, req, out, late, checkout, github, budgets>>
Advance(w, l) == Goto(w, l) /\ UNCHANGED at

\* Where the operation goes once its branch is known.
Route(w, dirty) ==
    IF Action(w) \in FetchActions THEN Goto(w, "fetch")
    ELSE IF Action(w) \in CommitActions /\ dirty THEN Goto(w, "stage")
    ELSE IF Action(w) = "commit" THEN Return(w, FALSE)
    ELSE Goto(w, "remote")

Prepare(w) ==
    /\ pc[w] = "prepare"
    /\ Publish(w, Advance(w, "lock"))
    /\ Quiet

Acquire(w) ==
    /\ pc[w] \in {"lock", "namelock"}
    /\ lock = None
    /\ lock' = w
    /\ pc' = [pc EXCEPT ![w] = IF pc[w] = "lock" THEN "check" ELSE "reread"]
    /\ UNCHANGED <<job, err, at, told>>
    /\ Quiet

\* Status under the lock: HEAD, branch and revision are those reviewed.
Reviewed(r) == Tip = r.head /\ branch = r.branch /\ Revision = r.revision

Check(w) ==
    /\ pc[w] = "check"
    /\ IF Reviewed(Req(w))
       THEN /\ at' = [at EXCEPT ![w] = Status]
            /\ IF Req(w).feature THEN Goto(w, "feature") ELSE Route(w, Dirty)
       ELSE Reject(w)
    /\ UNCHANGED told /\ Quiet

NameFeature(w) ==
    /\ pc[w] = "feature"
    /\ Publish(w, Advance(w, "creating"))
    /\ Quiet

\* ExpectedHead of CreateBranch and of the import of a pull, and the branch
\* that Rename expects.
Expected(w) ==
    CASE pc[w] = "creating"  -> Tip = at[w].head
      [] pc[w] = "importing" -> Action(w) = "pull" => Tip = at[w].head
      [] pc[w] = "renaming"  -> branch = at[w].branch

Enter(w) ==
    /\ pc[w] \in DOMAIN Before
    /\ IF Expected(w) THEN Advance(w, Before[pc[w]]) ELSE Reject(w)
    /\ UNCHANGED told /\ Quiet

\* GatewayUpdateCodingBranch; name_branch sends it over the connection that
\* carries the lock.
SaveBranch(w) ==
    /\ pc[w] = "row"
    /\ IF Action(w) # "name_branch"
       THEN named' = at[w].branch /\ Route(w, at[w].dirty)
       ELSE IF lock = w THEN named' = at[w].branch /\ Return(w, FALSE)
       ELSE Return(w, TRUE) /\ UNCHANGED named
    /\ UNCHANGED <<rowVars, at, out, late, branch, index, work, ref, track,
                   shared, github, budgets>>

\* fetchBundle: all branches of GitHub.
Fetch(w) ==
    /\ pc[w] = "fetch"
    /\ Publish(w, /\ at' = [at EXCEPT ![w].refs = remote]
                  /\ Goto(w, "importing"))
    /\ Quiet

\* A tree that was reviewed is taken as it is; otherwise PrepareCommit stages.
Stage(w) ==
    /\ pc[w] = "stage"
    /\ Publish(w, IF ~Req(w).staged THEN Advance(w, "review")
                  ELSE IF at[w].tree = Req(w).tree THEN Advance(w, "export")
                  ELSE Reject(w))
    /\ Quiet

\* PrepareCommit reads the status first; git add is a call of its own, because
\* nothing keeps the agent from editing in between.
Review(w) ==
    /\ pc[w] = "review"
    /\ IF Tip = at[w].head /\ Revision = at[w].revision
       THEN Advance(w, "add") ELSE Reject(w)
    /\ UNCHANGED told /\ Quiet

\* Mutant: the exported tree is not compared with the reviewed one.
ExportUnchecked(w) ==
    /\ pc[w] = "export"
    /\ Publish(w, IF /\ Tip = at[w].head /\ branch = at[w].branch
                     /\ index # TreeOf(Tip)
                  THEN /\ at' = [at EXCEPT ![w].sha =
                                   Append(Tip, Entry(index, job[w])),
                                          ![w].tree = index]
                       /\ Goto(w, "apply")
                  ELSE Reject(w))
    /\ Quiet

\* Export of the staged tree, and commit-tree in the trusted repository.
Export(w) ==
    /\ pc[w] = "export"
    /\ Publish(w, IF /\ Tip = at[w].head /\ branch = at[w].branch
                     /\ index = at[w].tree /\ index # TreeOf(Tip)
                  THEN /\ at' = [at EXCEPT ![w].sha =
                                   Append(Tip, Entry(index, job[w]))]
                       /\ Goto(w, "apply")
                  ELSE Reject(w))
    /\ Quiet

\* ApplyCommit up to update-ref.
Apply(w) ==
    /\ pc[w] = "apply"
    /\ IF Tip = at[w].head /\ branch = at[w].branch /\ index = at[w].tree
       THEN Advance(w, "update") ELSE Reject(w)
    /\ UNCHANGED told /\ Quiet

Committed(w) ==
    /\ pc[w] = "committed"
    /\ Publish(w, IF Action(w) = "commit" THEN Return(w, FALSE) /\ UNCHANGED at
                  ELSE Advance(w, "remote"))
    /\ Quiet

WantsPR(w) == Action(w) \in PRActions

\* What follows once the branch is at GitHub.
Published(w) ==
    IF WantsPR(w) THEN Goto(w, "pulls") ELSE Return(w, FALSE)

\* No pull request from the default branch or beside uncommitted changes.
RefusePR(w) ==
    /\ pc[w] = "remote"
    /\ WantsPR(w) /\ (at[w].branch = "main" \/ at[w].dirty)
    /\ Reject(w)
    /\ UNCHANGED told /\ Quiet

\* The branch at GitHub must be the one the checkout last saw.
CheckRemote(w) ==
    /\ pc[w] = "remote"
    /\ ~(WantsPR(w) /\ (at[w].branch = "main" \/ at[w].dirty))
    /\ Publish(w, IF remote[at[w].branch] # at[w].remote THEN Reject(w)
                  ELSE /\ at' = [at EXCEPT ![w].refs = remote]
                       /\ IF at[w].remote = at[w].head THEN Published(w)
                          ELSE Goto(w, "ship"))
    /\ Quiet

\* Export before the push, and the ancestor check.
Ship(w) ==
    /\ pc[w] = "ship"
    /\ Publish(w, IF /\ Tip = at[w].head /\ branch = at[w].branch
                     /\ IsPrefix(at[w].remote, at[w].head)
                  THEN Advance(w, "push") ELSE Reject(w))
    /\ Quiet

Pushed(w) ==
    /\ pc[w] = "pushed"
    /\ Publish(w, Published(w) /\ UNCHANGED at)
    /\ Quiet

\* An open pull request of the branch is the result; a new one needs changes
\* against the default branch.
ListPulls(w) ==
    /\ pc[w] = "pulls"
    /\ IF at[w].branch \in prs
       THEN /\ out' = [out EXCEPT ![w].pr = TRUE]
            /\ Return(w, FALSE)
            /\ UNCHANGED <<told, at>>
       ELSE /\ Publish(w, IF /\ Tip = at[w].head /\ branch = at[w].branch
                             /\ ~Dirty
                             /\ ~IsPrefix(at[w].head, at[w].refs["main"])
                          THEN Advance(w, "verify") ELSE Reject(w))
            /\ UNCHANGED out
    /\ UNCHANGED <<st, lease, req, late, checkout, github, budgets>>

\* After the text was generated checkout and branch are looked at once more.
Verify(w) ==
    /\ pc[w] = "verify"
    /\ IF /\ Tip = at[w].head /\ branch = at[w].branch /\ ~Dirty
          /\ remote[at[w].branch] = at[w].head
       THEN Publish(w, Advance(w, "open"))
       ELSE UNCHANGED told /\ Reject(w)
    /\ Quiet

\* nameCodingBranch: nothing to do unless the branch is the temporary one.
Name(w) ==
    /\ pc[w] = "name"
    /\ IF shared \/ named # "chore"
       THEN Return(w, FALSE) /\ UNCHANGED <<at, told>>
       ELSE Publish(w, Advance(w, "namelock"))
    /\ Quiet

\* Mutant: the branch in the row is not compared with the temporary one.
RereadTrusted(w) ==
    /\ pc[w] = "reread"
    /\ IF lock = w
       THEN at' = [at EXCEPT ![w].branch = named] /\ Goto(w, "renaming")
       ELSE Reject(w)
    /\ UNCHANGED told /\ Quiet

\* The row is read again under the lock, over its connection.
Reread(w) ==
    /\ pc[w] = "reread"
    /\ IF lock = w /\ named = "chore"
       THEN at' = [at EXCEPT ![w].branch = named] /\ Goto(w, "renaming")
       ELSE Reject(w)
    /\ UNCHANGED told /\ Quiet

-----------------------------------------------------------------------------
(***************************************************************************)
(* Calls: c.op and c.at are the caller's operation and `current'.  A guard *)
(* is what Git or GitHub checks together with the change.                  *)
(***************************************************************************)
CallOf(w) == [kind |-> pc[w], op |-> job[w], at |-> at[w]]

\* git switch -c
CanBranch(c) == ref["topic"] = << >>
DoBranch(c) ==
    /\ ref' = [ref EXCEPT !["topic"] = Tip]
    /\ branch' = "topic"
    /\ UNCHANGED <<index, work, track, named, shared, github>>

\* Import, and for pull `merge --ff-only' into the branch checked out.
Pulls(c) == req[c.op].action = "pull"
CanImport(c) == TRUE
CanMerge(c) ==
    LET theirs == c.at.refs[c.at.branch] IN
    \/ theirs # << >> /\ IsPrefix(theirs, Tip)
    \/ IsPrefix(Tip, theirs) /\ ~Dirty
DoImport(c) ==
    LET theirs == c.at.refs[c.at.branch] IN
    /\ track' = c.at.refs
    /\ IF Pulls(c) /\ CanMerge(c) /\ IsPrefix(Tip, theirs)
       THEN /\ ref' = [ref EXCEPT ![branch] = theirs]
            /\ index' = TreeOf(theirs) /\ work' = TreeOf(theirs)
       ELSE UNCHANGED <<ref, index, work>>
    /\ UNCHANGED <<branch, named, shared, github>>

\* git add -A
CanAdd(c) == TRUE
DoAdd(c) ==
    /\ index' = work
    /\ UNCHANGED <<branch, work, ref, track, named, shared, github>>

\* Mutant: update-ref without the old value.
UpdateForced(c) == TRUE

\* update-ref with the old value
CanUpdate(c) == ref[c.at.branch] = c.at.head
DoUpdate(c) ==
    /\ ref' = [ref EXCEPT ![c.at.branch] = c.at.sha]
    /\ UNCHANGED <<branch, index, work, track, named, shared, github>>

\* Mutant: push --force.
PushForced(c) == TRUE

\* push --force-with-lease
CanPush(c) == remote[c.at.branch] = c.at.remote
DoPush(c) ==
    /\ remote' = [remote EXCEPT ![c.at.branch] = c.at.head]
    /\ landed' = landed \cup {c.at.head}
    /\ UNCHANGED <<checkout, prs>>

CanOpen(c) == c.at.branch \notin prs /\ remote[c.at.branch] # << >>
DoOpen(c) ==
    /\ prs' = prs \cup {c.at.branch}
    /\ UNCHANGED <<checkout, remote, landed>>

\* git branch -m moves HEAD along if the branch is still checked out.
CanRename(c) == ref[c.at.branch] # << >> /\ ref["title"] = << >>
DoRename(c) ==
    /\ ref' = [ref EXCEPT ![c.at.branch] = << >>, !["title"] = ref[c.at.branch]]
    /\ branch' = IF branch = c.at.branch THEN "title" ELSE branch
    /\ UNCHANGED <<index, work, track, named, shared, github>>

Can(c) ==
    CASE c.kind = "branch" -> CanBranch(c)
      [] c.kind = "import" -> CanImport(c)
      [] c.kind = "add"    -> CanAdd(c)
      [] c.kind = "update" -> CanUpdate(c)
      [] c.kind = "push"   -> CanPush(c)
      [] c.kind = "open"   -> CanOpen(c)
      [] c.kind = "rename" -> CanRename(c)

Do(c) ==
    \/ c.kind = "branch" /\ DoBranch(c)
    \/ c.kind = "import" /\ DoImport(c)
    \/ c.kind = "add"    /\ DoAdd(c)
    \/ c.kind = "update" /\ DoUpdate(c)
    \/ c.kind = "push"   /\ DoPush(c)
    \/ c.kind = "open"   /\ DoOpen(c)
    \/ c.kind = "rename" /\ DoRename(c)

\* The answer of a call that took effect.
Answer(w) ==
    LET k == pc[w] IN
    /\ out' = CASE k = "push" -> [out EXCEPT ![w].pushed = TRUE]
                [] k = "open" -> [out EXCEPT ![w].pr = TRUE]
                [] OTHER      -> out
    /\ CASE k = "branch" -> Goto(w, "branched")
         [] k = "import" -> Return(w, Pulls(CallOf(w)) /\ ~CanMerge(CallOf(w)))
         [] k = "add"    -> Goto(w, "added")
         [] k = "update" -> Goto(w, "updated")
         [] k = "push"   -> Goto(w, "pushed")
         [] k = "open"   -> Return(w, FALSE)
         [] k = "rename" -> Goto(w, "renamed")
    /\ UNCHANGED at

Call(w) ==
    /\ pc[w] \in Calls
    /\ Can(CallOf(w))
    /\ Do(CallOf(w))
    /\ Answer(w)
    /\ UNCHANGED <<rowVars, late, budgets>>

\* readStatus at the end of a local call: `current' is what it finds now.
See(w) ==
    /\ pc[w] \in Answers
    /\ at' = [at EXCEPT ![w] = Status]
    /\ out' = IF pc[w] = "updated" THEN [out EXCEPT ![w].commit = at[w].sha]
              ELSE out
    /\ Goto(w, CASE pc[w] \in {"branched", "renamed"} -> "row"
                 [] pc[w] = "added"   -> "export"
                 [] pc[w] = "updated" -> "committed")
    /\ UNCHANGED <<rowVars, late, checkout, github, budgets>>

\* A refused call ends the operation; a pull request that exists already is
\* found by the second lookup.
Refused(w) ==
    /\ pc[w] \in Calls
    /\ ~Can(CallOf(w))
    /\ IF pc[w] = "open" /\ at[w].branch \in prs
       THEN /\ out' = [out EXCEPT ![w].pr = TRUE]
            /\ Return(w, FALSE) /\ UNCHANGED at
       ELSE Reject(w) /\ UNCHANGED out
    /\ UNCHANGED <<rowVars, late, checkout, github, budgets>>

\* The last publication.  A fault here is a failed invalidation of snapshots.
Final(w) ==
    /\ pc[w] = "final"
    /\ \E e \in {FALSE} \cup (IF faults < MaxFaults THEN {TRUE} ELSE {}) :
          /\ faults' = IF e THEN faults + 1 ELSE faults
          /\ IF Leased(w)
             THEN /\ st' = [st EXCEPT ![job[w]] =
                              IF err[w] \/ e THEN "failed" ELSE "succeeded"]
                  /\ told' = [told EXCEPT ![job[w]] = out[w]]
             ELSE UNCHANGED <<st, told>>
    /\ pc' = [pc EXCEPT ![w] = "idle"]
    /\ UNCHANGED <<lease, req, job, at, out, err, lock, late, checkout, github,
                   edits, pushes, losses>>

-----------------------------------------------------------------------------
(***************************************************************************)
(* Failures.                                                               *)
(***************************************************************************)
\* The caller no longer waits; the call may happen later or never.
Abandoned(w) ==
    late' \in {late} \cup (IF pc[w] \in Calls THEN {late \cup {CallOf(w)}} ELSE {})

\* A call times out, access was revoked, GitHub answers with an error.
Error(w) ==
    /\ pc[w] \notin {"idle", "final"}
    /\ faults < MaxFaults /\ faults' = faults + 1
    /\ Abandoned(w)
    /\ Reject(w)
    /\ UNCHANGED <<rowVars, out, checkout, github, edits, pushes, losses>>

\* The context ends: a heartbeat found the lease lost or failed, ten minutes
\* passed, or the replica stopped.  Nothing is published.
Cancel(w) ==
    /\ pc[w] # "idle"
    /\ \/ ~Leased(w) /\ UNCHANGED faults
       \/ faults < MaxFaults /\ faults' = faults + 1
    /\ Abandoned(w)
    /\ pc' = [pc EXCEPT ![w] = "idle"]
    /\ lock' = IF lock = w THEN None ELSE lock
    /\ UNCHANGED <<rowVars, job, at, out, err, checkout, github, edits, pushes,
                   losses>>

Late(c) ==
    /\ c \in late
    /\ late' = late \ {c}
    /\ Can(c) /\ Do(c)
    /\ UNCHANGED <<rowVars, workerVars, budgets>>

\* The connection that carries the lock dies unnoticed.
LoseLock ==
    /\ lock # None
    /\ losses < MaxLosses /\ losses' = losses + 1
    /\ lock' = None
    /\ UNCHANGED <<rowVars, pc, job, at, out, err, late, checkout, github,
                   edits, pushes, faults>>

-----------------------------------------------------------------------------
(***************************************************************************)
(* The agent in the checkout and others at GitHub: external.               *)
(***************************************************************************)
Edit == work' = edits + 2 /\ UNCHANGED <<branch, index, ref>>
AgentStage == index # work /\ index' = work /\ UNCHANGED <<branch, work, ref>>
AgentCommit ==
    /\ index # TreeOf(Tip)
    /\ ref' = [ref EXCEPT ![branch] = Append(@, Entry(index, Other))]
    /\ UNCHANGED <<branch, index, work>>
\* git switch keeps changes when both branches hold the same tree.
Switch(b) ==
    /\ b # branch /\ ref[b] # << >>
    /\ branch' = b
    /\ \/ /\ TreeOf(ref[b]) = TreeOf(Tip)
          /\ UNCHANGED <<index, work>>
       \/ /\ TreeOf(ref[b]) # TreeOf(Tip) /\ ~Dirty
          /\ index' = TreeOf(ref[b]) /\ work' = TreeOf(ref[b])
    /\ UNCHANGED ref

Agent ==
    /\ edits < MaxEdits /\ edits' = edits + 1
    /\ Edit \/ AgentStage \/ AgentCommit \/ \E b \in Branch : Switch(b)
    /\ UNCHANGED <<rowVars, workerVars, late, track, named, shared, github,
                   pushes, faults, losses>>

\* A push of somebody else, which may also rewrite the branch.
GitHubPush(b, base) ==
    /\ pushes < MaxPushes /\ pushes' = pushes + 1
    /\ base = remote[b] \/ (Len(remote[b]) > 1 /\ base = Front(remote[b]))
    /\ remote' = [remote EXCEPT ![b] = Append(base, Entry(MaxEdits + 2 + pushes, Other))]
    /\ landed' = landed \cup {remote'[b]}
    /\ UNCHANGED <<rowVars, workerVars, late, checkout, prs, edits, faults,
                   losses>>

GitHub == \E b \in Branch : \E base \in {remote[b], Front(remote[b])} :
              remote[b] # << >> /\ GitHubPush(b, base)

-----------------------------------------------------------------------------
Rows ==
    \E o \in Ops :
        \/ \E a \in Actions, s \in Staged, f \in Feature : Start(o, a, s, f)
        \/ Expire(o) \/ Interrupt(o) \/ Prune(o)

Work(w) ==
    \/ Prepare(w) \/ Check(w) \/ NameFeature(w) \/ Enter(w) \/ SaveBranch(w)
    \/ Fetch(w)
    \/ Stage(w) \/ Review(w) \/ Export(w) \/ Apply(w) \/ Committed(w)
    \/ RefusePR(w) \/ CheckRemote(w) \/ Ship(w) \/ Pushed(w)
    \/ ListPulls(w) \/ Verify(w) \/ Name(w) \/ Reread(w)
    \/ Call(w) \/ See(w) \/ Refused(w) \/ Final(w)

Next ==
    \/ Rows
    \/ \E w \in Workers :
          \/ \E o \in Ops : Claim(w, o)
          \/ Acquire(w) \/ Work(w) \/ Error(w) \/ Cancel(w)
    \/ \E c \in late : Late(c)
    \/ LoseLock
    \/ Agent
    \/ GitHub

Spec == Init /\ [][Next]_vars

(***************************************************************************)
(* Fairness.  Every call of a worker ends by its context and workers tick  *)
(* every second, so steps are weakly fair; the lock queue of PostgreSQL    *)
(* and the claim in order of creation serve a waiter in the end, so Claim  *)
(* and Acquire are strongly fair; a lease nobody renews expires and the    *)
(* fifteen-second tick interrupts its operation.                           *)
(***************************************************************************)
Lapse(o) == /\ \A w \in Workers : pc[w] = "idle" \/ job[w] # o
            /\ Expire(o)

Fairness ==
    /\ \A w \in Workers : WF_vars(Work(w)) /\ SF_vars(Acquire(w))
    /\ \A o \in Ops : /\ SF_vars(\E w \in Workers : Claim(w, o))
                      /\ WF_vars(Lapse(o)) /\ WF_vars(Interrupt(o))

FairSpec == Spec /\ Fairness

-----------------------------------------------------------------------------
Commits == Seq([tree : Nat, by : {Other} \cup Ops])
Outcomes == [commit : Commits, pushed : BOOLEAN, pr : BOOLEAN]
Statuses == [branch : Branch, head : Commits, tree : Nat,
             revision : Commits \X Nat \X Nat, dirty : BOOLEAN,
             remote : Commits, refs : [Branch -> Commits], sha : Commits]
Requests == [kind : Calls, op : {0} \cup Ops, at : Statuses]

RowTypes ==
    /\ st \in [Ops -> OpStates]
    /\ lease \in [Ops -> {"none", "live", "expired"}]
    /\ told \in [Ops -> Outcomes]
WorkerTypes ==
    /\ pc \in [Workers -> PCs]
    /\ job \in [Workers -> {0} \cup Ops]
    /\ at \in [Workers -> Statuses]
    /\ out \in [Workers -> Outcomes]
    /\ err \in [Workers -> BOOLEAN]
    /\ lock \in Workers \cup {None}
CheckoutTypes ==
    /\ branch \in Branch /\ named \in Branch /\ shared \in BOOLEAN
    /\ index \in Nat /\ work \in Nat
    /\ ref \in [Branch -> Commits] /\ track \in [Branch -> Commits]
GitHubTypes ==
    remote \in [Branch -> Commits] /\ landed \subseteq Commits /\ prs \subseteq Branch
BudgetTypes == edits \in Nat /\ pushes \in Nat /\ faults \in Nat /\ losses \in Nat

\* Type of the rows, of the workers, of their abandoned calls and of the Git
\* state.
TypeOK ==
    /\ RowTypes /\ WorkerTypes /\ late \subseteq Requests
    /\ CheckoutTypes /\ GitHubTypes /\ BudgetTypes

\* A push of the gateway never takes a commit away from GitHub, whoever pushed
\* between its check and the push, also when its worker lost lease and lock or
\* gave the call up (push of executeCodingOperation).
RemoteKept ==
    [][GitHub \/ \A b \in Branch : IsPrefix(remote[b], remote'[b])]_vars

\* No operation takes a commit of the checkout away: each branch tip stays
\* part of some branch (update-ref with the old value, merge --ff-only, rename).
LocalKept ==
    [][Agent \/ \A b \in Branch : \E d \in Branch : IsPrefix(ref[b], ref'[d])]_vars

\* A commit of an operation whose request names a staged tree has exactly that
\* tree and, unless it made a branch first, sits on the HEAD that was reviewed,
\* whatever the agent does in the checkout meanwhile.
Made(c) == {k \in 1 .. Len(c) : c[k].by \in Ops}

Faithful(c) ==
    \A k \in Made(c) :
        LET r == req[c[k].by] IN
        r.staged => /\ c[k].tree = r.tree
                    /\ ~r.feature => SubSeq(c, 1, k - 1) = r.head

CommitsReviewed ==
    \A b \in Branch : Faithful(ref[b]) /\ Faithful(remote[b])

\* What the browser is told is true: a reported commit is in the checkout, a
\* push of the reviewed HEAD reached GitHub, and a pull request is open.
Pure(o) == told[o].commit = << >> /\ ~req[o].feature

Truthful ==
    \A o \in Ops :
        /\ \E b \in Branch : IsPrefix(told[o].commit, ref[b])
        /\ Pure(o) /\ (\/ told[o].pushed
                       \/ st[o] = "succeeded" /\ req[o].action \in PushActions)
           => req[o].head \in landed
        /\ \/ told[o].pr
           \/ st[o] = "succeeded" /\ req[o].action \in PRActions
           => \E b \in prs : b # "main"

\* operations.go: "Only the original private temporary branch may be renamed."
RenamesTemporary ==
    [][\A b \in Branch \ {"chore"} : ref[b] # << >> => ref'[b] # << >>]_vars

\* An accepted operation ends, although its worker may crash, lose its lease
\* or wait for the lock of another.
OperationsEnd ==
    \A o \in Ops : st[o] = "queued" ~> st[o] \in Terminal \cup {"pruned"}

-----------------------------------------------------------------------------
Ledger == INSTANCE CodingLedger WITH state <- st, outcome <- told

\* Rows follow the ledger: a worker that lost its lease changes nothing, an
\* end is final, and operations of a project run one at a time.
ImplementsLedger == Ledger!Spec
=============================================================================
