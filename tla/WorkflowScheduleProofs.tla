---------------------- MODULE WorkflowScheduleProofs ----------------------
(***************************************************************************)
(* Proofs that a tick has one run, that a failed tick is recorded as what  *)
(* it was, and that pruning takes the oldest, for any number of ticks,     *)
(* runs and faults, any limit and any lag of the three watches, as long as *)
(* the controller sees a Job before the Job's pod runs (PromptJobs).       *)
(*                                                                         *)
(* The invariant says what an old version of a Job still tells: a Job that *)
(* was seen finished never runs again, in the store, in the cache or on    *)
(* the watch.                                                              *)
(***************************************************************************)
EXTENDS WorkflowSchedule, FiniteSetTheorems, TLAPS

\* The types of the structured variables.
JobEvent == [name : Ticks, object : Jobs]
RunEvent == [name : Names, object : Runs]
Cache == [jobs : [Ticks -> Jobs], runs : [Names -> Runs], status : Names \cup {0}]
Watch == [jobs : Seq(JobEvent), runs : Seq(RunEvent), status : Seq(Names \cup {0})]
Places == {"idle", "jobs", "verify", "create", "annotate", "prune"}
Ctl == [pc : Places, listed : [Ticks -> Jobs], todo : SUBSET Ticks, active : SUBSET Ticks,
        job : Ticks \cup {0}, uid : Nat, doomed : SUBSET Names]

\* Where a reconciliation works on the Jobs it listed.
Working == {"jobs", "verify", "create", "annotate"}

\* The Job is discarded.
Final(t) == attempts[t] > 0 /\ ~Exists(jobs[t])

\* The Job asks for no run any more, nor does the controller for it.
Settled(t) ==
    /\ attempts[t] > 0
    /\ \/ ~Exists(jobs[t]) \/ jobs[t].phase = "complete"
       \/ jobs[t].phase = "failed" /\ jobs[t].admitted # 0

\* Nobody can see the Job unfinished any more.
PastActive(t) ==
    /\ attempts[t] > 0 /\ jobs[t].phase # "active" /\ cache.jobs[t].phase # "active"
    /\ \A i \in 1 .. Len(watch.jobs) :
          watch.jobs[i].name = t => watch.jobs[i].object.phase # "active"

\* What an old version v of the Job t says of its present one.
Was(v, t) ==
    /\ attempts[t] > 0
    /\ Exists(jobs[t]) => /\ Finished(v) => jobs[t].phase = v.phase
                          /\ v.admitted # 0 => jobs[t].admitted = v.admitted

-----------------------------------------------------------------------------
(* The invariant *)

\* Pods belong to unfinished Jobs, Jobs and runs to ticks that happened.
JobOK(t) ==
    /\ pods[t] # "none" => jobs[t].phase = "active"
    /\ Exists(jobs[t]) => attempts[t] > 0
    /\ created[t] > 0 => attempts[t] > 0

\* The cached Job and the listed one are versions of the Job.
Views(t) ==
    /\ Exists(cache.jobs[t]) => Was(cache.jobs[t], t)
    /\ Exists(ctl.listed[t]) => Was(ctl.listed[t], t)
    /\ Finished(cache.jobs[t]) => PastActive(t)
    /\ Finished(ctl.listed[t]) => PastActive(t)
    /\ ~Exists(cache.jobs[t]) /\ (Exists(ctl.listed[t]) \/ created[t] > 0) => Final(t) /\ PastActive(t)
    /\ ctl.pc \in Working /\ ~Exists(ctl.listed[t]) /\ created[t] > 0 => Final(t) /\ PastActive(t)

\* So are the ones on the watch, in order.
Follows(i) ==
    LET t == watch.jobs[i].name
        v == watch.jobs[i].object
    IN  /\ Exists(v) => Was(v, t)
        /\ ~Exists(v) => Final(t)
        /\ v.phase # "active" =>
              /\ attempts[t] > 0 /\ jobs[t].phase # "active"
              /\ \A j \in i + 1 .. Len(watch.jobs) :
                    watch.jobs[j].name = t => watch.jobs[j].object.phase # "active"

JobEvents == \A i \in 1 .. Len(watch.jobs) : Follows(i)

\* What the reconciliation in progress has done with the Jobs.
Visits ==
    /\ ctl.pc = "idle" => ctl = Rest
    /\ ctl.pc = "prune" => ctl = [Rest EXCEPT !.pc = "prune", !.doomed = ctl.doomed]
    /\ ctl.pc \in Working => ctl.doomed = {}
    /\ ctl.pc = "jobs" => ctl.job = 0
    /\ ctl.pc \in {"verify", "create", "annotate"} =>
          Exists(ctl.listed[ctl.job]) /\ ctl.listed[ctl.job].admitted = 0
    /\ ctl.pc \in {"verify", "create"} => ctl.listed[ctl.job].phase = "failed"
    /\ ctl.pc = "annotate" => ctl.uid > 0
    /\ \A t \in ctl.todo : Exists(ctl.listed[t])
    /\ \A t \in ctl.active : ctl.listed[t].phase = "active"
    /\ \A t \in Ticks \ (ctl.todo \cup ctl.active \cup {ctl.job}) : Exists(ctl.listed[t]) => Settled(t)
    /\ \A t \in Ticks \ ctl.todo : ctl.listed[t].phase = "active" => t \in ctl.active

\* A name without a run is nowhere.
Unborn(n) ==
    created[n] = 0 => /\ runs[n] = NoRun /\ cache.runs[n] = NoRun /\ n \notin ctl.doomed
                      /\ \A i \in 1 .. Len(watch.runs) : watch.runs[i].name # n

\* Runs are born at times that have been.
Aged(r) == r.born <= clock /\ (Exists(r) => r.born > 0)
Born ==
    /\ \A n \in Names : Aged(runs[n]) /\ Aged(cache.runs[n])
    /\ \A i \in 1 .. Len(watch.runs) : Aged(watch.runs[i].object)

\* A run is pruned when its Job asks for none any more.
OneRun ==
    /\ \A t \in Ticks \ removed : created[t] <= 1 /\ (created[t] = 1 /\ ~Exists(runs[t]) => Settled(t))
    /\ ctl.pc = "create" /\ ctl.job \notin removed /\ created[ctl.job] > 0 => Exists(runs[ctl.job])
    /\ \A t \in ctl.doomed \cap Ticks : Settled(t)
    /\ \A n \in Manual : created[n] <= 1

\* What the cache and the watch know of a run's end, while people delete none.
SeenEnd(n) ==
    cache.runs[n].phase \in Ends /\ Exists(runs[n]) =>
        /\ runs[n] = cache.runs[n]
        /\ \A i \in 1 .. Len(watch.runs) : watch.runs[i].name # n

RunFollows(i) ==
    LET n == watch.runs[i].name
        r == watch.runs[i].object
    IN  /\ Exists(r) <=> Exists(runs[n])
        /\ r.phase \in Ends => /\ r = runs[n]
                               /\ \A j \in i + 1 .. Len(watch.runs) : watch.runs[j].name # n

RunViews == removed = {} => /\ \A n \in Names : SeenEnd(n)
                            /\ \A i \in 1 .. Len(watch.runs) : RunFollows(i)

\* A run that pruning left, and that it will see again.
Keeps(k) ==
    /\ Exists(runs[k]) /\ runs[k] = cache.runs[k] /\ k \notin ctl.doomed
    /\ k \in Ticks => PastActive(k) /\ ctl.listed[k].phase # "active"

NewerKept(phase, born) ==
    {k \in Names : Keeps(k) /\ cache.runs[k].phase = phase /\ cache.runs[k].born > born}

\* A run that is pruned or about to be, and that the cache still has, has Limit
\* others of its end after it.
Prunes == {"Succeeded", "Failed"}
Outlived ==
    removed = {} =>
        /\ \A n \in ctl.doomed : Exists(runs[n]) => cache.runs[n].phase \in Prunes
        /\ \A n \in Names : cache.runs[n].phase \in Prunes /\ (~Exists(runs[n]) \/ n \in ctl.doomed) =>
              Cardinality(NewerKept(cache.runs[n].phase, cache.runs[n].born)) >= Limit

\* A reconciliation that writes has a Job at hand.
AtJob == ctl.pc \in {"verify", "create", "annotate"} => ctl.job \in Ticks

JobInv == (\A t \in Ticks : JobOK(t) /\ Views(t)) /\ JobEvents /\ Visits
RunInv == (\A n \in Names : Unborn(n)) /\ Born /\ OneRun
PruneInv == RunViews /\ Outlived

BaseInv == TypeOK /\ Born /\ AtJob
IInv == BaseInv /\ JobInv /\ RunInv /\ PruneInv

-----------------------------------------------------------------------------
(* Sequences and finite sets *)

\* Appending adds one element at the end.
LEMMA Appends ==
    ASSUME NEW S, NEW s \in Seq(S), NEW e \in S
    PROVE  /\ Append(s, e) \in Seq(S) /\ Len(Append(s, e)) = Len(s) + 1 /\ Len(s) \in Nat
           /\ \A i \in 1 .. Len(s) : Append(s, e)[i] = s[i]
           /\ Append(s, e)[Len(s) + 1] = e
  OBVIOUS

\* Taking the head off moves the others forward.
LEMMA Tails ==
    ASSUME NEW S, NEW s \in Seq(S), s # <<>>
    PROVE  /\ Tail(s) \in Seq(S) /\ Head(s) \in S /\ Head(s) = s[1]
           /\ Len(Tail(s)) = Len(s) - 1 /\ Len(s) \in Nat /\ Len(s) > 0
           /\ \A i \in 1 .. Len(Tail(s)) : Tail(s)[i] = s[i + 1]
  OBVIOUS

\* Names are finitely many, and so is what is among them.
LEMMA NamesFinite ==
    ASSUME NEW S, S \subseteq Names
    PROVE  IsFiniteSet(S) /\ Cardinality(S) \in Nat
<1>1. IsFiniteSet(Ticks)
  BY FS_Interval, ConstantsAssumption DEF Ticks
<1>2. IsFiniteSet(Names)
  BY <1>1, FS_Union, ConstantsAssumption DEF Names
<1>. QED
  BY <1>2, FS_Subset, FS_CardinalityType

\* Of two sets of names the larger has no fewer.
LEMMA MoreNames ==
    ASSUME NEW T, T \subseteq Names, NEW S, S \subseteq T
    PROVE  Cardinality(S) <= Cardinality(T)
  BY NamesFinite, FS_Subset

\* Names of which each was born before some time have a youngest.
LEMMA Youngest ==
    ASSUME NEW S, S # {}, NEW top \in Nat, NEW born, \A n \in S : born[n] \in Nat /\ born[n] <= top
    PROVE  \E n \in S : \A m \in S : born[m] <= born[n]
<1> DEFINE T == {top - born[n] : n \in S}
<1>1. T \subseteq Nat /\ T # {}
  OBVIOUS
<1>2. PICK x \in T : \A y \in T : ~(<<y, x>> \in OpToRel(<, Nat))
  BY <1>1, NatLessThanWellFounded, WFMin
<1>3. \A y \in T : ~(y < x)
  BY <1>1, <1>2 DEF OpToRel
<1>4. PICK n \in S : x = top - born[n]
  OBVIOUS
<1>5. \A m \in S : ~(top - born[m] < top - born[n])
  BY <1>3, <1>4
<1>. QED
  BY <1>5

-----------------------------------------------------------------------------
(* Types *)

\* The type invariant in terms of the sets above.
LEMMA Types ==
    ASSUME TypeOK
    PROVE  /\ jobs \in [Ticks -> Jobs] /\ runs \in [Names -> Runs] /\ clock \in Nat
           /\ status \in Names \cup {0} /\ cache \in Cache /\ watch \in Watch
           /\ ctl \in Ctl /\ created \in [Names -> Nat] /\ removed \subseteq Names
           /\ attempts \in [Ticks -> 0 .. BackoffLimit + 1] /\ faults \in 0 .. MaxFaults
           /\ queued \in BOOLEAN /\ pods \in [Ticks -> {"none", "create", "wait"}]
  BY DEF TypeOK, Cache, Watch, JobEvent, RunEvent, Ctl, Places

LEMMA Objects ==
    /\ NoJob \in Jobs /\ NoRun \in Runs /\ Rest \in Ctl
    /\ \A n \in Names : n # 0
    /\ Ticks \subseteq Names /\ Manual \subseteq Names /\ Names = Ticks \cup Manual
    /\ \A n \in Manual : n \notin Ticks
<1>1. NoJob \in Jobs
  BY DEF NoJob, Jobs, JobPhases
<1>2. NoRun \in Runs
  BY DEF NoRun, Runs, Phases, Ends
<1>3. Rest \in Ctl
  BY <1>1 DEF Rest, Ctl, Places
<1>4. 0 \notin Ticks
  BY ConstantsAssumption DEF Ticks
<1>. QED
  BY <1>1, <1>2, <1>3, <1>4, ConstantsAssumption DEF Names

\* What SetJob does to the Jobs and to their watch.
LEMMA JobSet ==
    ASSUME TypeOK, NEW t \in Ticks, NEW j \in Jobs, SetJob(t, j)
    PROVE  /\ jobs' \in [Ticks -> Jobs] /\ watch' \in Watch
           /\ jobs'[t] = j /\ \A u \in Ticks \ {t} : jobs'[u] = jobs[u]
           /\ watch'.runs = watch.runs /\ watch'.status = watch.status
           /\ \/ j = jobs[t] /\ jobs' = jobs /\ watch'.jobs = watch.jobs
              \/ j # jobs[t] /\ watch'.jobs = Append(watch.jobs, [name |-> t, object |-> j])
<1>1. jobs \in [Ticks -> Jobs] /\ watch \in Watch
  BY Types
<1>2. [name |-> t, object |-> j] \in JobEvent
  BY DEF JobEvent
<1>3. watch.jobs \in Seq(JobEvent)
  BY <1>1 DEF Watch
<1>4. Append(watch.jobs, [name |-> t, object |-> j]) \in Seq(JobEvent)
  BY <1>2, <1>3, Appends
<1>5. jobs' = [jobs EXCEPT ![t] = j]
  BY DEF SetJob
<1>6. CASE j = jobs[t]
  BY <1>1, <1>5, <1>6 DEF SetJob, Watch
<1>7. CASE j # jobs[t]
  BY <1>1, <1>4, <1>5, <1>7 DEF SetJob, Watch
<1>. QED
  BY <1>6, <1>7

\* What SetRun does to the runs and to their watch.
LEMMA RunSet ==
    ASSUME TypeOK, NEW n \in Names, NEW r \in Runs, SetRun(n, r)
    PROVE  /\ runs' \in [Names -> Runs] /\ watch' \in Watch
           /\ runs'[n] = r /\ \A m \in Names \ {n} : runs'[m] = runs[m]
           /\ watch'.jobs = watch.jobs /\ watch'.status = watch.status
           /\ \/ r = runs[n] /\ runs' = runs /\ watch'.runs = watch.runs
              \/ watch'.runs = Append(watch.runs, [name |-> n, object |-> r])
<1>1. runs \in [Names -> Runs] /\ watch \in Watch
  BY Types
<1>2. [name |-> n, object |-> r] \in RunEvent
  BY DEF RunEvent
<1>3. watch.runs \in Seq(RunEvent)
  BY <1>1 DEF Watch
<1>4. Append(watch.runs, [name |-> n, object |-> r]) \in Seq(RunEvent)
  BY <1>2, <1>3, Appends
<1>5. runs' = [runs EXCEPT ![n] = r]
  BY DEF SetRun
<1>6. CASE r = runs[n]
  BY <1>1, <1>5, <1>6 DEF SetRun, Watch
<1>7. CASE r # runs[n]
  BY <1>1, <1>4, <1>5, <1>7 DEF SetRun, Watch
<1>. QED
  BY <1>6, <1>7

\* What Create does.
LEMMA Creates ==
    ASSUME TypeOK, NEW n \in Names, NEW failure \in BOOLEAN, Create(n, failure)
    PROVE  LET r == [phase |-> "Active", born |-> clock + 1, failure |-> failure]
           IN  /\ r \in Runs /\ SetRun(n, r) /\ clock' = clock + 1 /\ clock \in Nat /\ clock' \in Nat
               /\ created' \in [Names -> Nat] /\ created'[n] = created[n] + 1
               /\ \A m \in Names \ {n} : created'[m] = created[m]
<1>1. clock \in Nat /\ created \in [Names -> Nat]
  BY Types
<1>2. [phase |-> "Active", born |-> clock + 1, failure |-> failure] \in Runs
  BY <1>1 DEF Runs, Phases
<1>. QED
  BY <1>1, <1>2 DEF Create

\* The type invariant of the next state, in the same terms.
LEMMA TypesNext ==
    ASSUME jobs' \in [Ticks -> Jobs], runs' \in [Names -> Runs], clock' \in Nat,
           status' \in Names \cup {0}, cache' \in Cache, watch' \in Watch,
           ctl' \in Ctl, created' \in [Names -> Nat], removed' \subseteq Names,
           attempts' \in [Ticks -> 0 .. BackoffLimit + 1], faults' \in 0 .. MaxFaults,
           queued' \in BOOLEAN, pods' \in [Ticks -> {"none", "create", "wait"}]
    PROVE  TypeOK'
  BY DEF TypeOK, Cache, Watch, JobEvent, RunEvent, Ctl, Places

\* Who was born before still was.
LEMMA StillAged ==
    ASSUME NEW r \in Runs, Aged(r), clock \in Nat, clock' \in Nat, clock' >= clock
    PROVE  Aged(r)'
  BY DEF Aged, Runs

\* A write of a run of age keeps all runs of age.
LEMMA RunSetAged ==
    ASSUME BaseInv, NEW n \in Names, NEW r \in Runs, SetRun(n, r), cache' = cache,
           clock' \in Nat, clock' >= clock, Aged(r)'
    PROVE  Born'
<1>1. /\ runs' \in [Names -> Runs] /\ watch' \in Watch
      /\ runs'[n] = r /\ \A m \in Names \ {n} : runs'[m] = runs[m]
      /\ \/ watch'.runs = watch.runs
         \/ watch'.runs = Append(watch.runs, [name |-> n, object |-> r])
  BY RunSet DEF BaseInv
<1>2. /\ runs \in [Names -> Runs] /\ cache.runs \in [Names -> Runs]
      /\ watch.runs \in Seq(RunEvent) /\ clock \in Nat /\ [name |-> n, object |-> r] \in RunEvent
  BY Types DEF BaseInv, Cache, Watch, RunEvent
<1>3. \A m \in Names : Aged(runs[m])' /\ Aged(cache.runs[m])'
  <2>1. ASSUME NEW m \in Names
        PROVE  Aged(cache.runs[m])'
    <3>1. cache.runs[m] \in Runs /\ Aged(cache.runs[m])
      BY <1>2 DEF BaseInv, Born
    <3>. QED
      BY <1>2, <3>1, StillAged DEF Aged
  <2>2. ASSUME NEW m \in Names
        PROVE  Aged(runs[m])'
    <3>1. runs[m] \in Runs /\ Aged(runs[m])
      BY <1>2 DEF BaseInv, Born
    <3>2. CASE m = n
      BY <1>1, <3>2 DEF Aged
    <3>3. CASE m # n
      BY <1>1, <1>2, <3>1, <3>3, StillAged DEF Aged
    <3>. QED
      BY <3>2, <3>3
  <2>. QED
    BY <2>1, <2>2
<1>4. ASSUME NEW i \in 1 .. Len(watch'.runs)
      PROVE  Aged(watch.runs[i].object)'
  <2>1. CASE i \in 1 .. Len(watch.runs)
    <3>1. watch'.runs[i] = watch.runs[i]
      BY <1>1, <1>2, <2>1, Appends
    <3>2. watch.runs[i] \in RunEvent
      BY <1>2, <2>1
    <3>3. watch.runs[i].object \in Runs /\ Aged(watch.runs[i].object)
      BY <2>1, <3>2 DEF BaseInv, Born, RunEvent
    <3>. QED
      BY <1>2, <3>1, <3>3, StillAged DEF Aged
  <2>2. CASE i \notin 1 .. Len(watch.runs)
    <3>1. watch'.runs[i] = [name |-> n, object |-> r]
      BY <1>1, <1>2, <2>2, Appends
    <3>. QED
      BY <3>1 DEF Aged
  <2>. QED
    BY <2>1, <2>2
<1>. QED
  BY <1>3, <1>4 DEF Born

\* The name in LastRunName is a name, or none.
LEMMA LastRunNames ==
    ASSUME BaseInv
    PROVE  LastRun \in Names \cup {0}
<1> DEFINE live == {n \in Names : Exists(cache.runs[n])}
           born == [n \in live |-> cache.runs[n].born]
<1>1. cache.runs \in [Names -> Runs] /\ clock \in Nat
  BY Types DEF BaseInv, Cache
<1>2. \A n \in live : born[n] \in Nat /\ born[n] <= clock
  BY <1>1 DEF BaseInv, Born, Aged, Runs
<1>3. CASE live = {}
  BY <1>3 DEF LastRun
<1>4. CASE live # {}
  <2>1. \E n \in live : \A m \in live : born[m] <= born[n]
    <3> HIDE DEF live, born
    <3>. QED
      BY <1>1, <1>2, <1>4, Youngest
  <2>2. \E n \in live : \A m \in live : cache.runs[m].born <= cache.runs[n].born
    BY <2>1
  <2>3. LastRun = CHOOSE n \in live : \A m \in live : cache.runs[m].born <= cache.runs[n].born
    BY <1>4 DEF LastRun
  <2>4. LastRun \in live
    <3> HIDE DEF live
    <3>. QED
      BY <2>2, <2>3
  <2>. QED
    BY <2>4
<1>. QED
  BY <1>3, <1>4

\* A step that touches neither runs nor their views, nor the time.
LEMMA SameAge ==
    ASSUME Born, UNCHANGED <<runs, clock>>, cache'.runs = cache.runs, watch'.runs = watch.runs
    PROVE  Born'
  BY DEF Born, Aged

\* The initial state is typed.
LEMMA BaseBegins == Init => BaseInv
<1> SUFFICES ASSUME Init
             PROVE  BaseInv
  OBVIOUS
<1>1. /\ 0 \in 0 .. BackoffLimit + 1 /\ 0 \in 0 .. MaxFaults
      /\ <<>> \in Seq(JobEvent) /\ <<>> \in Seq(RunEvent) /\ <<>> \in Seq(Names \cup {0})
  BY ConstantsAssumption
<1>2. cache \in Cache /\ watch \in Watch
  BY <1>1, Objects DEF Init, Cache, Watch
<1>3. TypeOK
  BY <1>1, <1>2, Objects DEF Init, TypeOK, Cache, Watch, JobEvent, RunEvent, Ctl, Places
<1>4. Aged(NoRun)
  BY <1>3 DEF Aged, NoRun, Exists, TypeOK
<1>5. /\ \A n \in Names : runs[n] = NoRun /\ cache.runs[n] = NoRun
      /\ watch.runs = <<>>
  BY DEF Init
<1>6. Born
  BY <1>4, <1>5 DEF Born
<1>7. AtJob
  BY DEF Init, Rest, AtJob
<1>. QED
  BY <1>3, <1>6, <1>7 DEF BaseInv

\* The Jobs a step of the cluster writes.
LEMMA JobPhasesKept ==
    ASSUME NEW j \in Jobs
    PROVE  /\ [j EXCEPT !.phase = "complete"] \in Jobs
           /\ [j EXCEPT !.phase = "failed"] \in Jobs
           /\ [phase |-> "active", admitted |-> 0] \in Jobs
           /\ \A uid \in Nat : [j EXCEPT !.admitted = uid] \in Jobs
  BY DEF Jobs, JobPhases

\* The cluster's steps keep types and ages.
LEMMA BaseCluster ==
    ASSUME BaseInv, NEW t \in Ticks, Tick(t) \/ PodFails(t) \/ Deadline(t) \/ CleanJob(t) \/ WaitForRun(t)
    PROVE  TypeOK' /\ Born'
<1> USE DEF BaseInv
<1>1. jobs[t] \in Jobs
  BY Types
<1>2. PICK j \in Jobs : SetJob(t, j) \/ UNCHANGED <<jobs, watch>>
  BY <1>1, Objects, JobPhasesKept DEF Tick, PodFails, Deadline, CleanJob, WaitForRun
<1>3. jobs' \in [Ticks -> Jobs] /\ watch' \in Watch /\ watch'.runs = watch.runs
  BY <1>2, JobSet, Types
<1>4. attempts' \in [Ticks -> 0 .. BackoffLimit + 1]
  <2>1. 1 \in 0 .. BackoffLimit + 1 /\ attempts \in [Ticks -> 0 .. BackoffLimit + 1]
    BY ConstantsAssumption, Types
  <2>2. attempts[t] <= BackoffLimit => attempts[t] + 1 \in 0 .. BackoffLimit + 1
    BY <2>1, ConstantsAssumption
  <2>. QED
    BY <2>1, <2>2 DEF Tick, PodFails, Deadline, CleanJob, WaitForRun
<1>5. pods' \in [Ticks -> {"none", "create", "wait"}]
  BY Types DEF Tick, PodFails, Deadline, CleanJob, WaitForRun
<1>6. faults' \in 0 .. MaxFaults
  <2>1. faults \in 0 .. MaxFaults /\ MaxFaults \in Nat
    BY Types, ConstantsAssumption
  <2>. QED
    BY <2>1 DEF Tick, PodFails, Deadline, CleanJob, WaitForRun
<1>7. UNCHANGED <<runs, clock, status, cache, queued, ctl, created, removed>>
  BY DEF Tick, PodFails, Deadline, CleanJob, WaitForRun, history
<1>8. Born'
  BY <1>3, <1>7, SameAge
<1>9. TypeOK'
  BY <1>3, <1>4, <1>5, <1>6, <1>7, Types, TypesNext
<1>. QED
  BY <1>8, <1>9

\* What the steps that write runs do.
LEMMA BaseRunStep ==
    ASSUME BaseInv, NEW n \in Names, NEW r \in Runs, SetRun(n, r), clock' \in Nat, clock' >= clock,
           Aged(r)', ctl' \in Ctl, queued' \in BOOLEAN, created' \in [Names -> Nat],
           removed' \subseteq Names, pods' \in [Ticks -> {"none", "create", "wait"}],
           UNCHANGED <<jobs, attempts, status, cache, faults>>
    PROVE  TypeOK' /\ Born'
<1>1. runs' \in [Names -> Runs] /\ watch' \in Watch
  BY RunSet DEF BaseInv
<1>2. Born'
  BY RunSetAged
<1>3. TypeOK'
  BY <1>1, Types, TypesNext DEF BaseInv
<1>. QED
  BY <1>2, <1>3 DEF BaseInv

\* The runs that steps write, and the times they were born at.
LEMMA RunPhasesKept ==
    ASSUME NEW r \in Runs, NEW phase \in Ends
    PROVE  [r EXCEPT !.phase = phase] \in Runs
  BY DEF Runs, Phases

LEMMA BaseCreate ==
    ASSUME BaseInv, NEW n \in Names, NEW failure \in BOOLEAN, Create(n, failure),
           ctl' \in Ctl, queued' \in BOOLEAN, pods' \in [Ticks -> {"none", "create", "wait"}],
           UNCHANGED <<jobs, attempts, status, cache, removed, faults>>
    PROVE  TypeOK' /\ Born'
<1>1. PICK r \in Runs : /\ r = [phase |-> "Active", born |-> clock + 1, failure |-> failure]
                        /\ SetRun(n, r) /\ clock' = clock + 1 /\ clock \in Nat /\ clock' \in Nat
                        /\ created' \in [Names -> Nat]
  BY Creates DEF BaseInv
<1>2. Aged(r)'
  BY <1>1 DEF Aged
<1>3. clock' >= clock /\ removed' \subseteq Names
  BY <1>1, Types DEF BaseInv
<1>. QED
  BY <1>1, <1>2, <1>3, BaseRunStep

LEMMA BaseRuns ==
    ASSUME BaseInv,
           \/ \E t \in Ticks : RunSchedule(t)
           \/ \E n \in Names : CreateScheduledRun(n) \/ Remove(n) \/ DeleteRun(n)
           \/ \E n \in Names, phase \in Ends : End(n, phase)
           \/ RecoverTick
    PROVE  TypeOK' /\ Born'
<1>0. /\ TypeOK /\ clock \in Nat /\ runs \in [Names -> Runs] /\ ctl \in Ctl /\ queued \in BOOLEAN
      /\ removed \subseteq Names /\ created \in [Names -> Nat]
      /\ pods \in [Ticks -> {"none", "create", "wait"}]
  BY Types DEF BaseInv
<1>1. ASSUME NEW t \in Ticks, RunSchedule(t)
      PROVE  TypeOK' /\ Born'
  <2>1. pods' \in [Ticks -> {"none", "create", "wait"}]
    BY <1>0, <1>1 DEF RunSchedule
  <2>2. CASE Exists(runs[t])
    <3>1. UNCHANGED <<jobs, attempts, runs, watch, clock, status, cache, queued, ctl, created, removed, faults>>
      BY <1>1, <2>2 DEF RunSchedule
    <3>2. TypeOK'
      BY <2>1, <3>1, Types, TypesNext, <1>0
    <3>. QED
      BY <3>1, <3>2, SameAge DEF BaseInv
  <2>3. CASE ~Exists(runs[t])
    <3>1. Create(t, FALSE) /\ UNCHANGED <<jobs, attempts, status, cache, queued, ctl, removed, faults>>
      BY <1>1, <2>3 DEF RunSchedule
    <3>. QED
      BY <1>0, <2>1, <3>1, BaseCreate, Objects
  <2>. QED
    BY <2>2, <2>3
<1>2. ASSUME NEW n \in Names, CreateScheduledRun(n)
      PROVE  TypeOK' /\ Born'
  <2>1. Create(n, FALSE) /\ UNCHANGED <<jobs, pods, attempts, status, cache, queued, ctl, removed, faults>>
    BY <1>2 DEF CreateScheduledRun, cluster
  <2>. QED
    BY <1>0, <2>1, BaseCreate
<1>3. ASSUME NEW n \in Names, Remove(n) \/ DeleteRun(n)
      PROVE  TypeOK' /\ Born'
  <2>1. /\ SetRun(n, NoRun) /\ UNCHANGED <<jobs, pods, attempts, clock, status, cache, queued, created, faults>>
        /\ removed' \subseteq Names
    BY <1>0, <1>3 DEF Remove, DeleteRun, cluster, history
  <2>2. ctl' \in Ctl
    BY <1>0, <1>3 DEF Remove, DeleteRun, Ctl
  <2>3. Aged(NoRun)'
    BY <1>0, <2>1 DEF Aged, NoRun, Exists
  <2>. QED
    BY <1>0, <2>1, <2>2, <2>3, BaseRunStep, Objects
<1>4. ASSUME NEW n \in Names, NEW phase \in Ends, End(n, phase)
      PROVE  TypeOK' /\ Born'
  <2>1. PICK r : /\ r = [runs[n] EXCEPT !.phase = phase] /\ SetRun(n, r)
                 /\ UNCHANGED <<jobs, pods, attempts, clock, status, cache, queued, ctl, created, removed, faults>>
    BY <1>4 DEF End, cluster, history
  <2>2. runs[n] \in Runs /\ r \in Runs
    BY <1>0, <2>1, RunPhasesKept
  <2>3. r.born = runs[n].born /\ runs[n].phase = "Active"
    BY <1>4, <2>1, <2>2 DEF End, Runs
  <2>4. Aged(r)'
    BY <2>1, <2>2, <2>3 DEF BaseInv, Born, Aged, Exists
  <2>. QED
    BY <1>0, <2>1, <2>2, <2>4, BaseRunStep
<1>5. CASE RecoverTick
  <2>1. UNCHANGED <<jobs, pods, attempts, status, cache, removed, faults>>
    BY <1>5 DEF RecoverTick, cluster
  <2>2. CASE Exists(runs[ctl.job])
    <3>1. ctl' \in Ctl /\ queued' \in BOOLEAN /\ UNCHANGED <<runs, watch, clock, created>>
      BY <1>5, <2>2, Objects DEF RecoverTick, Retry
    <3>2. TypeOK'
      BY <1>0, <2>1, <3>1, Types, TypesNext
    <3>. QED
      BY <2>1, <3>1, <3>2, SameAge DEF BaseInv
  <2>3. CASE ~Exists(runs[ctl.job])
    <3>1. Create(ctl.job, TRUE) /\ ctl' = [ctl EXCEPT !.pc = "annotate", !.uid = clock + 1] /\ UNCHANGED queued
      BY <1>5, <2>3 DEF RecoverTick
    <3>2. clock + 1 \in Nat
      BY <1>0
    <3>3. ctl' \in Ctl
      BY <1>0, <3>1, <3>2 DEF Ctl, Places
    <3>4. ctl.job \in Names
      BY <1>5, Objects DEF RecoverTick, BaseInv, AtJob
    <3>. QED
      BY <1>0, <2>1, <3>1, <3>3, <3>4, BaseCreate
  <2>. QED
    BY <2>2, <2>3
<1>. QED
  BY <1>1, <1>2, <1>3, <1>4, <1>5

\* What the steps of a reconciliation do to it.
LEMMA Retries == Retry => ctl' = Rest /\ queued' = TRUE
  BY DEF Retry

LEMMA RestIs ==
    /\ Rest.pc = "idle" /\ Rest.listed = [t \in Ticks |-> NoJob] /\ Rest.todo = {} /\ Rest.active = {}
    /\ Rest.job = 0 /\ Rest.uid = 0 /\ Rest.doomed = {}
  BY DEF Rest

LEMMA Reconciles ==
    ASSUME Reconcile
    PROVE  /\ ctl.pc = "idle" /\ ctl'.pc = "jobs" /\ ctl'.listed = cache.jobs /\ ctl'.active = {}
           /\ ctl'.todo = {t \in Ticks : Exists(cache.jobs[t])} /\ ctl'.job = 0 /\ ctl'.doomed = {}
           /\ UNCHANGED <<jobs, pods, attempts, runs, clock, status, cache, watch, created, removed, faults>>
  BY DEF Reconcile, Rest, cluster, history

LEMMA PrunesRuns ==
    ASSUME PruneRuns
    PROVE  /\ ctl.pc = "jobs" /\ ctl.todo = {} /\ ctl'.pc = "prune"
           /\ ctl'.listed = [t \in Ticks |-> NoJob] /\ ctl'.todo = {}
           /\ ctl'.active = {} /\ ctl'.job = 0 /\ ctl'.uid = 0
           /\ ctl'.doomed = Excess(Prunable("Succeeded")) \cup Excess(Prunable("Failed"))
           /\ ctl' = [Rest EXCEPT !.pc = "prune", !.doomed = ctl'.doomed]
           /\ UNCHANGED <<jobs, pods, attempts, runs, clock, status, cache, watch, queued, created, removed, faults>>
<1> DEFINE D == Excess(Prunable("Succeeded")) \cup Excess(Prunable("Failed"))
<1>1. ctl' = [Rest EXCEPT !.pc = "prune", !.doomed = D]
  BY DEF PruneRuns
<1> HIDE DEF D
<1>2. /\ ctl'.pc = "prune" /\ ctl'.listed = [t \in Ticks |-> NoJob] /\ ctl'.todo = {}
      /\ ctl'.active = {} /\ ctl'.job = 0 /\ ctl'.uid = 0 /\ ctl'.doomed = D
  BY <1>1 DEF Rest
<1>. QED
  BY <1>1, <1>2 DEF PruneRuns, cluster, history, D

LEMMA Refreshes ==
    ASSUME RefreshStatus
    PROVE  /\ ctl.pc = "prune" /\ ctl' = Rest
           /\ UNCHANGED <<jobs, pods, attempts, runs, clock, cache, queued, created, removed, faults>>
  BY DEF RefreshStatus, cluster, history

LEMMA Verifies ==
    ASSUME VerifyJob, ctl \in Ctl
    PROVE  /\ ctl.pc = "verify"
           /\ \/ /\ Current /\ ctl'.pc = "create" /\ ctl'.doomed = ctl.doomed
                 /\ ctl'.listed = ctl.listed /\ ctl'.todo = ctl.todo /\ ctl'.active = ctl.active
                 /\ ctl'.job = ctl.job
              \/ ctl' = Rest
           /\ UNCHANGED <<jobs, pods, attempts, runs, clock, status, cache, watch, created, removed, faults>>
  BY DEF VerifyJob, Retry, Ctl, cluster, history

LEMMA Recovers ==
    ASSUME RecoverTick, ctl \in Ctl, clock \in Nat
    PROVE  /\ ctl.pc = "create"
           /\ \/ /\ ~Exists(runs[ctl.job]) /\ Create(ctl.job, TRUE)
                 /\ ctl'.pc = "annotate" /\ ctl'.doomed = ctl.doomed /\ ctl'.uid = clock + 1
                 /\ ctl'.listed = ctl.listed /\ ctl'.todo = ctl.todo /\ ctl'.active = ctl.active
                 /\ ctl'.job = ctl.job
              \/ Exists(runs[ctl.job]) /\ ctl' = Rest /\ UNCHANGED <<runs, watch, clock, created>>
           /\ UNCHANGED <<jobs, pods, attempts, status, cache, removed, faults>>
<1>1. CASE Exists(runs[ctl.job])
  BY <1>1 DEF RecoverTick, Retry, cluster
<1>2. CASE ~Exists(runs[ctl.job])
  <2>1. /\ Create(ctl.job, TRUE) /\ ctl' = [ctl EXCEPT !.pc = "annotate", !.uid = clock + 1]
        /\ ctl.pc = "create" /\ UNCHANGED <<jobs, pods, attempts, status, cache, removed, faults>>
    BY <1>2 DEF RecoverTick, cluster
  <2>2. /\ ctl'.pc = "annotate" /\ ctl'.doomed = ctl.doomed /\ ctl'.uid = clock + 1
        /\ ctl'.listed = ctl.listed /\ ctl'.todo = ctl.todo /\ ctl'.active = ctl.active
        /\ ctl'.job = ctl.job
    BY <2>1 DEF Ctl
  <2>. QED
    BY <1>2, <2>1, <2>2
<1>. QED
  BY <1>1, <1>2

LEMMA Annotates ==
    ASSUME AnnotateJob, ctl \in Ctl
    PROVE  /\ ctl.pc = "annotate"
           /\ \/ /\ Current /\ SetJob(ctl.job, [jobs[ctl.job] EXCEPT !.admitted = ctl.uid])
                 /\ ctl' = [ctl EXCEPT !.pc = "jobs", !.job = 0, !.uid = 0]
                 /\ ctl'.pc = "jobs" /\ ctl'.doomed = ctl.doomed
                 /\ ctl'.listed = ctl.listed /\ ctl'.todo = ctl.todo /\ ctl'.active = ctl.active
                 /\ ctl'.job = 0 /\ queued' = queued
              \/ ~Current /\ ctl' = Rest /\ UNCHANGED <<jobs, watch>> /\ queued' = TRUE
           /\ UNCHANGED <<pods, attempts, runs, clock, status, cache, created, removed, faults>>
<1>1. CASE ~Current
  BY <1>1 DEF AnnotateJob, Retry, history
<1>2. CASE Current
  <2>1. /\ SetJob(ctl.job, [jobs[ctl.job] EXCEPT !.admitted = ctl.uid])
        /\ ctl' = [ctl EXCEPT !.pc = "jobs", !.job = 0, !.uid = 0]
        /\ ctl.pc = "annotate" /\ UNCHANGED <<pods, attempts, runs, clock, status, cache, created, removed, faults>>
        /\ queued' = queued
    BY <1>2 DEF AnnotateJob, history
  <2>2. /\ ctl'.pc = "jobs" /\ ctl'.doomed = ctl.doomed
        /\ ctl'.listed = ctl.listed /\ ctl'.todo = ctl.todo /\ ctl'.active = ctl.active
        /\ ctl'.job = 0
    BY <2>1 DEF Ctl
  <2>. QED
    BY <1>2, <2>1, <2>2
<1>. QED
  BY <1>1, <1>2

LEMMA DeletesRun ==
    ASSUME NEW n \in Names, DeleteRun(n), ctl \in Ctl
    PROVE  /\ ctl.pc = "prune" /\ n \in ctl.doomed /\ SetRun(n, NoRun)
           /\ ctl' = [ctl EXCEPT !.doomed = ctl.doomed \ {n}]
           /\ ctl'.pc = "prune" /\ ctl'.doomed = ctl.doomed \ {n} /\ ctl'.uid = ctl.uid
           /\ ctl'.listed = ctl.listed /\ ctl'.todo = ctl.todo /\ ctl'.active = ctl.active
           /\ ctl'.job = ctl.job
           /\ UNCHANGED <<jobs, pods, attempts, clock, status, cache, created, removed, faults>>
<1>1. /\ ctl' = [ctl EXCEPT !.doomed = ctl.doomed \ {n}] /\ SetRun(n, NoRun)
      /\ ctl.pc = "prune" /\ n \in ctl.doomed
      /\ UNCHANGED <<jobs, pods, attempts, clock, status, cache, created, removed, faults>>
  BY DEF DeleteRun, cluster, history
<1>. QED
  BY <1>1 DEF Ctl

\* The controller's steps that write no run, and the watches.
LEMMA BaseController ==
    ASSUME BaseInv,
           \/ Reconcile \/ VerifyJob \/ AnnotateJob \/ PruneRuns \/ RefreshStatus
           \/ \E t \in Ticks : ReconcileTrigger(t)
           \/ Watches \/ ReconcileFails \/ Restart
    PROVE  TypeOK' /\ Born'
<1>0. /\ TypeOK /\ clock \in Nat /\ runs \in [Names -> Runs] /\ ctl \in Ctl /\ queued \in BOOLEAN
      /\ jobs \in [Ticks -> Jobs] /\ watch \in Watch /\ cache \in Cache /\ status \in Names \cup {0}
      /\ faults \in 0 .. MaxFaults /\ MaxFaults \in Nat
  BY Types, ConstantsAssumption DEF BaseInv
<1>1. CASE Reconcile
  <2>1. ctl' \in Ctl
    <3>1. cache.jobs \in [Ticks -> Jobs]
      BY <1>0 DEF Cache
    <3>. QED
      BY <1>1, <3>1, Objects DEF Reconcile, Ctl, Places, Rest
  <2>2. TypeOK'
    BY <1>0, <1>1, <2>1, Types, TypesNext DEF Reconcile, cluster, history
  <2>. QED
    BY <1>1, <2>2, SameAge DEF Reconcile, BaseInv
<1>2. CASE VerifyJob
  <2>1. ctl' \in Ctl /\ queued' \in BOOLEAN
    <3>1. CASE ctl' = Rest /\ queued' = TRUE
      BY <3>1, Objects
    <3>2. CASE ctl' = [ctl EXCEPT !.pc = "create"] /\ queued' = queued
      BY <1>0, <3>2 DEF Ctl, Places
    <3>. QED
      BY <1>2, <3>1, <3>2 DEF VerifyJob, Retry
  <2>2. TypeOK'
    BY <1>0, <1>2, <2>1, Types, TypesNext DEF VerifyJob, cluster, history
  <2>. QED
    BY <1>2, <2>2, SameAge DEF VerifyJob, BaseInv
<1>3. CASE AnnotateJob
  <2>1. ctl' \in Ctl /\ queued' \in BOOLEAN
    <3>1. CASE Current
      <4>1. ctl' = [ctl EXCEPT !.pc = "jobs", !.job = 0, !.uid = 0] /\ queued' = queued
        BY <1>0, <1>3, <3>1, Annotates
      <4>. QED
        BY <1>0, <4>1 DEF Ctl, Places
    <3>2. CASE ~Current
      BY <1>0, <1>3, <3>2, Annotates, Objects
    <3>. QED
      BY <3>1, <3>2
  <2>2. jobs' \in [Ticks -> Jobs] /\ watch' \in Watch /\ watch'.runs = watch.runs
    <3>1. CASE Current
      <4>1. ctl.job \in Ticks
        BY <1>3 DEF AnnotateJob, BaseInv, AtJob
      <4>2. jobs[ctl.job] \in Jobs /\ ctl.uid \in Nat
        BY <1>0, <4>1 DEF Ctl
      <4>3. [jobs[ctl.job] EXCEPT !.admitted = ctl.uid] \in Jobs
        BY <4>2, JobPhasesKept
      <4>. QED
        BY <1>0, <1>3, <3>1, <4>1, <4>3, JobSet DEF AnnotateJob
    <3>2. CASE ~Current
      BY <1>0, <1>3, <3>2 DEF AnnotateJob
    <3>. QED
      BY <3>1, <3>2
  <2>3. TypeOK'
    BY <1>0, <1>3, <2>1, <2>2, Types, TypesNext DEF AnnotateJob, history
  <2>. QED
    BY <1>3, <2>2, <2>3, SameAge DEF AnnotateJob, BaseInv
<1>4. CASE PruneRuns
  <2>1. ctl' \in Ctl
    <3>1. Excess(Prunable("Succeeded")) \cup Excess(Prunable("Failed")) \subseteq Names
      BY DEF Excess, Prunable
    <3>. QED
      BY <1>4, <3>1, Objects DEF PruneRuns, Ctl, Places, Rest
  <2>2. TypeOK'
    BY <1>0, <1>4, <2>1, Types, TypesNext DEF PruneRuns, cluster, history
  <2>. QED
    BY <1>4, <2>2, SameAge DEF PruneRuns, BaseInv
<1>5. CASE RefreshStatus
  <2>1. status' \in Names \cup {0}
    BY <1>0, <1>5, LastRunNames DEF RefreshStatus
  <2>2. watch' \in Watch /\ watch'.runs = watch.runs
    <3>1. watch.status \in Seq(Names \cup {0})
      BY <1>0 DEF Watch
    <3>2. Append(watch.status, status') \in Seq(Names \cup {0})
      BY <2>1, <3>1, Appends
    <3>. QED
      BY <1>0, <1>5, <3>2 DEF RefreshStatus, Watch
  <2>3. TypeOK'
    BY <1>0, <1>5, <2>1, <2>2, Types, TypesNext, Objects DEF RefreshStatus, cluster, history
  <2>. QED
    BY <1>5, <2>2, <2>3, SameAge DEF RefreshStatus, BaseInv
<1>6. ASSUME NEW t \in Ticks, ReconcileTrigger(t)
      PROVE  TypeOK' /\ Born'
  <2>1. cache.runs[t].born \in Nat
    BY <1>0, Objects DEF Cache, Runs
  <2>2. ctl' \in Ctl
    BY <1>0, <1>6, <2>1 DEF ReconcileTrigger, Ctl, Places
  <2>3. TypeOK'
    BY <1>0, <1>6, <2>2, Types, TypesNext DEF ReconcileTrigger, cluster, history
  <2>. QED
    BY <1>6, <2>3, SameAge DEF ReconcileTrigger, BaseInv
<1>7. CASE DeliverJob
  <2>1. /\ watch.jobs \in Seq(JobEvent) /\ watch.jobs # <<>>
        /\ cache' = [cache EXCEPT !.jobs[Head(watch.jobs).name] = Head(watch.jobs).object]
        /\ watch' = [watch EXCEPT !.jobs = Tail(watch.jobs)]
    BY <1>0, <1>7 DEF DeliverJob, Watch
  <2>2. Head(watch.jobs) \in JobEvent /\ Tail(watch.jobs) \in Seq(JobEvent)
    BY <2>1, Tails
  <2>3. cache' \in Cache /\ cache'.runs = cache.runs /\ watch' \in Watch /\ watch'.runs = watch.runs
    BY <1>0, <2>1, <2>2 DEF Cache, Watch, JobEvent
  <2>4. TypeOK'
    BY <1>0, <1>7, <2>3, Types, TypesNext DEF DeliverJob, cluster, history
  <2>. QED
    BY <1>7, <2>3, <2>4, SameAge DEF DeliverJob, BaseInv
<1>8. CASE DeliverRun
  <2>1. /\ watch.runs \in Seq(RunEvent) /\ watch.runs # <<>>
        /\ cache' = [cache EXCEPT !.runs[Head(watch.runs).name] = Head(watch.runs).object]
        /\ watch' = [watch EXCEPT !.runs = Tail(watch.runs)]
        /\ cache.runs \in [Names -> Runs]
    BY <1>0, <1>8 DEF DeliverRun, Watch, Cache
  <2>2. /\ Head(watch.runs) \in RunEvent /\ Tail(watch.runs) \in Seq(RunEvent)
        /\ Head(watch.runs) = watch.runs[1] /\ 1 \in 1 .. Len(watch.runs)
        /\ \A i \in 1 .. Len(Tail(watch.runs)) :
              i + 1 \in 1 .. Len(watch.runs) /\ Tail(watch.runs)[i] = watch.runs[i + 1]
    BY <2>1, Tails
  <2>3. Head(watch.runs).name \in Names /\ Head(watch.runs).object \in Runs
    BY <2>2 DEF RunEvent
  <2>4. /\ cache' \in Cache /\ watch' \in Watch /\ watch'.runs = Tail(watch.runs)
        /\ cache'.runs = [cache.runs EXCEPT ![Head(watch.runs).name] = Head(watch.runs).object]
    BY <1>0, <2>1, <2>2, <2>3 DEF Cache, Watch
  <2>5. TypeOK'
    BY <1>0, <1>8, <2>4, Types, TypesNext DEF DeliverRun, cluster, history
  <2>6. /\ \A n \in Names : Aged(runs[n]) /\ Aged(cache.runs[n])
        /\ \A i \in 1 .. Len(watch.runs) : Aged(watch.runs[i].object)
        /\ UNCHANGED <<runs, clock>>
    BY <1>8 DEF BaseInv, Born, DeliverRun
  <2>7. \A n \in Names : Aged(cache.runs[n])'
    BY <2>1, <2>2, <2>4, <2>6 DEF Aged
  <2>8. \A i \in 1 .. Len(watch'.runs) : Aged(watch.runs[i].object)'
    BY <2>2, <2>4, <2>6 DEF Aged
  <2>. QED
    BY <2>5, <2>6, <2>7, <2>8 DEF Born, Aged
<1>9. CASE DeliverSchedule
  <2>1. watch.status \in Seq(Names \cup {0}) /\ watch.status # <<>>
    BY <1>0, <1>9 DEF DeliverSchedule, Watch
  <2>2. Head(watch.status) \in Names \cup {0} /\ Tail(watch.status) \in Seq(Names \cup {0})
    BY <2>1, Tails
  <2>3. cache' \in Cache /\ cache'.runs = cache.runs /\ watch' \in Watch /\ watch'.runs = watch.runs
    BY <1>0, <1>9, <2>2 DEF Cache, Watch, DeliverSchedule
  <2>4. TypeOK'
    BY <1>0, <1>9, <2>3, Types, TypesNext DEF DeliverSchedule, cluster, history
  <2>. QED
    BY <1>9, <2>3, <2>4, SameAge DEF DeliverSchedule, BaseInv
<1>10. CASE ReconcileFails
  <2>1. ctl' \in Ctl /\ queued' \in BOOLEAN /\ faults' \in 0 .. MaxFaults
    BY <1>0, <1>10, Objects DEF ReconcileFails, Retry
  <2>2. TypeOK'
    BY <1>0, <1>10, <2>1, Types, TypesNext DEF ReconcileFails, cluster, history
  <2>. QED
    BY <1>10, <2>2, SameAge DEF ReconcileFails, BaseInv
<1>11. CASE Restart
  <2>1. ctl' \in Ctl /\ queued' \in BOOLEAN /\ faults' \in 0 .. MaxFaults
    BY <1>0, <1>11, Objects DEF Restart, Retry
  <2>2. <<>> \in Seq(JobEvent) /\ <<>> \in Seq(RunEvent) /\ <<>> \in Seq(Names \cup {0})
    OBVIOUS
  <2>3. cache' \in Cache /\ cache'.runs = runs /\ watch' \in Watch /\ watch'.runs = <<>>
    BY <1>0, <1>11, <2>2 DEF Cache, Watch, Restart
  <2>4. TypeOK'
    BY <1>0, <1>11, <2>1, <2>3, Types, TypesNext DEF Restart, cluster, history
  <2>. QED
    BY <1>11, <2>3, <2>4 DEF Restart, BaseInv, Born, Aged
<1>. QED
  BY <1>1, <1>2, <1>3, <1>4, <1>5, <1>6, <1>7, <1>8, <1>9, <1>10, <1>11 DEF Watches

\* Types and ages are kept by every step.
LEMMA BaseKept ==
    ASSUME BaseInv, [Next]_vars
    PROVE  BaseInv'
<1>1. TypeOK' /\ Born'
  <2>1. CASE Pod \/ Cluster
    BY <2>1, BaseRuns, BaseCluster DEF Pod, Cluster
  <2>2. CASE RunSteps \/ People
    BY <2>2, BaseRuns DEF RunSteps, People
  <2>3. CASE Watches \/ Controller \/ ReconcileFails \/ Restart
    BY <2>3, BaseRuns, BaseController DEF Controller
  <2>4. CASE UNCHANGED vars
    BY <2>4, Types, TypesNext, SameAge DEF vars, BaseInv
  <2>. QED
    BY <2>1, <2>2, <2>3, <2>4 DEF Next
<1>2. AtJob'
  <2>1. ctl \in Ctl
    BY Types DEF BaseInv
  <2>2. CASE Pod \/ Cluster \/ RunSteps \/ People \/ Watches \/ UNCHANGED vars
    BY <2>2 DEF Pod, RunSchedule, WaitForRun, Cluster, Tick, PodFails, Deadline, CleanJob, RunSteps, End,
         People, CreateScheduledRun, Remove, Watches, DeliverJob, DeliverRun, DeliverSchedule, vars, AtJob, BaseInv
  <2>3. CASE ctl' = Rest
    BY <2>3, RestIs DEF AtJob
  <2>4. CASE \/ Reconcile \/ VerifyJob \/ RecoverTick \/ AnnotateJob \/ PruneRuns \/ RefreshStatus
             \/ \E n \in Names : DeleteRun(n)
    <3>1. CASE ctl'.pc \in {"create", "annotate"} /\ ctl'.job = ctl.job /\ ctl.pc \in {"verify", "create"}
      BY <3>1 DEF AtJob, BaseInv
    <3>2. CASE ctl'.pc \in {"idle", "jobs", "prune"}
      BY <3>2 DEF AtJob
    <3>3. clock \in Nat
      BY Types DEF BaseInv
    <3>. QED
      BY <2>1, <2>3, <2>4, <3>1, <3>2, <3>3, Reconciles, Verifies, Recovers, Annotates, PrunesRuns, Refreshes, DeletesRun
  <2>5. ASSUME NEW t \in Ticks, ReconcileTrigger(t)
        PROVE  AtJob'
    BY <2>1, <2>5 DEF ReconcileTrigger, AtJob, BaseInv, Ctl
  <2>. QED
    BY <2>2, <2>3, <2>4, <2>5 DEF Next, Controller, ReconcileFails, Restart, Retry
<1>. QED
  BY <1>1, <1>2 DEF BaseInv

-----------------------------------------------------------------------------
(* Jobs only advance *)

\* A step from version j of a Job to version v.
Advance(j, v) ==
    \/ v = j
    \/ j = NoJob /\ v = [phase |-> "active", admitted |-> 0]
    \/ j.phase = "active" /\ Finished(v) /\ v.admitted = j.admitted
    \/ Finished(j) /\ v = NoJob
    \/ Exists(j) /\ j.admitted = 0 /\ v.phase = j.phase /\ v.admitted > 0

\* How Jobs and their views change: not at all, ...
JobsRest == UNCHANGED <<jobs, attempts>> /\ cache'.jobs = cache.jobs /\ watch'.jobs = watch.jobs

\* ... one of them is written, ...
JobWritten(t) ==
    /\ Advance(jobs[t], jobs'[t]) /\ attempts'[t] >= attempts[t]
    /\ jobs[t] = NoJob /\ jobs'[t] # NoJob => attempts[t] = 0 /\ attempts'[t] = 1
    /\ \A u \in Ticks \ {t} : jobs'[u] = jobs[u] /\ attempts'[u] = attempts[u]
    /\ cache'.jobs = cache.jobs
    /\ \/ jobs'[t] = jobs[t] /\ watch'.jobs = watch.jobs
       \/ jobs'[t] # jobs[t] /\ watch'.jobs = Append(watch.jobs, [name |-> t, object |-> jobs'[t]])
    /\ created' = created /\ runs' = runs
    /\ ctl' = ctl \/ (AnnotateJob /\ t = ctl.job)

\* ... an event arrives, ...
JobArrives ==
    /\ UNCHANGED <<jobs, attempts, created, runs, ctl>> /\ watch.jobs # <<>>
    /\ cache'.jobs = [cache.jobs EXCEPT ![Head(watch.jobs).name] = Head(watch.jobs).object]
    /\ watch'.jobs = Tail(watch.jobs)

\* ... or the controller, restarted, lists them anew.
JobsAnew ==
    /\ UNCHANGED <<jobs, attempts, created, runs>> /\ ctl' = Rest
    /\ cache'.jobs = jobs /\ watch'.jobs = <<>>

\* Every step does one of the four.
LEMMA JobSteps ==
    ASSUME BaseInv, JobInv, [Next]_vars
    PROVE  JobsRest \/ (\E t \in Ticks : JobWritten(t)) \/ JobArrives \/ JobsAnew
<1>0. /\ TypeOK /\ ctl \in Ctl /\ cache \in Cache /\ watch \in Watch /\ jobs \in [Ticks -> Jobs]
      /\ attempts \in [Ticks -> 0 .. BackoffLimit + 1]
  BY Types DEF BaseInv
<1>1. ASSUME NEW t \in Ticks, NEW j \in Jobs, SetJob(t, j), UNCHANGED cache,
             Advance(jobs[t], j), attempts'[t] >= attempts[t],
             jobs[t] = NoJob /\ j # NoJob => attempts[t] = 0 /\ attempts'[t] = 1,
             \A u \in Ticks \ {t} : attempts'[u] = attempts[u],
             created' = created, runs' = runs, ctl' = ctl \/ (AnnotateJob /\ t = ctl.job)
      PROVE  JobWritten(t)
  <2>1. /\ jobs'[t] = j /\ \A u \in Ticks \ {t} : jobs'[u] = jobs[u]
        /\ \/ j = jobs[t] /\ watch'.jobs = watch.jobs
           \/ j # jobs[t] /\ watch'.jobs = Append(watch.jobs, [name |-> t, object |-> j])
    BY <1>0, <1>1, JobSet
  <2>. QED
    BY <1>1, <2>1 DEF JobWritten
<1>2. ASSUME NEW t \in Ticks, Tick(t) \/ PodFails(t) \/ Deadline(t) \/ CleanJob(t) \/ WaitForRun(t)
      PROVE  JobWritten(t)
  <2>1. jobs[t] \in Jobs /\ attempts[t] \in Nat /\ jobs[t].phase \in JobPhases
    BY <1>0, ConstantsAssumption DEF Jobs
  <2>2. /\ \A u \in Ticks \ {t} : attempts'[u] = attempts[u]
        /\ created' = created /\ runs' = runs /\ ctl' = ctl /\ cache' = cache
    BY <1>0, <1>2 DEF Tick, PodFails, Deadline, CleanJob, WaitForRun, history
  <2>3. attempts'[t] >= attempts[t]
    BY <1>0, <1>2, <2>1 DEF Tick, PodFails, Deadline, CleanJob, WaitForRun
  <2>4. CASE Tick(t)
    <3>1. /\ SetJob(t, [phase |-> "active", admitted |-> 0]) /\ attempts'[t] = 1 /\ attempts[t] = 0
          /\ jobs[t] = NoJob
      BY <1>0, <2>4 DEF Tick
    <3>. QED
      BY <1>1, <2>1, <2>2, <2>3, <3>1, JobPhasesKept DEF Advance
  <2>5. CASE pods[t] # "none" /\ \E phase \in {"complete", "failed"} : SetJob(t, [jobs[t] EXCEPT !.phase = phase])
    <3>1. PICK phase \in {"complete", "failed"} : SetJob(t, [jobs[t] EXCEPT !.phase = phase])
      BY <2>5
    <3>2. jobs[t].phase = "active"
      BY <2>5 DEF JobInv, JobOK
    <3>3. PICK j \in Jobs : j = [jobs[t] EXCEPT !.phase = phase]
      BY <2>1, JobPhasesKept
    <3>4. Finished(j) /\ j.admitted = jobs[t].admitted /\ jobs[t] # NoJob
      BY <2>1, <3>2, <3>3 DEF Finished, Jobs, NoJob
    <3>. QED
      BY <1>1, <2>2, <2>3, <3>1, <3>2, <3>3, <3>4 DEF Advance
  <2>6. CASE CleanJob(t)
    BY <1>1, <2>2, <2>3, <2>6, Objects DEF CleanJob, Advance
  <2>7. CASE UNCHANGED <<jobs, watch>>
    BY <2>2, <2>3, <2>7 DEF JobWritten, Advance
  <2>. QED
    BY <1>2, <2>4, <2>5, <2>6, <2>7 DEF PodFails, Deadline, WaitForRun
<1>3. CASE AnnotateJob
  <2>1. CASE Current
    <3>1. /\ SetJob(ctl.job, [jobs[ctl.job] EXCEPT !.admitted = ctl.uid])
          /\ attempts' = attempts /\ cache' = cache /\ created' = created /\ runs' = runs
      BY <1>0, <1>3, <2>1, Annotates
    <3>2. ctl.job \in Ticks
      BY <1>0, <1>3, Annotates DEF BaseInv, AtJob
    <3>3. jobs[ctl.job] \in Jobs /\ ctl.uid \in Nat
      BY <1>0, <3>2 DEF Ctl
    <3>4. PICK j \in Jobs : j = [jobs[ctl.job] EXCEPT !.admitted = ctl.uid]
      BY <3>3, JobPhasesKept
    <3>5. Exists(jobs[ctl.job]) /\ jobs[ctl.job].admitted = 0 /\ ctl.uid > 0
      BY <1>0, <1>3, <2>1, Annotates DEF JobInv, Visits, Current
    <3>6. j.phase = jobs[ctl.job].phase /\ j.admitted > 0 /\ jobs[ctl.job] # NoJob
      BY <3>3, <3>4, <3>5 DEF Jobs, NoJob, Exists
    <3>7. attempts'[ctl.job] >= attempts[ctl.job]
      BY <1>0, <3>1, <3>2, ConstantsAssumption
    <3>. QED
      BY <1>1, <1>3, <3>1, <3>2, <3>4, <3>5, <3>6, <3>7 DEF Advance
  <2>2. CASE ~Current
    BY <1>0, <1>3, <2>2, Annotates DEF JobsRest
  <2>. QED
    BY <2>1, <2>2
<1>4. ASSUME NEW n \in Names, NEW r \in Runs, SetRun(n, r), UNCHANGED <<jobs, attempts, cache>>
      PROVE  JobsRest
  BY <1>0, <1>4, RunSet DEF JobsRest
<1>5. ASSUME NEW t \in Ticks, RunSchedule(t)
      PROVE  JobsRest
  <2>1. CASE Exists(runs[t])
    BY <1>5, <2>1 DEF RunSchedule, JobsRest
  <2>2. CASE ~Exists(runs[t])
    <3>1. Create(t, FALSE) /\ UNCHANGED <<jobs, attempts, cache>>
      BY <1>5, <2>2 DEF RunSchedule
    <3>. QED
      BY <1>0, <1>4, <3>1, Creates, Objects
  <2>. QED
    BY <2>1, <2>2
<1>6. CASE RunSteps
  <2>1. PICK n \in Names, phase \in Ends : End(n, phase)
    BY <1>6 DEF RunSteps
  <2>2. runs[n] \in Runs
    BY Types DEF BaseInv
  <2>. QED
    BY <1>4, <2>1, <2>2, RunPhasesKept DEF End, cluster
<1>7. CASE People
  <2>1. PICK n \in Names : CreateScheduledRun(n) \/ Remove(n)
    BY <1>7 DEF People
  <2>. QED
    BY <1>0, <1>4, <2>1, Creates, Objects DEF CreateScheduledRun, Remove, cluster
<1>8. CASE Watches
  <2>1. CASE DeliverJob
    <3>1. /\ watch.jobs \in Seq(JobEvent) /\ watch.jobs # <<>>
          /\ cache' = [cache EXCEPT !.jobs[Head(watch.jobs).name] = Head(watch.jobs).object]
          /\ watch' = [watch EXCEPT !.jobs = Tail(watch.jobs)]
          /\ UNCHANGED <<jobs, attempts, created, runs, ctl>>
      BY <1>0, <2>1 DEF DeliverJob, Watch, cluster, history
    <3>. QED
      BY <1>0, <3>1 DEF JobArrives, Cache, Watch
  <2>2. CASE DeliverRun \/ DeliverSchedule
    BY <1>0, <2>2 DEF DeliverRun, DeliverSchedule, JobsRest, Cache, Watch, cluster
  <2>. QED
    BY <1>8, <2>1, <2>2 DEF Watches
<1>9. CASE Reconcile \/ VerifyJob \/ PruneRuns \/ ReconcileFails \/ UNCHANGED vars
  BY <1>9 DEF Reconcile, VerifyJob, PruneRuns, ReconcileFails, vars, JobsRest, cluster
<1>10. CASE RefreshStatus
  BY <1>0, <1>10 DEF RefreshStatus, JobsRest, Watch, cluster
<1>11. CASE RecoverTick
  <2>1. clock \in Nat /\ ctl.job \in Names
    BY <1>0, <1>11, Types, Objects DEF RecoverTick, BaseInv, AtJob
  <2>. QED
    BY <1>0, <1>4, <1>11, <2>1, Recovers, Creates DEF JobsRest
<1>12. ASSUME NEW t \in Ticks, ReconcileTrigger(t)
       PROVE  JobsRest
  BY <1>12 DEF ReconcileTrigger, JobsRest, cluster
<1>13. ASSUME NEW n \in Names, DeleteRun(n)
       PROVE  JobsRest
  BY <1>0, <1>4, <1>13, DeletesRun, Objects
<1>14. CASE Restart
  BY <1>0, <1>14 DEF Restart, Retry, JobsAnew, cluster, history
<1>. QED
  BY <1>2, <1>3, <1>5, <1>6, <1>7, <1>8, <1>9, <1>10, <1>11, <1>12, <1>13, <1>14
     DEF Next, Pod, Cluster, Controller

\* What Advance keeps of a Job that was started.
LEMMA Advancing ==
    ASSUME NEW j \in Jobs, NEW w \in Jobs, Advance(j, w), j = NoJob => w = NoJob
    PROVE  /\ ~Exists(j) => ~Exists(w)
           /\ Finished(j) => w.phase \in {j.phase, "none"}
           /\ j.phase # "active" => w.phase # "active"
           /\ j.admitted # 0 /\ Exists(w) => w.admitted = j.admitted
           /\ Exists(w) => Exists(j)
  BY DEF Advance, Finished, Exists, NoJob, Jobs

\* The Jobs of ticks that happened advance, all of them in every step.
LEMMA AllAdvance ==
    ASSUME BaseInv, JobInv, [Next]_vars, NEW t \in Ticks
    PROVE  /\ Advance(jobs[t], jobs'[t]) /\ (attempts[t] > 0 => attempts'[t] > 0)
           /\ attempts[t] > 0 /\ jobs[t] = NoJob => jobs'[t] = NoJob
           /\ jobs[t] \in Jobs /\ jobs'[t] \in Jobs
<1>0. /\ jobs \in [Ticks -> Jobs] /\ jobs' \in [Ticks -> Jobs] /\ attempts[t] \in Nat /\ attempts'[t] \in Nat
  <2>1. TypeOK' /\ TypeOK
    BY BaseKept DEF BaseInv
  <2>2. /\ jobs \in [Ticks -> Jobs] /\ jobs' \in [Ticks -> Jobs]
        /\ attempts \in [Ticks -> 0 .. BackoffLimit + 1] /\ attempts' \in [Ticks -> 0 .. BackoffLimit + 1]
    BY <2>1 DEF TypeOK
  <2>. QED
    BY <2>2, ConstantsAssumption
<1>1. CASE UNCHANGED <<jobs, attempts>>
  BY <1>0, <1>1 DEF Advance
<1>2. ASSUME NEW u \in Ticks, JobWritten(u)
      PROVE  /\ Advance(jobs[t], jobs'[t]) /\ (attempts[t] > 0 => attempts'[t] > 0)
             /\ attempts[t] > 0 /\ jobs[t] = NoJob => jobs'[t] = NoJob
  <2>1. CASE t = u
    BY <1>0, <1>2, <2>1 DEF JobWritten
  <2>2. CASE t # u
    <3>1. jobs'[t] = jobs[t] /\ attempts'[t] = attempts[t]
      BY <1>2, <2>2 DEF JobWritten
    <3>. QED
      BY <3>1 DEF Advance
  <2>. QED
    BY <2>1, <2>2
<1>. QED
  BY <1>0, <1>1, <1>2, JobSteps DEF JobsRest, JobArrives, JobsAnew

\* What is over stays over, and what an old version said stays true.
LEMMA Stays ==
    ASSUME BaseInv, JobInv, [Next]_vars, NEW t \in Ticks
    PROVE  /\ Final(t) => Final(t)'
           /\ Settled(t) => Settled(t)'
           /\ \A v \in Jobs : Was(v, t) => Was(v, t)'
<1>1. /\ Advance(jobs[t], jobs'[t]) /\ (attempts[t] > 0 => attempts'[t] > 0)
      /\ attempts[t] > 0 /\ jobs[t] = NoJob => jobs'[t] = NoJob
      /\ jobs[t] \in Jobs /\ jobs'[t] \in Jobs
  BY AllAdvance
<1>2. Final(t) => Final(t)'
  BY <1>1, Advancing DEF Final
<1>3. Settled(t) => Settled(t)'
  BY <1>1, Advancing DEF Settled, Exists, Finished
<1>4. ASSUME NEW v \in Jobs, Was(v, t)
      PROVE  Was(v, t)'
  BY <1>1, <1>4, Advancing DEF Was, Exists, Finished
<1>. QED
  BY <1>2, <1>3, <1>4

\* What nobody sees unfinished any more nobody will.
LEMMA StaysPast ==
    ASSUME BaseInv, JobInv, [Next]_vars, NEW t \in Ticks, PastActive(t)
    PROVE  PastActive(t)'
<1>0. /\ watch.jobs \in Seq(JobEvent) /\ cache.jobs \in [Ticks -> Jobs]
  BY Types DEF BaseInv, Watch, Cache
<1>1. /\ Advance(jobs[t], jobs'[t]) /\ (attempts[t] > 0 => attempts'[t] > 0)
      /\ attempts[t] > 0 /\ jobs[t] = NoJob => jobs'[t] = NoJob
      /\ jobs[t] \in Jobs /\ jobs'[t] \in Jobs
  BY AllAdvance
<1>2. attempts'[t] > 0 /\ jobs'[t].phase # "active"
  BY <1>1, Advancing DEF PastActive
<1>3. CASE JobsRest
  BY <1>2, <1>3 DEF JobsRest, PastActive
<1>4. ASSUME NEW u \in Ticks, JobWritten(u)
      PROVE  PastActive(t)'
  <2>1. cache'.jobs = cache.jobs
    BY <1>4 DEF JobWritten
  <2>2. ASSUME NEW i \in 1 .. Len(watch'.jobs), watch'.jobs[i].name = t
        PROVE  watch'.jobs[i].object.phase # "active"
    <3>1. CASE watch'.jobs = watch.jobs
      BY <2>2, <3>1 DEF PastActive
    <3>2. CASE watch'.jobs = Append(watch.jobs, [name |-> u, object |-> jobs'[u]])
      <4>1. [name |-> u, object |-> jobs'[u]] \in JobEvent
        BY AllAdvance DEF JobEvent
      <4>2. CASE i \in 1 .. Len(watch.jobs)
        <5>1. watch'.jobs[i] = watch.jobs[i]
          BY <1>0, <3>2, <4>1, <4>2, Appends
        <5>. QED
          BY <2>2, <4>2, <5>1 DEF PastActive
      <4>3. CASE i \notin 1 .. Len(watch.jobs)
        <5>1. watch'.jobs[i] = [name |-> u, object |-> jobs'[u]]
          BY <1>0, <3>2, <4>1, <4>3, Appends
        <5>. QED
          BY <1>2, <2>2, <5>1
      <4>. QED
        BY <4>2, <4>3
    <3>. QED
      BY <1>4, <3>1, <3>2 DEF JobWritten
  <2>. QED
    BY <1>2, <2>1, <2>2 DEF PastActive
<1>5. CASE JobArrives
  <2>1. /\ cache'.jobs = [cache.jobs EXCEPT ![Head(watch.jobs).name] = Head(watch.jobs).object]
        /\ watch'.jobs = Tail(watch.jobs) /\ watch.jobs # <<>>
    BY <1>5 DEF JobArrives
  <2>2. /\ Head(watch.jobs) = watch.jobs[1] /\ 1 \in 1 .. Len(watch.jobs)
        /\ \A i \in 1 .. Len(Tail(watch.jobs)) :
              i + 1 \in 1 .. Len(watch.jobs) /\ Tail(watch.jobs)[i] = watch.jobs[i + 1]
    BY <1>0, <2>1, Tails
  <2>3. cache'.jobs[t].phase # "active"
    BY <1>0, <2>1, <2>2 DEF PastActive
  <2>. QED
    BY <1>2, <2>1, <2>2, <2>3 DEF PastActive
<1>6. CASE JobsAnew
  <2>1. cache'.jobs[t].phase # "active" /\ watch'.jobs = <<>>
    BY <1>6 DEF JobsAnew, PastActive
  <2>. QED
    BY <1>2, <2>1 DEF PastActive
<1>. QED
  BY <1>3, <1>4, <1>5, <1>6, JobSteps

-----------------------------------------------------------------------------
(* How runs and their views change *)

\* Not at all, ...
RunsRest ==
    /\ UNCHANGED <<runs, created, removed>>
    /\ cache'.runs = cache.runs /\ watch'.runs = watch.runs

\* ... one of them is written, ...
RunWritten(n) ==
    /\ \A m \in Names \ {n} : runs'[m] = runs[m] /\ created'[m] = created[m]
    /\ \/ runs' = runs /\ watch'.runs = watch.runs
       \/ watch'.runs = Append(watch.runs, [name |-> n, object |-> runs'[n]])
    /\ UNCHANGED <<jobs, attempts, cache>> /\ watch'.jobs = watch.jobs

\* ... because it is born: a pod asks for it, or the controller makes up for
\* it, or a person starts it; ...
Asks(t) ==
    /\ t \in Ticks /\ jobs[t].phase = "active" /\ ~Exists(runs[t]) /\ ctl' = ctl
    /\ PromptJobs => Exists(cache.jobs[t]) /\ (ctl.pc \in {"idle", "prune"} \/ Exists(ctl.listed[t]))

RunBorn(n) ==
    /\ runs'[n] = [phase |-> "Active", born |-> clock + 1, failure |-> runs'[n].failure]
    /\ created'[n] = created[n] + 1 /\ removed' = removed
    /\ \/ Asks(n)
       \/ RecoverTick /\ n = ctl.job /\ ~Exists(runs[n]) /\ ctl'.pc = "annotate"
       \/ n \in Manual /\ created[n] = 0 /\ ctl' = ctl

\* ... because it ends; ...
RunEnds(n) ==
    /\ runs[n].phase = "Active" /\ runs'[n].phase \in Ends /\ runs'[n].born = runs[n].born
    /\ UNCHANGED <<created, removed, ctl>>

\* ... because pruning or a person deletes it; ...
RunDeleted(n) ==
    /\ runs'[n] = NoRun /\ created' = created
    /\ \/ DeleteRun(n) /\ removed' = removed
       \/ Exists(runs[n]) /\ removed' = removed \cup {n} /\ ctl' = ctl

\* ... an event arrives, ...
RunArrives ==
    /\ UNCHANGED <<jobs, attempts, runs, created, removed, ctl>> /\ watch.runs # <<>>
    /\ cache'.runs = [cache.runs EXCEPT ![Head(watch.runs).name] = Head(watch.runs).object]
    /\ watch'.runs = Tail(watch.runs)
    /\ cache'.jobs = cache.jobs /\ watch'.jobs = watch.jobs

\* ... or the controller, restarted, lists them anew.
RunsAnew ==
    /\ UNCHANGED <<jobs, attempts, runs, created, removed>> /\ ctl' = Rest
    /\ cache'.runs = runs /\ watch'.runs = <<>>

LEMMA RunCases ==
    ASSUME BaseInv, JobInv, [Next]_vars
    PROVE  \/ RunsRest \/ RunArrives \/ RunsAnew
           \/ \E n \in Names : RunWritten(n) /\ (RunBorn(n) \/ RunEnds(n) \/ RunDeleted(n))
<1>0. /\ TypeOK /\ ctl \in Ctl /\ cache \in Cache /\ watch \in Watch /\ jobs \in [Ticks -> Jobs]
      /\ runs \in [Names -> Runs] /\ created \in [Names -> Nat] /\ clock \in Nat
  BY Types DEF BaseInv
<1>1. ASSUME NEW n \in Names, NEW r \in Runs, SetRun(n, r), UNCHANGED <<jobs, attempts, cache>>,
             \A m \in Names \ {n} : created'[m] = created[m]
      PROVE  RunWritten(n) /\ runs'[n] = r
  BY <1>0, <1>1, RunSet DEF RunWritten
<1>2. ASSUME NEW n \in Names, NEW failure \in BOOLEAN, Create(n, failure), UNCHANGED <<jobs, attempts, cache>>
      PROVE  /\ RunWritten(n) /\ created'[n] = created[n] + 1
             /\ runs'[n] = [phase |-> "Active", born |-> clock + 1, failure |-> runs'[n].failure]
  <2>1. PICK r \in Runs : /\ r = [phase |-> "Active", born |-> clock + 1, failure |-> failure]
                          /\ SetRun(n, r) /\ created'[n] = created[n] + 1
                          /\ \A m \in Names \ {n} : created'[m] = created[m]
    BY <1>0, <1>2, Creates
  <2>2. RunWritten(n) /\ runs'[n] = r
    BY <1>1, <1>2, <2>1
  <2>. QED
    BY <2>1, <2>2
<1>3. ASSUME NEW t \in Ticks, RunSchedule(t)
      PROVE  RunsRest \/ (t \in Names /\ RunWritten(t) /\ RunBorn(t))
  <2>1. CASE Exists(runs[t])
    BY <1>3, <2>1 DEF RunSchedule, RunsRest
  <2>2. CASE ~Exists(runs[t])
    <3>1. Create(t, FALSE) /\ UNCHANGED <<jobs, attempts, cache, ctl, removed>>
      BY <1>3, <2>2 DEF RunSchedule
    <3>2. Asks(t)
      BY <1>3, <2>2, <3>1 DEF RunSchedule, Asks, JobInv, JobOK
    <3>. QED
      BY <1>2, <3>1, <3>2, Objects DEF RunBorn
  <2>. QED
    BY <2>1, <2>2
<1>4. CASE RunSteps
  <2>1. PICK n \in Names, phase \in Ends : End(n, phase)
    BY <1>4 DEF RunSteps
  <2>2. PICK r \in Runs : r = [runs[n] EXCEPT !.phase = phase] /\ runs[n] \in Runs
    BY <1>0, RunPhasesKept
  <2>3. SetRun(n, r) /\ UNCHANGED <<jobs, attempts, cache, created, removed, ctl>> /\ runs[n].phase = "Active"
    BY <2>1, <2>2 DEF End, cluster, history
  <2>4. r.phase = phase /\ r.born = runs[n].born
    BY <2>2 DEF Runs
  <2>5. RunWritten(n) /\ runs'[n] = r
    BY <1>1, <2>3
  <2>. QED
    BY <2>3, <2>4, <2>5 DEF RunEnds
<1>5. CASE People
  <2>1. PICK n \in Names : CreateScheduledRun(n) \/ Remove(n)
    BY <1>5 DEF People
  <2>2. CASE CreateScheduledRun(n)
    BY <1>2, <2>2 DEF CreateScheduledRun, cluster, RunBorn
  <2>3. CASE Remove(n)
    BY <1>1, <2>3, Objects DEF Remove, cluster, RunDeleted
  <2>. QED
    BY <2>1, <2>2, <2>3
<1>6. CASE RecoverTick
  <2>1. ctl.job \in Names
    BY <1>0, <1>6, Objects, Recovers DEF BaseInv, AtJob
  <2>2. CASE Exists(runs[ctl.job])
    BY <1>0, <1>6, <2>2, Recovers DEF RunsRest
  <2>3. CASE ~Exists(runs[ctl.job])
    BY <1>0, <1>2, <1>6, <2>1, <2>3, Recovers DEF RunBorn
  <2>. QED
    BY <2>2, <2>3
<1>7. ASSUME NEW n \in Names, DeleteRun(n)
      PROVE  RunWritten(n) /\ RunDeleted(n)
  BY <1>0, <1>1, <1>7, DeletesRun, Objects DEF RunDeleted
<1>8. CASE DeliverRun
  <2>1. /\ watch.runs \in Seq(RunEvent) /\ watch.runs # <<>>
        /\ cache' = [cache EXCEPT !.runs[Head(watch.runs).name] = Head(watch.runs).object]
        /\ watch' = [watch EXCEPT !.runs = Tail(watch.runs)]
        /\ UNCHANGED <<jobs, attempts, runs, created, removed, ctl>>
    BY <1>0, <1>8 DEF DeliverRun, Watch, cluster, history
  <2>. QED
    BY <1>0, <2>1 DEF RunArrives, Cache, Watch
<1>9. CASE DeliverJob \/ DeliverSchedule
  BY <1>0, <1>9 DEF DeliverJob, DeliverSchedule, RunsRest, Cache, Watch, history
<1>10. CASE Restart
  BY <1>0, <1>10 DEF Restart, Retry, RunsAnew, cluster, history
<1>11. CASE Reconcile \/ VerifyJob \/ PruneRuns \/ ReconcileFails \/ UNCHANGED vars
  BY <1>11 DEF Reconcile, VerifyJob, PruneRuns, ReconcileFails, vars, RunsRest, history
<1>12. CASE RefreshStatus
  BY <1>0, <1>12 DEF RefreshStatus, RunsRest, Watch, history
<1>13. ASSUME NEW t \in Ticks, ReconcileTrigger(t)
       PROVE  RunsRest
  BY <1>13 DEF ReconcileTrigger, RunsRest, history
<1>14. ASSUME NEW t \in Ticks, NEW j \in Jobs, SetJob(t, j), UNCHANGED <<runs, created, removed, cache>>
       PROVE  RunsRest
  BY <1>0, <1>14, JobSet DEF RunsRest
<1>15. ASSUME NEW t \in Ticks, Tick(t) \/ PodFails(t) \/ Deadline(t) \/ CleanJob(t) \/ WaitForRun(t)
       PROVE  RunsRest
  <2>1. jobs[t] \in Jobs
    BY <1>0
  <2>2. UNCHANGED <<runs, created, removed, cache>>
    BY <1>15 DEF Tick, PodFails, Deadline, CleanJob, WaitForRun, history
  <2>3. CASE UNCHANGED watch
    BY <2>2, <2>3 DEF RunsRest
  <2>4. CASE \E j \in Jobs : SetJob(t, j)
    BY <1>14, <2>2, <2>4
  <2>. QED
    BY <1>15, <2>1, <2>3, <2>4, Objects, JobPhasesKept DEF Tick, PodFails, Deadline, CleanJob, WaitForRun
<1>16. CASE AnnotateJob
  <2>1. UNCHANGED <<runs, created, removed, cache>>
    BY <1>0, <1>16, Annotates
  <2>2. CASE Current
    <3>1. ctl.job \in Ticks
      BY <1>0, <1>16, Annotates DEF BaseInv, AtJob
    <3>2. [jobs[ctl.job] EXCEPT !.admitted = ctl.uid] \in Jobs
      BY <1>0, <3>1, JobPhasesKept DEF Ctl
    <3>. QED
      BY <1>0, <1>14, <1>16, <2>1, <2>2, <3>1, <3>2, Annotates
  <2>3. CASE ~Current
    BY <1>0, <1>16, <2>1, <2>3, Annotates DEF RunsRest
  <2>. QED
    BY <2>2, <2>3
<1>. QED
  BY <1>3, <1>4, <1>5, <1>6, <1>7, <1>8, <1>9, <1>10, <1>11, <1>12, <1>13, <1>15, <1>16
     DEF Next, Pod, Cluster, Watches, Controller

-----------------------------------------------------------------------------
(* What is known of Jobs *)

\* What a step does to the list.
LEMMA ListCases ==
    ASSUME BaseInv, [Next]_vars
    PROVE  \/ ctl'.listed = ctl.listed /\ (ctl'.pc \in Working => ctl.pc \in Working)
           \/ Reconcile
           \/ ctl'.listed = [t \in Ticks |-> NoJob] /\ ctl'.pc \notin Working
<1>0. ctl \in Ctl /\ clock \in Nat
  BY Types DEF BaseInv
<1>1. CASE ctl' = ctl
  BY <1>1
<1>2. CASE ctl' = Rest
  BY <1>2, RestIs DEF Working
<1>3. CASE VerifyJob \/ RecoverTick \/ AnnotateJob
  BY <1>0, <1>2, <1>3, Verifies, Recovers, Annotates DEF Working
<1>4. CASE PruneRuns \/ RefreshStatus
  BY <1>2, <1>4, PrunesRuns, Refreshes DEF Working
<1>5. ASSUME NEW n \in Names, DeleteRun(n)
      PROVE  ctl'.listed = ctl.listed /\ (ctl'.pc \in Working => ctl.pc \in Working)
  BY <1>0, <1>5, DeletesRun DEF Working
<1>6. ASSUME NEW t \in Ticks, ReconcileTrigger(t)
      PROVE  ctl'.listed = ctl.listed /\ (ctl'.pc \in Working => ctl.pc \in Working)
  BY <1>0, <1>6 DEF ReconcileTrigger, Ctl, Working
<1>7. CASE Pod \/ Cluster \/ RunSteps \/ People \/ Watches \/ UNCHANGED vars
  BY <1>1, <1>7 DEF Pod, RunSchedule, WaitForRun, Cluster, Tick, PodFails, Deadline, CleanJob, RunSteps, End,
     People, CreateScheduledRun, Remove, Watches, DeliverJob, DeliverRun, DeliverSchedule, vars
<1>8. CASE ReconcileFails \/ Restart
  BY <1>2, <1>8, Retries DEF ReconcileFails, Restart
<1>. QED
  BY <1>3, <1>4, <1>5, <1>6, <1>7, <1>8 DEF Next, Controller

\* A run is born only of a Job that was started.
LEMMA BornOfJob ==
    ASSUME BaseInv, JobInv, [Next]_vars, NEW t \in Ticks, created'[t] > 0
    PROVE  attempts[t] > 0
<1>1. CASE created[t] > 0
  BY <1>1 DEF JobInv, JobOK
<1>2. CASE ~(created[t] > 0)
  <2>1. created'[t] # created[t]
    BY <1>2
  <2>2. PICK n \in Names : RunWritten(n) /\ (RunBorn(n) \/ RunEnds(n) \/ RunDeleted(n))
    BY <2>1, RunCases DEF RunsRest, RunArrives, RunsAnew
  <2>3. n = t
    BY <2>1, <2>2, Objects DEF RunWritten
  <2>4. RunBorn(t)
    BY <2>1, <2>2, <2>3 DEF RunEnds, RunDeleted
  <2>5. CASE Asks(t)
    BY <2>5 DEF Asks, JobInv, JobOK, Exists
  <2>6. CASE RecoverTick /\ t = ctl.job
    <3>1. Exists(ctl.listed[t])
      BY <2>6 DEF RecoverTick, JobInv, Visits
    <3>. QED
      BY <3>1 DEF JobInv, Views, Was
  <2>. QED
    BY <2>4, <2>5, <2>6, Objects DEF RunBorn
<1>. QED
  BY <1>1, <1>2

\* Pods and runs belong to Jobs.
LEMMA JobKept ==
    ASSUME BaseInv, JobInv, [Next]_vars, NEW t \in Ticks
    PROVE  JobOK(t)'
<1>0. /\ jobs \in [Ticks -> Jobs] /\ pods \in [Ticks -> {"none", "create", "wait"}]
      /\ jobs' \in [Ticks -> Jobs] /\ TypeOK
  BY BaseKept DEF BaseInv, TypeOK
<1>1. /\ Advance(jobs[t], jobs'[t]) /\ (attempts[t] > 0 => attempts'[t] > 0)
      /\ attempts[t] > 0 /\ jobs[t] = NoJob => jobs'[t] = NoJob
      /\ jobs[t] \in Jobs /\ jobs'[t] \in Jobs
  BY AllAdvance
<1>2. created'[t] > 0 => attempts'[t] > 0
  BY <1>1, BornOfJob
<1>3. Exists(jobs'[t]) => attempts'[t] > 0
  <2>1. CASE jobs'[t] = jobs[t]
    BY <1>1, <2>1 DEF JobInv, JobOK
  <2>2. CASE jobs'[t] # jobs[t]
    <3>1. PICK u \in Ticks : JobWritten(u)
      BY <2>2, JobSteps DEF JobsRest, JobArrives, JobsAnew
    <3>2. u = t
      BY <2>2, <3>1 DEF JobWritten
    <3>3. CASE jobs[t] = NoJob
      BY <2>2, <3>1, <3>2, <3>3 DEF JobWritten
    <3>4. CASE jobs[t] # NoJob
      BY <1>1, <2>2, <3>4, Advancing DEF JobInv, JobOK
    <3>. QED
      BY <3>3, <3>4
  <2>. QED
    BY <2>1, <2>2
<1>4. pods'[t] # "none" => jobs'[t].phase = "active"
  <2>1. CASE UNCHANGED <<jobs, pods>>
    BY <2>1 DEF JobInv, JobOK
  <2>2. ASSUME NEW u \in Ticks, NEW j \in Jobs, SetJob(u, j), Finished(j) \/ ~Exists(j),
               pods' = [pods EXCEPT ![u] = "none"]
        PROVE  pods'[t] # "none" => jobs'[t].phase = "active"
    <3>1. \A v \in Ticks \ {u} : jobs'[v] = jobs[v]
      BY <1>0, <2>2, JobSet
    <3>. QED
      BY <1>0, <2>2, <3>1 DEF JobInv, JobOK
  <2>3. ASSUME NEW u \in Ticks, Tick(u)
        PROVE  pods'[t] # "none" => jobs'[t].phase = "active"
    <3>1. PICK j \in Jobs : j = [phase |-> "active", admitted |-> 0] /\ SetJob(u, j)
      BY <2>3, JobPhasesKept, Objects DEF Tick
    <3>2. jobs'[u] = j /\ \A v \in Ticks \ {u} : jobs'[v] = jobs[v]
      BY <1>0, <3>1, JobSet
    <3>3. pods' = [pods EXCEPT ![u] = "create"]
      BY <2>3 DEF Tick
    <3>. QED
      BY <1>0, <3>1, <3>2, <3>3 DEF JobInv, JobOK
  <2>4. ASSUME NEW u \in Ticks, PodFails(u) \/ Deadline(u) \/ WaitForRun(u)
        PROVE  pods'[t] # "none" => jobs'[t].phase = "active"
    <3>1. pods[u] # "none" /\ jobs[u] \in Jobs
      BY <1>0, <2>4 DEF PodFails, Deadline, WaitForRun
    <3>2. CASE pods' = [pods EXCEPT ![u] = "create"] /\ jobs' = jobs
      BY <1>0, <3>1, <3>2 DEF JobInv, JobOK
    <3>3. CASE \E phase \in {"complete", "failed"} :
                  SetJob(u, [jobs[u] EXCEPT !.phase = phase]) /\ pods' = [pods EXCEPT ![u] = "none"]
      <4>1. PICK phase \in {"complete", "failed"} :
                  SetJob(u, [jobs[u] EXCEPT !.phase = phase]) /\ pods' = [pods EXCEPT ![u] = "none"]
        BY <3>3
      <4>2. PICK j \in Jobs : j = [jobs[u] EXCEPT !.phase = phase]
        BY <3>1, JobPhasesKept
      <4>3. Finished(j)
        BY <3>1, <4>2 DEF Finished, Jobs
      <4>. QED
        BY <2>2, <4>1, <4>2, <4>3
    <3>. QED
      BY <2>4, <3>2, <3>3 DEF PodFails, Deadline, WaitForRun
  <2>5. ASSUME NEW u \in Ticks, CleanJob(u)
        PROVE  pods'[t] # "none" => jobs'[t].phase = "active"
    <3>1. Finished(jobs[u]) /\ SetJob(u, NoJob) /\ pods' = pods
      BY <2>5 DEF CleanJob
    <3>2. pods[u] = "none"
      BY <3>1 DEF JobInv, JobOK, Finished
    <3>3. \A v \in Ticks \ {u} : jobs'[v] = jobs[v]
      BY <1>0, <3>1, JobSet, Objects
    <3>. QED
      BY <3>1, <3>2, <3>3 DEF JobInv, JobOK
  <2>6. ASSUME NEW u \in Ticks, RunSchedule(u)
        PROVE  pods'[t] # "none" => jobs'[t].phase = "active"
    BY <1>0, <2>6 DEF RunSchedule, JobInv, JobOK
  <2>7. CASE AnnotateJob
    <3>1. pods' = pods
      BY <2>7 DEF AnnotateJob
    <3>2. jobs[t].phase = "active" => jobs'[t].phase = "active"
      <4>1. CASE jobs' = jobs
        BY <4>1
      <4>2. CASE Current
        <5>1. ctl.job \in Ticks /\ ctl.uid \in Nat /\ SetJob(ctl.job, [jobs[ctl.job] EXCEPT !.admitted = ctl.uid])
          BY <2>7, <4>2, Annotates, Types DEF BaseInv, AtJob, Ctl
        <5>2. PICK j \in Jobs : j = [jobs[ctl.job] EXCEPT !.admitted = ctl.uid]
          BY <1>0, <5>1, JobPhasesKept
        <5>3. j.phase = jobs[ctl.job].phase
          BY <1>0, <5>1, <5>2 DEF Jobs
        <5>4. jobs'[ctl.job] = j /\ \A v \in Ticks \ {ctl.job} : jobs'[v] = jobs[v]
          BY <1>0, <5>1, <5>2, JobSet
        <5>. QED
          BY <5>3, <5>4
      <4>. QED
        BY <2>7, <4>1, <4>2, Annotates, Types DEF BaseInv
    <3>. QED
      BY <3>1, <3>2 DEF JobInv, JobOK
  <2>8. CASE \/ RunSteps \/ People \/ Watches \/ ReconcileFails \/ Restart \/ UNCHANGED vars
             \/ Reconcile \/ VerifyJob \/ RecoverTick \/ PruneRuns \/ RefreshStatus
             \/ (\E u \in Ticks : ReconcileTrigger(u)) \/ (\E n \in Names : DeleteRun(n))
    <3>1. UNCHANGED <<jobs, pods>>
      BY <2>8 DEF RunSteps, End, People, CreateScheduledRun, Remove, Watches, DeliverJob, DeliverRun,
         DeliverSchedule, ReconcileFails, Restart, vars, Reconcile, VerifyJob, RecoverTick, PruneRuns,
         RefreshStatus, ReconcileTrigger, DeleteRun, cluster
    <3>. QED
      BY <2>1, <3>1
  <2>. QED
    BY <2>3, <2>4, <2>5, <2>6, <2>7, <2>8 DEF Next, Pod, Cluster, Controller
<1>. QED
  BY <1>2, <1>3, <1>4 DEF JobOK

\* What the head of the watch of Jobs says, and what follows it.
LEMMA HeadOfJobs ==
    ASSUME BaseInv, JobInv, [Next]_vars, JobArrives,
           NEW t, NEW v, t = Head(watch.jobs).name, v = Head(watch.jobs).object
    PROVE  /\ t \in Ticks /\ v \in Jobs
           /\ cache'.jobs[t] = v /\ \A u \in Ticks \ {t} : cache'.jobs[u] = cache.jobs[u]
           /\ Exists(v) => Was(v, t)'
           /\ ~Exists(v) => Final(t)'
           /\ v.phase # "active" => PastActive(t)'
<1>0. /\ watch.jobs \in Seq(JobEvent) /\ cache.jobs \in [Ticks -> Jobs] /\ watch.jobs # <<>>
      /\ cache'.jobs = [cache.jobs EXCEPT ![t] = v] /\ watch'.jobs = Tail(watch.jobs)
      /\ jobs' = jobs /\ attempts' = attempts
  BY Types DEF BaseInv, Watch, Cache, JobArrives
<1>1. /\ Head(watch.jobs) = watch.jobs[1] /\ 1 \in 1 .. Len(watch.jobs) /\ Head(watch.jobs) \in JobEvent
      /\ \A i \in 1 .. Len(Tail(watch.jobs)) :
            i + 1 \in 1 + 1 .. Len(watch.jobs) /\ Tail(watch.jobs)[i] = watch.jobs[i + 1]
  BY <1>0, Tails
<1>2. t \in Ticks /\ v \in Jobs
  BY <1>1 DEF JobEvent
<1>3. cache'.jobs[t] = v /\ \A u \in Ticks \ {t} : cache'.jobs[u] = cache.jobs[u]
  BY <1>0, <1>2
<1>4. Follows(1) /\ watch.jobs[1].name = t /\ watch.jobs[1].object = v
  BY <1>1 DEF JobInv, JobEvents
<1>5. /\ Exists(v) => Was(v, t)
      /\ ~Exists(v) => Final(t)
      /\ v.phase # "active" =>
            /\ attempts[t] > 0 /\ jobs[t].phase # "active"
            /\ \A j \in 1 + 1 .. Len(watch.jobs) :
                  watch.jobs[j].name = t => watch.jobs[j].object.phase # "active"
  BY <1>4 DEF Follows
<1>6. Exists(v) => Was(v, t)'
  BY <1>0, <1>5 DEF Was
<1>7. ~Exists(v) => Final(t)'
  BY <1>0, <1>5 DEF Final
<1>8. v.phase # "active" => PastActive(t)'
  BY <1>0, <1>1, <1>3, <1>5 DEF PastActive
<1>. QED
  BY <1>2, <1>3, <1>6, <1>7, <1>8

\* The Jobs on the watch are versions, in order.
LEMMA EventsKept ==
    ASSUME BaseInv, JobInv, [Next]_vars
    PROVE  JobEvents'
<1>0. /\ watch.jobs \in Seq(JobEvent) /\ Len(watch.jobs) \in Nat
      /\ \A i \in 1 .. Len(watch.jobs) : watch.jobs[i].name \in Ticks /\ watch.jobs[i].object \in Jobs
  <2>1. watch.jobs \in Seq(JobEvent)
    BY Types DEF BaseInv, Watch
  <2>2. \A i \in 1 .. Len(watch.jobs) : watch.jobs[i] \in JobEvent
    BY <2>1
  <2>. QED
    BY <2>1, <2>2 DEF JobEvent
<1>1. ASSUME NEW i \in 1 .. Len(watch.jobs), NEW t, NEW v,
             t = watch.jobs[i].name, v = watch.jobs[i].object
      PROVE  /\ Exists(v) => Was(v, t)'
             /\ ~Exists(v) => Final(t)'
             /\ v.phase # "active" =>
                   /\ attempts'[t] > 0 /\ jobs'[t].phase # "active"
                   /\ \A j \in i + 1 .. Len(watch.jobs) :
                         watch.jobs[j].name = t => watch.jobs[j].object.phase # "active"
  <2>1. t \in Ticks /\ v \in Jobs
    BY <1>0, <1>1
  <2>2. /\ Exists(v) => Was(v, t)
        /\ ~Exists(v) => Final(t)
        /\ v.phase # "active" =>
              /\ attempts[t] > 0 /\ jobs[t].phase # "active"
              /\ \A j \in i + 1 .. Len(watch.jobs) :
                    watch.jobs[j].name = t => watch.jobs[j].object.phase # "active"
    BY <1>1 DEF JobInv, JobEvents, Follows
  <2>3. (Exists(v) => Was(v, t)') /\ (~Exists(v) => Final(t)')
    BY <2>1, <2>2, Stays
  <2>4. v.phase # "active" => attempts'[t] > 0 /\ jobs'[t].phase # "active"
    <3>1. /\ Advance(jobs[t], jobs'[t]) /\ (attempts[t] > 0 => attempts'[t] > 0)
          /\ attempts[t] > 0 /\ jobs[t] = NoJob => jobs'[t] = NoJob
          /\ jobs[t] \in Jobs /\ jobs'[t] \in Jobs
      BY <2>1, AllAdvance
    <3>. QED
      BY <2>2, <3>1, Advancing
  <2>. QED
    BY <2>2, <2>3, <2>4
<1>2. CASE watch'.jobs = watch.jobs
  <2>1. ASSUME NEW i \in 1 .. Len(watch'.jobs)
        PROVE  Follows(i)'
    <3>1. PICK t, v : t = watch.jobs[i].name /\ v = watch.jobs[i].object
      OBVIOUS
    <3>2. i \in 1 .. Len(watch.jobs)
      BY <1>2
    <3>. QED
      BY <1>1, <1>2, <3>1, <3>2 DEF Follows, Was, Final
  <2>. QED
    BY <2>1 DEF JobEvents
<1>3. ASSUME NEW u \in Ticks, JobWritten(u), jobs'[u] # jobs[u],
             watch'.jobs = Append(watch.jobs, [name |-> u, object |-> jobs'[u]])
      PROVE  JobEvents'
  <2>1. PICK w : w = jobs'[u]
    OBVIOUS
  <2>2. /\ Advance(jobs[u], w) /\ (attempts[u] > 0 => attempts'[u] > 0)
        /\ attempts[u] > 0 /\ jobs[u] = NoJob => w = NoJob
        /\ jobs[u] \in Jobs /\ w \in Jobs
    BY <2>1, AllAdvance
  <2>3. [name |-> u, object |-> w] \in JobEvent
    BY <2>2 DEF JobEvent
  <2>4. /\ Len(watch'.jobs) = Len(watch.jobs) + 1
        /\ \A i \in 1 .. Len(watch.jobs) : watch'.jobs[i] = watch.jobs[i]
        /\ watch'.jobs[Len(watch.jobs) + 1].name = u /\ watch'.jobs[Len(watch.jobs) + 1].object = w
    <3>1. watch'.jobs = Append(watch.jobs, [name |-> u, object |-> w])
      BY <1>3, <2>1
    <3>. QED
      BY <1>0, <2>3, <3>1, Appends
  <2>5. ASSUME NEW i \in 1 .. Len(watch.jobs)
        PROVE  Follows(i)'
    <3>1. PICK t, v : t = watch.jobs[i].name /\ v = watch.jobs[i].object
      OBVIOUS
    <3>2. /\ Exists(v) => Was(v, t)'
          /\ ~Exists(v) => Final(t)'
          /\ v.phase # "active" =>
                /\ attempts'[t] > 0 /\ jobs'[t].phase # "active"
                /\ \A j \in i + 1 .. Len(watch.jobs) :
                      watch.jobs[j].name = t => watch.jobs[j].object.phase # "active"
      BY <1>1, <3>1
    <3>3. watch'.jobs[i].name = t /\ watch'.jobs[i].object = v
      BY <2>4, <3>1
    <3>4. ASSUME v.phase # "active", NEW j \in i + 1 .. Len(watch'.jobs), watch'.jobs[j].name = t
          PROVE  watch'.jobs[j].object.phase # "active"
      <4>1. CASE j \in 1 .. Len(watch.jobs)
        BY <1>0, <2>4, <3>2, <3>4, <4>1
      <4>2. CASE j = Len(watch.jobs) + 1
        BY <2>1, <2>4, <3>2, <3>4, <4>2
      <4>. QED
        BY <1>0, <2>4, <4>1, <4>2
    <3>. QED
      BY <3>2, <3>3, <3>4 DEF Follows, Was, Final
  <2>6. ASSUME NEW i, i = Len(watch.jobs) + 1
        PROVE  Follows(i)'
    <3>1. watch'.jobs[i].name = u /\ watch'.jobs[i].object = w
      BY <2>4, <2>6
    <3>2. i + 1 .. Len(watch'.jobs) = {}
      BY <1>0, <2>4, <2>6
    <3>3. Exists(w) => attempts'[u] > 0
      BY <2>1, JobKept DEF JobOK
    <3>4. ~Exists(w) => attempts'[u] > 0
      <4>1. ~Exists(w) => Exists(jobs[u])
        BY <1>3, <2>1, <2>2 DEF Advance, Exists, NoJob, Finished
      <4>. QED
        BY <2>2, <4>1 DEF JobInv, JobOK
    <3>5. w.phase # "active" => jobs'[u].phase # "active"
      BY <2>1
    <3>. QED
      BY <2>1, <3>1, <3>2, <3>3, <3>4, <3>5 DEF Follows, Was, Final
  <2>7. \A i \in 1 .. Len(watch'.jobs) : i \in 1 .. Len(watch.jobs) \/ i = Len(watch.jobs) + 1
    BY <1>0, <2>4
  <2>. QED
    BY <2>5, <2>6, <2>7 DEF JobEvents
<1>4. CASE JobArrives
  <2>1. watch'.jobs = Tail(watch.jobs) /\ watch.jobs # <<>>
    BY <1>4 DEF JobArrives
  <2>2. \A i \in 1 .. Len(watch'.jobs) : i + 1 \in 1 .. Len(watch.jobs) /\ watch'.jobs[i] = watch.jobs[i + 1]
    BY <1>0, <2>1, Tails
  <2>3. ASSUME NEW i \in 1 .. Len(watch'.jobs)
        PROVE  Follows(i)'
    <3>1. PICK t, v : t = watch.jobs[i + 1].name /\ v = watch.jobs[i + 1].object
      OBVIOUS
    <3>2. /\ Exists(v) => Was(v, t)'
          /\ ~Exists(v) => Final(t)'
          /\ v.phase # "active" =>
                /\ attempts'[t] > 0 /\ jobs'[t].phase # "active"
                /\ \A j \in i + 1 + 1 .. Len(watch.jobs) :
                      watch.jobs[j].name = t => watch.jobs[j].object.phase # "active"
      BY <1>1, <2>2, <3>1
    <3>3. watch'.jobs[i].name = t /\ watch'.jobs[i].object = v
      BY <2>2, <3>1
    <3>4. ASSUME v.phase # "active", NEW j \in i + 1 .. Len(watch'.jobs), watch'.jobs[j].name = t
          PROVE  watch'.jobs[j].object.phase # "active"
      <4>1. j \in 1 .. Len(watch'.jobs) /\ j + 1 \in i + 1 + 1 .. Len(watch.jobs)
        BY <1>0, <2>1, <2>2, Tails
      <4>2. watch'.jobs[j] = watch.jobs[j + 1]
        BY <2>2, <4>1
      <4>. QED
        BY <3>2, <3>4, <4>1, <4>2
    <3>. QED
      BY <3>2, <3>3, <3>4 DEF Follows, Was, Final
  <2>. QED
    BY <2>3 DEF JobEvents
<1>5. CASE watch'.jobs = <<>>
  BY <1>5 DEF JobEvents
<1>. QED
  BY <1>2, <1>3, <1>4, <1>5, JobSteps DEF JobsRest, JobWritten, JobsAnew

\* While a run is born of a Job, the controller has the Job in its cache, and in
\* its list.
LEMMA BornSeen ==
    ASSUME BaseInv, JobInv, [Next]_vars, PromptJobs, NEW t \in Ticks, created'[t] # created[t]
    PROVE  /\ Exists(cache.jobs[t]) \/ Exists(ctl.listed[t])
           /\ ctl'.pc \in Working => ctl'.listed = ctl.listed /\ Exists(ctl.listed[t])
           /\ ctl'.listed = ctl.listed /\ cache'.jobs = cache.jobs
<1>1. PICK n \in Names : RunWritten(n) /\ (RunBorn(n) \/ RunEnds(n) \/ RunDeleted(n))
  BY RunCases DEF RunsRest, RunArrives, RunsAnew
<1>2. n = t
  BY <1>1, Objects DEF RunWritten
<1>3. RunBorn(t)
  BY <1>1, <1>2 DEF RunEnds, RunDeleted
<1>4. cache'.jobs = cache.jobs
  BY <1>1 DEF RunWritten
<1>5. CASE Asks(t)
  BY <1>4, <1>5 DEF Asks, Working
<1>6. CASE RecoverTick /\ t = ctl.job /\ ctl'.pc = "annotate"
  <2>1. Exists(ctl.listed[t])
    BY <1>6 DEF RecoverTick, JobInv, Visits
  <2>2. ctl'.listed = ctl.listed
    BY <1>6, Recovers, RestIs, Types DEF BaseInv
  <2>. QED
    BY <1>4, <2>1, <2>2
<1>. QED
  BY <1>3, <1>5, <1>6, Objects DEF RunBorn

\* What the controller sees of a Job stays a version of it.
LEMMA ViewsKept ==
    ASSUME BaseInv, JobInv, [Next]_vars, PromptJobs, NEW t \in Ticks
    PROVE  Views(t)'
<1> DEFINE Over == Final(t) /\ PastActive(t)
<1>0. /\ cache \in Cache /\ ctl \in Ctl /\ jobs \in [Ticks -> Jobs] /\ cache' \in Cache /\ ctl' \in Ctl
      /\ cache.jobs[t] \in Jobs /\ ctl.listed[t] \in Jobs /\ jobs[t] \in Jobs
      /\ created \in [Names -> Nat] /\ created' \in [Names -> Nat] /\ t \in Names
  <2>1. /\ cache \in Cache /\ ctl \in Ctl /\ jobs \in [Ticks -> Jobs] /\ created \in [Names -> Nat]
    BY Types DEF BaseInv
  <2>2. TypeOK'
    BY BaseKept DEF BaseInv
  <2>3. cache' \in Cache /\ ctl' \in Ctl /\ created' \in [Names -> Nat]
    BY <2>2 DEF TypeOK, Cache, Ctl, Places
  <2>. QED
    BY <2>1, <2>3, Objects DEF Cache, Ctl
<1>1. /\ Exists(cache.jobs[t]) => Was(cache.jobs[t], t)
      /\ Exists(ctl.listed[t]) => Was(ctl.listed[t], t)
      /\ Finished(cache.jobs[t]) => PastActive(t)
      /\ Finished(ctl.listed[t]) => PastActive(t)
      /\ ~Exists(cache.jobs[t]) /\ (Exists(ctl.listed[t]) \/ created[t] > 0) => Over
      /\ ctl.pc \in Working /\ ~Exists(ctl.listed[t]) /\ created[t] > 0 => Over
      /\ created[t] > 0 => attempts[t] > 0
      /\ Exists(jobs[t]) => attempts[t] > 0
  BY DEF JobInv, Views, JobOK
<1>2. /\ Over => Over'
      /\ \A v \in Jobs : Was(v, t) => Was(v, t)'
      /\ PastActive(t) => PastActive(t)'
  BY Stays, StaysPast
<1>3. PICK c, l, c0, l0 : /\ c = cache'.jobs[t] /\ l = ctl'.listed[t]
                          /\ c0 = cache.jobs[t] /\ l0 = ctl.listed[t]
  OBVIOUS
<1>4. c \in Jobs /\ l \in Jobs /\ c0 \in Jobs /\ l0 \in Jobs
  BY <1>0, <1>3 DEF Cache, Ctl
<1> HIDE DEF Over
\* The cache.
<1>5. /\ Exists(c) => Was(c, t)'
      /\ Finished(c) => PastActive(t)'
      /\ ~Exists(c) => \/ Over'
                       \/ c = c0
                       \/ ctl' = Rest /\ (created'[t] > 0 => Over')
  <2>1. CASE c = c0
    BY <1>1, <1>2, <1>3, <1>4, <2>1
  <2>2. ASSUME JobArrives, c # c0
        PROVE  /\ Exists(c) => Was(c, t)'
               /\ Finished(c) => PastActive(t)'
               /\ ~Exists(c) => Over'
    <3>1. PICK u, v : u = Head(watch.jobs).name /\ v = Head(watch.jobs).object
      OBVIOUS
    <3>2. /\ u \in Ticks /\ cache'.jobs[u] = v /\ \A w \in Ticks \ {u} : cache'.jobs[w] = cache.jobs[w]
          /\ Exists(v) => Was(v, u)'
          /\ ~Exists(v) => Final(u)'
          /\ v.phase # "active" => PastActive(u)'
      BY <2>2, <3>1, HeadOfJobs
    <3>3. u = t /\ v = c
      BY <1>3, <2>2, <3>2
    <3>. QED
      BY <3>2, <3>3 DEF Finished, Exists, Over
  <2>3. ASSUME JobsAnew
        PROVE  /\ Exists(c) => Was(c, t)'
               /\ Finished(c) => PastActive(t)'
               /\ ~Exists(c) => ctl' = Rest /\ (created'[t] > 0 => Over')
    <3>1. c = jobs'[t] /\ watch'.jobs = <<>> /\ ctl' = Rest /\ UNCHANGED <<jobs, attempts, created>>
      BY <1>3, <2>3 DEF JobsAnew
    <3>2. Exists(c) => Was(c, t)'
      BY <1>1, <3>1 DEF Was
    <3>3. attempts[t] > 0 /\ c.phase # "active" => PastActive(t)'
      BY <1>3, <3>1 DEF PastActive
    <3>4. attempts[t] > 0 /\ ~Exists(c) => Final(t)'
      BY <3>1 DEF Final
    <3>. QED
      BY <1>1, <3>1, <3>2, <3>3, <3>4 DEF Finished, Exists, Over
  <2>4. CASE JobsRest \/ \E u \in Ticks : JobWritten(u)
    BY <1>3, <2>1, <2>4 DEF JobsRest, JobWritten
  <2>. QED
    BY <2>1, <2>2, <2>3, <2>4, JobSteps
\* The list.
<1>6. \/ l = l0 /\ (ctl'.pc \in Working => ctl.pc \in Working)
      \/ l = c0 /\ created' = created /\ c = c0
      \/ l = NoJob /\ ctl'.pc \notin Working
  <2>1. CASE Reconcile
    BY <1>3, <2>1, Reconciles
  <2>2. CASE ~Reconcile
    BY <1>3, <2>2, ListCases
  <2>. QED
    BY <2>1, <2>2
<1>7. ~Exists(NoJob) /\ ~Finished(NoJob)
  BY DEF NoJob, Exists, Finished
<1>8. (Exists(l) => Was(l, t)') /\ (Finished(l) => PastActive(t)')
  BY <1>1, <1>2, <1>3, <1>4, <1>6, <1>7
<1>9. ~Exists(c) /\ (Exists(l) \/ created'[t] > 0) => Over'
  <2>1. CASE c = c0
    <3> SUFFICES ASSUME ~Exists(c), Exists(l) \/ created'[t] > 0
                 PROVE  Over'
      OBVIOUS
    <3>1. CASE Exists(l0) \/ created[t] > 0
      BY <1>1, <1>2, <1>3, <2>1, <3>1
    <3>2. CASE ~Exists(l0) /\ ~(created[t] > 0)
      <4>1. created'[t] # created[t]
        BY <1>3, <1>6, <1>7, <2>1, <3>2
      <4>. QED
        BY <1>3, <2>1, <3>2, <4>1, BornSeen
    <3>. QED
      BY <3>1, <3>2
  <2>2. CASE ctl' = Rest /\ (created'[t] > 0 => Over')
    BY <1>3, <1>7, <2>2, RestIs
  <2>. QED
    BY <1>5, <2>1, <2>2
<1>10. ctl'.pc \in Working /\ ~Exists(l) /\ created'[t] > 0 => Over'
  <2> SUFFICES ASSUME ctl'.pc \in Working, ~Exists(l), created'[t] > 0
               PROVE  Over'
    OBVIOUS
  <2>1. CASE created'[t] # created[t]
    BY <1>3, <2>1, BornSeen
  <2>2. CASE created'[t] = created[t] /\ l = l0 /\ ctl.pc \in Working
    BY <1>1, <1>2, <1>3, <2>2
  <2>3. CASE created'[t] = created[t] /\ l = c0
    BY <1>1, <1>2, <1>3, <2>3
  <2>. QED
    BY <1>6, <2>1, <2>2, <2>3
<1>. QED
  BY <1>3, <1>5, <1>8, <1>9, <1>10 DEF Views, Over, Was, Final

-----------------------------------------------------------------------------
(* What a reconciliation has done *)

\* A reconciliation at rest has visited nothing.
LEMMA RestVisits ==
    ASSUME ctl' = Rest
    PROVE  Visits'
<1>1. /\ ctl'.pc = "idle" /\ ctl'.listed = [t \in Ticks |-> NoJob] /\ ctl'.todo = {} /\ ctl'.active = {}
      /\ ctl'.job = 0 /\ ctl'.doomed = {}
  BY RestIs
<1>2. \A t \in Ticks : ~Exists(ctl'.listed[t]) /\ ctl'.listed[t].phase # "active"
  BY <1>1 DEF NoJob, Exists
<1>. QED
  BY <1>1, <1>2 DEF Visits, Working

\* A step from one Job to the next.
LEMMA TriggerVisits ==
    ASSUME BaseInv, JobInv, [Next]_vars, NEW t \in Ticks, ReconcileTrigger(t)
    PROVE  Visits'
<1>0. /\ ctl \in Ctl /\ cache.runs \in [Names -> Runs] /\ ctl.listed[t] \in Jobs /\ t \in Names
      /\ Aged(cache.runs[t]) /\ jobs \in [Ticks -> Jobs]
  BY Types, Objects DEF BaseInv, Born, Ctl, Cache
<1>1. /\ ctl.pc = "jobs" /\ t \in ctl.todo /\ ctl.job = 0 /\ ctl.doomed = {}
      /\ Exists(ctl.listed[t]) /\ Was(ctl.listed[t], t)
      /\ UNCHANGED <<jobs, attempts>>
  BY DEF ReconcileTrigger, cluster, JobInv, Visits, Views, Working
<1>2. PICK job, run : job = ctl.listed[t] /\ run = cache.runs[t]
  OBVIOUS
<1>3. /\ ctl'.listed = ctl.listed /\ ctl'.todo = ctl.todo \ {t} /\ ctl'.doomed = {}
      /\ ctl'.active = IF Finished(job) THEN ctl.active ELSE ctl.active \cup {t}
      /\ \/ ctl'.pc = "annotate" /\ ctl'.job = t /\ ctl'.uid = run.born /\ job.admitted = 0 /\ Exists(run)
         \/ ctl'.pc = "verify" /\ ctl'.job = t /\ job.admitted = 0 /\ job.phase = "failed"
         \/ ctl'.pc = "jobs" /\ ctl'.job = 0 /\ ~(job.admitted = 0 /\ job.phase = "failed")
  BY <1>0, <1>1, <1>2 DEF ReconcileTrigger, Ctl
<1>4. ~Finished(job) => job.phase = "active"
  BY <1>0, <1>1, <1>2 DEF Jobs, JobPhases, Finished, Exists
<1>5. ctl'.pc = "annotate" => ctl'.uid > 0
  BY <1>0, <1>2, <1>3 DEF Aged
<1>6. ctl'.job = 0 /\ Finished(job) => Settled(t)'
  <2> SUFFICES ASSUME ctl'.job = 0, Finished(job)
               PROVE  Settled(t)'
    OBVIOUS
  <2>1. ~(job.admitted = 0 /\ job.phase = "failed")
    BY <1>0, <1>3, Objects
  <2>2. attempts[t] > 0 /\ (Exists(jobs[t]) => jobs[t].phase = job.phase)
    BY <1>1, <1>2 DEF Was
  <2>3. job.admitted # 0 /\ Exists(jobs[t]) => jobs[t].admitted # 0
    BY <1>1, <1>2 DEF Was
  <2>. QED
    BY <1>1, <2>1, <2>2, <2>3 DEF Settled, Finished
<1>7. ASSUME NEW u \in Ticks \ (ctl'.todo \cup ctl'.active \cup {ctl'.job}), Exists(ctl'.listed[u])
      PROVE  Settled(u)'
  <2>1. CASE u = t
    BY <1>1, <1>2, <1>3, <1>6, <1>7, <2>1
  <2>2. CASE u # t
    <3>1. u \in Ticks \ (ctl.todo \cup ctl.active \cup {ctl.job}) /\ Exists(ctl.listed[u])
      BY <1>1, <1>3, <1>7, <2>2, Objects
    <3>2. Settled(u)
      BY <3>1 DEF JobInv, Visits
    <3>. QED
      BY <1>1, <3>2 DEF Settled
  <2>. QED
    BY <2>1, <2>2
<1>8. \A u \in ctl'.todo : Exists(ctl'.listed[u])
  BY <1>3 DEF JobInv, Visits
<1>9. \A u \in ctl'.active : ctl'.listed[u].phase = "active"
  BY <1>2, <1>3, <1>4 DEF JobInv, Visits
<1>10. \A u \in Ticks \ ctl'.todo : ctl'.listed[u].phase = "active" => u \in ctl'.active
  BY <1>2, <1>3, <1>4 DEF JobInv, Visits, Finished
<1>. QED
  BY <1>1, <1>2, <1>3, <1>5, <1>7, <1>8, <1>9, <1>10 DEF Visits, Working

\* The admission of the Job at hand is recorded, or the Job is visited again.
LEMMA AnnotateVisits ==
    ASSUME BaseInv, JobInv, [Next]_vars, AnnotateJob, Current
    PROVE  Visits'
<1>0. /\ TypeOK /\ ctl \in Ctl /\ jobs \in [Ticks -> Jobs]
  BY Types DEF BaseInv
<1>1. /\ ctl.pc = "annotate" /\ ctl'.pc = "jobs" /\ ctl'.doomed = ctl.doomed
      /\ ctl'.listed = ctl.listed /\ ctl'.todo = ctl.todo /\ ctl'.active = ctl.active /\ ctl'.job = 0
      /\ SetJob(ctl.job, [jobs[ctl.job] EXCEPT !.admitted = ctl.uid]) /\ attempts' = attempts
  BY <1>0, Annotates
<1>2. PICK t \in Ticks : t = ctl.job
  BY <1>1 DEF BaseInv, AtJob
<1>3. PICK w \in Jobs : w = [jobs[t] EXCEPT !.admitted = ctl.uid]
  BY <1>0, <1>2, JobPhasesKept DEF Ctl
<1>4. jobs'[t] = w /\ \A u \in Ticks \ {t} : jobs'[u] = jobs[u]
  BY <1>0, <1>1, <1>2, <1>3, JobSet
<1>5. /\ Exists(ctl.listed[t]) /\ Was(ctl.listed[t], t) /\ ctl.uid > 0 /\ ctl.doomed = {}
      /\ jobs[t] = ctl.listed[t] /\ jobs[t] \in Jobs
  BY <1>0, <1>1, <1>2 DEF JobInv, Visits, Views, Working, Current
<1>6. w.phase = jobs[t].phase /\ w.admitted = ctl.uid
  BY <1>3, <1>5 DEF Jobs
<1>7. ASSUME NEW u \in Ticks \ (ctl'.todo \cup ctl'.active \cup {ctl'.job}), Exists(ctl'.listed[u])
      PROVE  Settled(u)'
  <2>1. CASE u = t
    <3>1. ctl.listed[t].phase # "active"
      BY <1>1, <1>7, <2>1 DEF JobInv, Visits
    <3>2. jobs[t].phase \in {"complete", "failed"}
      BY <1>5, <3>1 DEF Exists, Jobs, JobPhases
    <3>. QED
      BY <1>0, <1>1, <1>4, <1>5, <1>6, <2>1, <3>2 DEF Was, Settled, Ctl
  <2>2. CASE u # t
    <3>1. Settled(u)
      BY <1>1, <1>2, <1>7, <2>2 DEF JobInv, Visits
    <3>. QED
      BY <3>1, Stays
  <2>. QED
    BY <2>1, <2>2
<1>8. /\ \A u \in ctl'.todo : Exists(ctl'.listed[u])
      /\ \A u \in ctl'.active : ctl'.listed[u].phase = "active"
      /\ \A u \in Ticks \ ctl'.todo : ctl'.listed[u].phase = "active" => u \in ctl'.active
  BY <1>1 DEF JobInv, Visits
<1>. QED
  BY <1>1, <1>5, <1>7, <1>8 DEF Visits, Working

\* What the reconciliation has done stays done.
LEMMA VisitsKept ==
    ASSUME BaseInv, JobInv, [Next]_vars
    PROVE  Visits'
<1>0. ctl \in Ctl /\ clock \in Nat
  BY Types DEF BaseInv
<1>1. CASE ctl' = Rest
  BY <1>1, RestVisits
<1>2. ASSUME ctl'.listed = ctl.listed, ctl'.todo = ctl.todo, ctl'.active = ctl.active, ctl'.job = ctl.job
      PROVE  /\ \A t \in ctl'.todo : Exists(ctl'.listed[t])
             /\ \A t \in ctl'.active : ctl'.listed[t].phase = "active"
             /\ \A t \in Ticks \ (ctl'.todo \cup ctl'.active \cup {ctl'.job}) :
                   Exists(ctl'.listed[t]) => Settled(t)'
             /\ \A t \in Ticks \ ctl'.todo : ctl'.listed[t].phase = "active" => t \in ctl'.active
  BY <1>2, Stays DEF JobInv, Visits
<1>3. CASE ctl' = ctl
  BY <1>2, <1>3 DEF JobInv, Visits
<1>4. CASE Reconcile
  <2>1. /\ ctl'.pc = "jobs" /\ ctl'.listed = cache.jobs /\ ctl'.active = {}
        /\ ctl'.todo = {t \in Ticks : Exists(cache.jobs[t])} /\ ctl'.job = 0 /\ ctl'.doomed = {}
    BY <1>4, Reconciles
  <2>. QED
    BY <2>1 DEF Visits, Working, Exists
<1>5. CASE VerifyJob
  <2>1. CASE ctl' # Rest
    BY <1>0, <1>2, <1>5, <2>1, Verifies DEF JobInv, Visits, Working
  <2>. QED
    BY <1>1, <2>1
<1>6. CASE RecoverTick
  <2>1. CASE ctl' # Rest
    <3>1. /\ ctl.pc = "create" /\ ctl'.pc = "annotate" /\ ctl'.doomed = ctl.doomed /\ ctl'.uid = clock + 1
          /\ ctl'.listed = ctl.listed /\ ctl'.todo = ctl.todo /\ ctl'.active = ctl.active
          /\ ctl'.job = ctl.job
      BY <1>0, <1>6, <2>1, Recovers
    <3>2. ctl.doomed = {} /\ Exists(ctl.listed[ctl.job]) /\ ctl.listed[ctl.job].admitted = 0
      BY <3>1 DEF JobInv, Visits, Working
    <3>3. ctl'.uid > 0
      BY <1>0, <3>1
    <3>. QED
      BY <1>2, <3>1, <3>2, <3>3 DEF Visits, Working
  <2>. QED
    BY <1>1, <2>1
<1>7. CASE AnnotateJob
  BY <1>0, <1>1, <1>7, Annotates, AnnotateVisits
<1>8. CASE PruneRuns
  <2>1. /\ ctl'.pc = "prune" /\ ctl'.listed = [t \in Ticks |-> NoJob] /\ ctl'.todo = {}
        /\ ctl'.active = {} /\ ctl' = [Rest EXCEPT !.pc = "prune", !.doomed = ctl'.doomed]
    BY <1>8, PrunesRuns
  <2>2. \A t \in Ticks : ~Exists(ctl'.listed[t]) /\ ctl'.listed[t].phase # "active"
    BY <2>1 DEF NoJob, Exists
  <2>. QED
    BY <2>1, <2>2 DEF Visits, Working
<1>9. ASSUME NEW n \in Names, DeleteRun(n)
      PROVE  Visits'
  <2>1. /\ ctl.pc = "prune" /\ ctl'.pc = "prune" /\ ctl' = [ctl EXCEPT !.doomed = ctl.doomed \ {n}]
        /\ ctl'.listed = ctl.listed /\ ctl'.todo = ctl.todo /\ ctl'.active = ctl.active
        /\ ctl'.job = ctl.job
    BY <1>0, <1>9, DeletesRun
  <2>2. ctl = [Rest EXCEPT !.pc = "prune", !.doomed = ctl.doomed]
    BY <2>1 DEF JobInv, Visits
  <2>3. ctl' = [Rest EXCEPT !.pc = "prune", !.doomed = ctl'.doomed]
    BY <2>1, <2>2 DEF Rest
  <2>. QED
    BY <1>2, <2>1, <2>3 DEF Visits, Working
<1>10. CASE RefreshStatus
  BY <1>1, <1>10, Refreshes
<1>11. CASE Pod \/ Cluster \/ RunSteps \/ People \/ Watches \/ UNCHANGED vars
  BY <1>3, <1>11 DEF Pod, RunSchedule, WaitForRun, Cluster, Tick, PodFails, Deadline, CleanJob, RunSteps, End,
     People, CreateScheduledRun, Remove, Watches, DeliverJob, DeliverRun, DeliverSchedule, vars
<1>12. CASE ReconcileFails \/ Restart
  BY <1>1, <1>12, Retries DEF ReconcileFails, Restart
<1>. QED
  BY <1>4, <1>5, <1>6, <1>7, <1>8, <1>9, <1>10, <1>11, <1>12, TriggerVisits DEF Next, Controller

-----------------------------------------------------------------------------
(* One run for a tick *)

\* What a step does to the runs that are to be pruned.
LEMMA DoomedCases ==
    ASSUME BaseInv, JobInv, [Next]_vars
    PROVE  \/ PruneRuns
           \/ ctl'.doomed = {}
           \/ ctl' = ctl
           \/ ctl'.doomed \subseteq ctl.doomed /\ ctl'.listed = ctl.listed /\ ctl.pc = ctl'.pc
              /\ \E n \in Names : DeleteRun(n)
<1>0. ctl \in Ctl /\ clock \in Nat
  BY Types DEF BaseInv
<1>1. CASE ctl' = Rest
  BY <1>1, RestIs
<1>2. CASE Reconcile
  BY <1>2, Reconciles
<1>3. CASE VerifyJob
  BY <1>0, <1>1, <1>3, Verifies DEF JobInv, Visits, Working
<1>4. CASE RecoverTick
  BY <1>0, <1>1, <1>4, Recovers DEF JobInv, Visits, Working
<1>5. CASE AnnotateJob
  BY <1>0, <1>1, <1>5, Annotates DEF JobInv, Visits, Working
<1>6. ASSUME NEW t \in Ticks, ReconcileTrigger(t)
      PROVE  ctl'.doomed = {}
  <2>1. ctl.doomed = {}
    BY <1>6 DEF ReconcileTrigger, JobInv, Visits, Working
  <2>2. ctl'.doomed = ctl.doomed
    BY <1>0, <1>6 DEF ReconcileTrigger, Ctl
  <2>. QED
    BY <2>1, <2>2
<1>7. ASSUME NEW n \in Names, DeleteRun(n)
      PROVE  ctl'.doomed \subseteq ctl.doomed /\ ctl'.listed = ctl.listed /\ ctl.pc = ctl'.pc
  BY <1>0, <1>7, DeletesRun
<1>8. CASE RefreshStatus \/ ReconcileFails \/ Restart
  BY <1>1, <1>8, Refreshes, Retries DEF ReconcileFails, Restart
<1>9. CASE Pod \/ Cluster \/ RunSteps \/ People \/ Watches \/ UNCHANGED vars
  BY <1>9 DEF Pod, RunSchedule, WaitForRun, Cluster, Tick, PodFails, Deadline, CleanJob, RunSteps, End,
     People, CreateScheduledRun, Remove, Watches, DeliverJob, DeliverRun, DeliverSchedule, vars
<1>. QED
  BY <1>2, <1>3, <1>4, <1>5, <1>6, <1>7, <1>8, <1>9 DEF Next, Controller

\* Who is doomed is in the cache, at its end.
LEMMA DoomedEnded ==
    ASSUME PruneRuns, NEW n \in ctl'.doomed
    PROVE  \E phase \in Prunes : n \in Excess(Prunable(phase))
  BY PrunesRuns DEF Prunes

LEMMA ExcessIs ==
    ASSUME NEW phase, NEW n \in Excess(Prunable(phase))
    PROVE  n \in Names \ ctl.active /\ cache.runs[n].phase = phase
  BY DEF Excess, Prunable

\* A name without a run stays nowhere until its run is born.
LEMMA UnbornKept ==
    ASSUME BaseInv, JobInv, [Next]_vars, \A m \in Names : Unborn(m), NEW n \in Names
    PROVE  Unborn(n)'
<1>0. /\ runs \in [Names -> Runs] /\ created \in [Names -> Nat] /\ cache.runs \in [Names -> Runs]
      /\ watch.runs \in Seq(RunEvent) /\ watch.runs' \in Seq(RunEvent) /\ runs' \in [Names -> Runs]
  <2>1. TypeOK'
    BY BaseKept DEF BaseInv
  <2>. QED
    BY <2>1, Types DEF BaseInv, Cache, Watch, TypeOK, RunEvent
<1> SUFFICES ASSUME created'[n] = 0
             PROVE  /\ runs'[n] = NoRun /\ cache'.runs[n] = NoRun /\ n \notin ctl'.doomed
                    /\ \A i \in 1 .. Len(watch'.runs) : watch'.runs[i].name # n
  BY DEF Unborn
<1>1. ASSUME NEW m \in Names, RunWritten(m), RunBorn(m) \/ RunEnds(m) \/ RunDeleted(m)
      PROVE  created[n] = 0 /\ n # m
  <2>1. CASE n # m
    BY <1>1, <2>1 DEF RunWritten
  <2>2. CASE n = m
    <3>1. ~RunBorn(m) /\ created'[m] = created[m]
      BY <1>0, <1>1, <2>2 DEF RunBorn, RunEnds, RunDeleted
    <3>2. runs[m] = NoRun /\ m \notin ctl.doomed /\ created[m] = 0
      BY <2>2, <3>1 DEF Unborn
    <3>3. FALSE
      BY <1>0, <1>1, <3>1, <3>2, DeletesRun, Types DEF RunEnds, RunDeleted, NoRun, Exists, BaseInv
    <3>. QED
      BY <3>3
  <2>. QED
    BY <2>1, <2>2
<1>2. created[n] = 0
  BY <1>1, RunCases DEF RunsRest, RunArrives, RunsAnew
<1>3. /\ runs[n] = NoRun /\ cache.runs[n] = NoRun /\ n \notin ctl.doomed
      /\ \A i \in 1 .. Len(watch.runs) : watch.runs[i].name # n
  BY <1>2 DEF Unborn
<1>4. n \notin ctl'.doomed
  <2>1. CASE PruneRuns
    <3>1. NoRun.phase \notin Prunes
      BY DEF NoRun, Prunes
    <3>. QED
      BY <1>3, <2>1, <3>1, DoomedEnded, ExcessIs
  <2>. QED
    BY <1>3, <2>1, DoomedCases
<1>5. CASE RunsRest
  BY <1>3, <1>4, <1>5 DEF RunsRest
<1>6. ASSUME NEW m \in Names, RunWritten(m), RunBorn(m) \/ RunEnds(m) \/ RunDeleted(m)
      PROVE  /\ runs'[n] = NoRun /\ cache'.runs[n] = NoRun
             /\ \A i \in 1 .. Len(watch'.runs) : watch'.runs[i].name # n
  <2>1. n # m
    BY <1>1, <1>6
  <2>2. CASE watch'.runs = watch.runs
    BY <1>3, <1>6, <2>1, <2>2 DEF RunWritten
  <2>3. CASE watch'.runs = Append(watch.runs, [name |-> m, object |-> runs'[m]])
    <3>1. PICK e : e = [name |-> m, object |-> runs'[m]]
      OBVIOUS
    <3>2. e \in RunEvent /\ e.name = m
      BY <1>0, <3>1 DEF RunEvent
    <3>3. /\ watch'.runs = Append(watch.runs, e) /\ Len(watch'.runs) = Len(watch.runs) + 1
          /\ Len(watch.runs) \in Nat /\ watch'.runs[Len(watch.runs) + 1] = e
          /\ \A i \in 1 .. Len(watch.runs) : watch'.runs[i] = watch.runs[i]
      BY <1>0, <2>3, <3>1, <3>2, Appends
    <3>4. ASSUME NEW i \in 1 .. Len(watch'.runs)
          PROVE  watch'.runs[i].name # n
      <4>1. i \in 1 .. Len(watch.runs) \/ i = Len(watch.runs) + 1
        BY <3>3
      <4>. QED
        BY <1>3, <2>1, <3>2, <3>3, <4>1
    <3>. QED
      BY <1>3, <1>6, <2>3, <3>4 DEF RunWritten
  <2>. QED
    BY <1>6, <2>1, <2>2, <2>3 DEF RunWritten
<1>7. CASE RunArrives
  <2>1. /\ Head(watch.runs).name # n
        /\ \A i \in 1 .. Len(watch'.runs) : watch'.runs[i].name # n
    BY <1>0, <1>3, <1>7, Tails DEF RunArrives
  <2>2. cache'.runs[n] = NoRun
    BY <1>0, <1>3, <1>7, <2>1 DEF RunArrives
  <2>. QED
    BY <1>3, <1>4, <1>7, <2>1, <2>2 DEF RunArrives
<1>8. CASE RunsAnew
  BY <1>3, <1>4, <1>8 DEF RunsAnew
<1>. QED
  BY <1>4, <1>5, <1>6, <1>7, <1>8, RunCases

\* Who is doomed was asked for the last time: its Job was seen at its end.
LEMMA DoomedSettled ==
    ASSUME BaseInv, JobInv, RunInv, [Next]_vars, NEW n \in ctl'.doomed \cap Ticks
    PROVE  Settled(n)'
<1>0. n \in Names
  BY Objects
<1>1. CASE PruneRuns
  <2>1. /\ ctl.pc = "jobs" /\ ctl.todo = {} /\ UNCHANGED <<jobs, attempts>>
    BY <1>1, PrunesRuns
  <2>2. ctl.job = 0 /\ n \notin ctl.active /\ cache.runs[n].phase \in Prunes
    BY <1>1, <2>1, DoomedEnded, ExcessIs DEF JobInv, Visits
  <2>3. cache.runs[n] # NoRun
    BY <2>2 DEF NoRun, Prunes
  <2>4. created[n] \in Nat /\ created[n] # 0
    BY <1>0, <2>3, Types DEF RunInv, Unborn, BaseInv
  <2>5. CASE Exists(ctl.listed[n])
    <3>1. Settled(n)
      BY <1>0, <2>1, <2>2, <2>5, Objects DEF JobInv, Visits
    <3>. QED
      BY <3>1, Stays
  <2>6. CASE ~Exists(ctl.listed[n])
    <3>1. Final(n)
      BY <2>1, <2>4, <2>6 DEF JobInv, Views, Working
    <3>. QED
      BY <2>1, <3>1 DEF Final, Settled
  <2>. QED
    BY <2>5, <2>6
<1>2. CASE ctl'.doomed \subseteq ctl.doomed
  BY <1>2, Stays DEF RunInv, OneRun
<1>. QED
  BY <1>1, <1>2, DoomedCases

\* The controller makes up for a tick when the Job it verified says so.
LEMMA VerifiedBefore ==
    ASSUME BaseInv, [Next]_vars, ctl'.pc = "create"
    PROVE  ctl' = ctl \/ (VerifyJob /\ Current /\ ctl'.job = ctl.job /\ ctl.pc = "verify"
                          /\ UNCHANGED <<runs, created, removed>>)
<1>0. ctl \in Ctl /\ clock \in Nat
  BY Types DEF BaseInv
<1>1. ctl' # Rest
  BY RestIs
<1>2. CASE Reconcile \/ PruneRuns
  BY <1>2, Reconciles, PrunesRuns
<1>3. CASE VerifyJob
  BY <1>0, <1>1, <1>3, Verifies
<1>4. CASE RecoverTick \/ AnnotateJob
  BY <1>0, <1>1, <1>4, Recovers, Annotates
<1>5. ASSUME NEW t \in Ticks, ReconcileTrigger(t)
      PROVE  ctl'.pc # "create"
  BY <1>0, <1>5 DEF ReconcileTrigger, Ctl
<1>6. ASSUME NEW n \in Names, DeleteRun(n)
      PROVE  ctl'.pc # "create"
  BY <1>0, <1>6, DeletesRun
<1>7. CASE RefreshStatus \/ ReconcileFails \/ Restart
  BY <1>1, <1>7, Refreshes, Retries DEF ReconcileFails, Restart
<1>8. CASE Pod \/ Cluster \/ RunSteps \/ People \/ Watches \/ UNCHANGED vars
  BY <1>8 DEF Pod, RunSchedule, WaitForRun, Cluster, Tick, PodFails, Deadline, CleanJob, RunSteps, End,
     People, CreateScheduledRun, Remove, Watches, DeliverJob, DeliverRun, DeliverSchedule, vars
<1>. QED
  BY <1>2, <1>3, <1>4, <1>5, <1>6, <1>7, <1>8 DEF Next, Controller

\* A tick's run is the only one, unless a person deleted it.
LEMMA OneRunKept ==
    ASSUME BaseInv, JobInv, RunInv, [Next]_vars
    PROVE  OneRun'
<1>0. /\ ctl \in Ctl /\ clock \in Nat /\ created \in [Names -> Nat] /\ jobs \in [Ticks -> Jobs]
      /\ runs \in [Names -> Runs]
  BY Types DEF BaseInv
<1> DEFINE Step(n) == RunWritten(n) /\ (RunBorn(n) \/ RunEnds(n) \/ RunDeleted(n))
<1>1. /\ removed \subseteq removed'
      /\ \A n \in Names : \/ UNCHANGED <<runs[n], created[n]>> /\ (removed' = removed \/ ctl' = ctl)
                          \/ Step(n)
  BY RunCases DEF RunsRest, RunArrives, RunsAnew, RunWritten, RunBorn, RunEnds, RunDeleted
<1>2. ASSUME NEW n \in Names, RunEnds(n)
      PROVE  Exists(runs'[n]) /\ created'[n] = created[n] /\ Exists(runs[n])
  BY <1>2 DEF RunEnds, Exists, Ends
<1>3. ASSUME NEW n \in Names, RunBorn(n)
      PROVE  Exists(runs'[n]) /\ created'[n] = created[n] + 1
  BY <1>3 DEF RunBorn, Exists
<1>4. ASSUME NEW t \in Ticks \ removed', RunBorn(t)
      PROVE  created[t] = 0
  <2>1. t \in Ticks \ removed /\ t \in Names
    BY <1>1, Objects
  <2>2. created[t] \in Nat /\ created[t] <= 1 /\ (created[t] = 1 /\ ~Exists(runs[t]) => Settled(t))
    BY <1>0, <2>1 DEF RunInv, OneRun
  <2>3. CASE Asks(t)
    <3>1. ~Settled(t) /\ ~Exists(runs[t])
      BY <2>3 DEF Asks, Settled, Exists
    <3>. QED
      BY <2>2, <3>1
  <2>4. CASE RecoverTick /\ t = ctl.job /\ ~Exists(runs[t])
    <3>1. ctl.pc = "create"
      BY <2>4 DEF RecoverTick
    <3>. QED
      BY <2>1, <2>2, <2>4, <3>1 DEF RunInv, OneRun
  <2>. QED
    BY <1>4, <2>3, <2>4, Objects DEF RunBorn
<1>5. ASSUME NEW t \in Ticks \ removed'
      PROVE  created'[t] <= 1 /\ (created'[t] = 1 /\ ~Exists(runs'[t]) => Settled(t)')
  <2>1. t \in Ticks \ removed /\ t \in Names
    BY <1>1, Objects
  <2>2. created[t] \in Nat /\ created[t] <= 1 /\ (created[t] = 1 /\ ~Exists(runs[t]) => Settled(t))
    BY <1>0, <2>1 DEF RunInv, OneRun
  <2>3. CASE UNCHANGED <<runs[t], created[t]>>
    BY <2>2, <2>3, Stays
  <2>4. CASE RunBorn(t)
    BY <1>3, <1>4, <2>1, <2>4
  <2>5. CASE RunEnds(t)
    BY <1>2, <2>1, <2>2, <2>5
  <2>6. CASE RunDeleted(t)
    <3>1. DeleteRun(t) /\ created' = created
      BY <1>5, <2>6 DEF RunDeleted
    <3>2. t \in ctl.doomed \cap Ticks
      BY <1>0, <2>1, <3>1, DeletesRun
    <3>3. Settled(t)'
      BY <3>2, Stays DEF RunInv, OneRun
    <3>. QED
      BY <2>2, <3>1, <3>3
  <2>. QED
    BY <1>1, <2>1, <2>3, <2>4, <2>5, <2>6
<1>6. ASSUME NEW n \in Manual
      PROVE  created'[n] <= 1
  <2>1. n \in Names /\ n \notin Ticks /\ n # 0
    BY Objects
  <2>2. created[n] \in Nat /\ created[n] <= 1
    BY <1>0, <2>1 DEF RunInv, OneRun
  <2>3. CASE RunBorn(n)
    <3>1. ~Asks(n)
      BY <2>1 DEF Asks
    <3>2. ~(RecoverTick /\ n = ctl.job)
      BY <2>1, Recovers, <1>0 DEF BaseInv, AtJob
    <3>. QED
      BY <2>2, <2>3, <3>1, <3>2 DEF RunBorn
  <2>4. CASE RunDeleted(n)
    BY <2>2, <2>4 DEF RunDeleted
  <2>. QED
    BY <1>1, <1>2, <2>1, <2>2, <2>3, <2>4
<1>7. ASSUME ctl'.pc = "create", ctl'.job \notin removed', created'[ctl'.job] > 0
      PROVE  Exists(runs'[ctl'.job])
  <2>1. PICK t \in Ticks : t = ctl'.job
    BY <1>7, BaseKept DEF BaseInv, AtJob
  <2>2. t \in Ticks \ removed /\ t \in Names
    BY <1>1, <1>7, <2>1, Objects
  <2>3. CASE ctl' = ctl
    <3>1. created[t] > 0 => Exists(runs[t])
      BY <1>7, <2>1, <2>2, <2>3 DEF RunInv, OneRun
    <3>2. ~RunDeleted(t)
      BY <1>0, <1>7, <2>1, <2>2, <2>3, DeletesRun DEF RunDeleted
    <3>. QED
      BY <1>1, <1>2, <1>3, <1>7, <2>1, <2>2, <3>1, <3>2
  <2>4. CASE ctl' # ctl
    <3>1. /\ Current /\ t = ctl.job /\ ctl.pc = "verify" /\ UNCHANGED <<runs, created, removed>>
      BY <1>7, <2>1, <2>4, VerifiedBefore
    <3>2. jobs[t].phase = "failed" /\ jobs[t].admitted = 0
      BY <3>1 DEF Current, JobInv, Visits
    <3>3. ~Settled(t)
      BY <3>2 DEF Settled, Exists
    <3>4. created[t] \in Nat /\ created[t] <= 1 /\ (created[t] = 1 /\ ~Exists(runs[t]) => Settled(t))
      BY <1>0, <2>2 DEF RunInv, OneRun
    <3>5. created[t] > 0
      BY <1>7, <2>1, <3>1
    <3>. QED
      BY <2>1, <3>1, <3>3, <3>4, <3>5
  <2>. QED
    BY <2>3, <2>4
<1>. QED
  BY <1>5, <1>6, <1>7, DoomedSettled DEF OneRun

-----------------------------------------------------------------------------
(* What is known of runs *)

\* Nobody undoes a deletion.
LEMMA RemovedGrows ==
    ASSUME BaseInv, JobInv, [Next]_vars
    PROVE  removed \subseteq removed'
  BY RunCases DEF RunsRest, RunArrives, RunsAnew, RunWritten, RunBorn, RunEnds, RunDeleted

\* A run that is born under a name is the first one.
LEMMA BornFirst ==
    ASSUME BaseInv, JobInv, RunInv, [Next]_vars, NEW n \in Names \ removed', RunBorn(n)
    PROVE  created[n] = 0
<1>1. created'[n] = created[n] + 1 /\ created[n] \in Nat
  BY Types DEF RunBorn, BaseInv
<1>2. created'[n] <= 1
  BY OneRunKept, Objects DEF OneRun
<1>. QED
  BY <1>1, <1>2

\* A write of a run nobody knows the end of, unless it is gone.
LEMMA RunViewsWritten ==
    ASSUME BaseInv, RunViews, removed = {}, NEW n \in Names, RunWritten(n), runs'[n] \in Runs,
           watch'.runs = Append(watch.runs, [name |-> n, object |-> runs'[n]]),
           \/ \A i \in 1 .. Len(watch.runs) : watch.runs[i].name # n
           \/ runs[n].phase = "Active" /\ Exists(runs'[n])
           \/ ~Exists(runs[n]) /\ ~Exists(runs'[n]),
           Exists(runs'[n]) => cache.runs[n].phase \notin Ends
    PROVE  (\A m \in Names : SeenEnd(m)') /\ (\A i \in 1 .. Len(watch'.runs) : RunFollows(i)')
<1>0. /\ runs \in [Names -> Runs] /\ cache.runs \in [Names -> Runs] /\ watch.runs \in Seq(RunEvent)
      /\ cache'.runs = cache.runs /\ \A m \in Names \ {n} : runs'[m] = runs[m]
  BY Types DEF BaseInv, Cache, Watch, RunEvent, RunWritten
<1>1. PICK e : e = [name |-> n, object |-> runs'[n]]
  OBVIOUS
<1>2. e \in RunEvent /\ e.name = n /\ e.object = runs'[n]
  BY <1>0, <1>1 DEF RunEvent
<1>3. /\ watch'.runs = Append(watch.runs, e) /\ Len(watch'.runs) = Len(watch.runs) + 1
      /\ Len(watch.runs) \in Nat /\ watch'.runs[Len(watch.runs) + 1] = e
      /\ \A i \in 1 .. Len(watch.runs) : watch'.runs[i] = watch.runs[i]
  BY <1>0, <1>1, <1>2, Appends
<1>4. \A i \in 1 .. Len(watch'.runs) : i \in 1 .. Len(watch.runs) \/ i = Len(watch.runs) + 1
  BY <1>3
<1>5. ASSUME NEW m \in Names
      PROVE  SeenEnd(m)'
  <2>1. CASE m = n
    BY <1>0, <2>1 DEF SeenEnd
  <2>2. CASE m # n
    <3>1. SeenEnd(m)
      BY DEF RunViews
    <3>. QED
      BY <1>0, <1>2, <1>3, <1>4, <2>2, <3>1 DEF SeenEnd
  <2>. QED
    BY <2>1, <2>2
<1>6. ASSUME NEW i \in 1 .. Len(watch.runs)
      PROVE  RunFollows(i)'
  <2>1. PICK m, r : m = watch.runs[i].name /\ r = watch.runs[i].object
    OBVIOUS
  <2>2. m \in Names /\ r \in Runs /\ watch'.runs[i].name = m /\ watch'.runs[i].object = r
    <3>1. watch.runs[i] \in RunEvent
      BY <1>0
    <3>. QED
      BY <1>3, <2>1, <3>1 DEF RunEvent
  <2>3. /\ Exists(r) <=> Exists(runs[m])
        /\ r.phase \in Ends => /\ r = runs[m]
                               /\ \A j \in i + 1 .. Len(watch.runs) : watch.runs[j].name # m
    BY <2>1 DEF RunViews, RunFollows
  <2>4. CASE m # n
    <3>1. ASSUME r.phase \in Ends, NEW j \in i + 1 .. Len(watch'.runs)
          PROVE  watch'.runs[j].name # m
      <4>1. j \in i + 1 .. Len(watch.runs) \/ j = Len(watch.runs) + 1
        BY <1>3
      <4>2. \A k \in i + 1 .. Len(watch.runs) : k \in 1 .. Len(watch.runs)
        BY <1>3
      <4>. QED
        BY <1>2, <1>3, <2>3, <2>4, <3>1, <4>1, <4>2
    <3>. QED
      BY <1>0, <2>2, <2>3, <2>4, <3>1 DEF RunFollows
  <2>5. CASE m = n
    <3>1. r.phase \notin Ends
      BY <2>1, <2>3, <2>5 DEF Ends, Exists
    <3>2. Exists(r) <=> Exists(runs'[m])
      BY <2>1, <2>3, <2>5 DEF Exists
    <3>. QED
      BY <2>2, <3>1, <3>2 DEF RunFollows
  <2>. QED
    BY <2>4, <2>5
<1>7. ASSUME NEW i, i = Len(watch.runs) + 1
      PROVE  RunFollows(i)'
  <2>1. watch'.runs[i].name = n /\ watch'.runs[i].object = runs'[n] /\ i + 1 .. Len(watch'.runs) = {}
    BY <1>2, <1>3, <1>7
  <2>. QED
    BY <2>1 DEF RunFollows
<1>. QED
  BY <1>4, <1>5, <1>6, <1>7

\* What the cache and the watch say of ends stays right.
LEMMA RunViewsKept ==
    ASSUME IInv, [Next]_vars
    PROVE  RunViews'
<1> USE DEF IInv
<1>0. /\ runs \in [Names -> Runs] /\ created \in [Names -> Nat] /\ cache.runs \in [Names -> Runs]
      /\ watch.runs \in Seq(RunEvent) /\ runs' \in [Names -> Runs] /\ ctl \in Ctl
  <2>1. TypeOK'
    BY BaseKept DEF BaseInv
  <2>. QED
    BY <2>1, Types DEF BaseInv, Cache, Watch, TypeOK, RunEvent
<1> SUFFICES ASSUME removed' = {}
             PROVE  /\ \A n \in Names : SeenEnd(n)'
                    /\ \A i \in 1 .. Len(watch'.runs) : RunFollows(i)'
  BY DEF RunViews
<1>1. removed = {}
  BY RemovedGrows
<1>2. (\A n \in Names : SeenEnd(n)) /\ (\A i \in 1 .. Len(watch.runs) : RunFollows(i))
  BY <1>1 DEF PruneInv, RunViews
<1>3. CASE runs' = runs /\ cache'.runs = cache.runs /\ watch'.runs = watch.runs
  BY <1>2, <1>3 DEF SeenEnd, RunFollows
<1>4. ASSUME NEW n \in Names, RunWritten(n), RunBorn(n) \/ RunEnds(n) \/ RunDeleted(n)
      PROVE  /\ \A m \in Names : SeenEnd(m)'
             /\ \A i \in 1 .. Len(watch'.runs) : RunFollows(i)'
  <2>1. CASE runs' = runs /\ watch'.runs = watch.runs
    BY <1>3, <1>4, <2>1 DEF RunWritten
  <2>2. CASE watch'.runs = Append(watch.runs, [name |-> n, object |-> runs'[n]])
    <3>1. CASE RunBorn(n)
      <4>1. cache.runs[n] = NoRun /\ \A i \in 1 .. Len(watch.runs) : watch.runs[i].name # n
        BY <3>1, BornFirst DEF RunInv, Unborn
      <4>2. cache.runs[n].phase \notin Ends
        BY <4>1 DEF NoRun, Ends
      <4>. QED
        BY <1>0, <1>1, <1>4, <2>2, <4>1, <4>2, RunViewsWritten DEF PruneInv
    <3>2. CASE RunEnds(n)
      <4>1. runs[n].phase = "Active" /\ Exists(runs'[n])
        BY <3>2 DEF RunEnds, Exists, Ends
      <4>2. cache.runs[n].phase \notin Ends
        BY <1>2, <4>1 DEF SeenEnd, Exists, Ends
      <4>. QED
        BY <1>0, <1>1, <1>4, <2>2, <4>1, <4>2, RunViewsWritten DEF PruneInv
    <3>3. CASE RunDeleted(n)
      <4>1. ~Exists(runs'[n])
        BY <3>3 DEF RunDeleted, NoRun, Exists
      <4>2. n \in ctl.doomed
        BY <1>0, <3>3, DeletesRun DEF RunDeleted
      <4>3. Exists(runs[n]) => cache.runs[n].phase \in Ends
        BY <1>1, <4>2 DEF PruneInv, Outlived, Prunes, Ends
      <4>4. ~Exists(runs[n]) \/ \A i \in 1 .. Len(watch.runs) : watch.runs[i].name # n
        BY <1>2, <4>3 DEF SeenEnd
      <4>. QED
        BY <1>0, <1>1, <1>4, <2>2, <4>1, <4>4, RunViewsWritten DEF PruneInv
    <3>. QED
      BY <1>4, <3>1, <3>2, <3>3
  <2>. QED
    BY <1>4, <2>1, <2>2 DEF RunWritten
<1>5. CASE RunArrives
  <2>1. PICK n, r : n = Head(watch.runs).name /\ r = Head(watch.runs).object
    OBVIOUS
  <2>2. /\ Head(watch.runs) = watch.runs[1] /\ 1 \in 1 .. Len(watch.runs) /\ Head(watch.runs) \in RunEvent
        /\ watch'.runs = Tail(watch.runs) /\ Len(watch'.runs) = Len(watch.runs) - 1 /\ Len(watch.runs) \in Nat
        /\ \A i \in 1 .. Len(watch'.runs) :
              i + 1 \in 1 + 1 .. Len(watch.runs) /\ watch'.runs[i] = watch.runs[i + 1]
    BY <1>0, <1>5, Tails DEF RunArrives
  <2>3. /\ n \in Names /\ r \in Runs /\ cache'.runs = [cache.runs EXCEPT ![n] = r] /\ runs' = runs
        /\ watch.runs[1].name = n /\ watch.runs[1].object = r
    BY <1>5, <2>1, <2>2 DEF RunArrives, RunEvent
  <2>4. ASSUME NEW m \in Names
        PROVE  SeenEnd(m)'
    <3>1. CASE m = n
      <4>1. r.phase \in Ends =>
               r = runs[n] /\ \A j \in 1 + 1 .. Len(watch.runs) : watch.runs[j].name # n
        BY <1>2, <2>2, <2>3 DEF RunFollows
      <4>2. cache'.runs[n] = r
        BY <1>0, <2>3
      <4>. QED
        BY <2>2, <2>3, <3>1, <4>1, <4>2 DEF SeenEnd
    <3>2. CASE m # n
      <4>1. cache'.runs[m] = cache.runs[m]
        BY <1>0, <2>3, <3>2
      <4>2. \A i \in 1 + 1 .. Len(watch.runs) : i \in 1 .. Len(watch.runs)
        BY <2>2
      <4>. QED
        BY <1>2, <2>2, <2>3, <4>1, <4>2 DEF SeenEnd
    <3>. QED
      BY <3>1, <3>2
  <2>5. ASSUME NEW i \in 1 .. Len(watch'.runs)
        PROVE  RunFollows(i)'
    <3>1. PICK m, s : m = watch.runs[i + 1].name /\ s = watch.runs[i + 1].object
      OBVIOUS
    <3>2. /\ Exists(s) <=> Exists(runs[m])
          /\ s.phase \in Ends => /\ s = runs[m]
                                 /\ \A j \in i + 1 + 1 .. Len(watch.runs) : watch.runs[j].name # m
      <4>1. i + 1 \in 1 .. Len(watch.runs)
        BY <2>2
      <4>. QED
        BY <1>2, <3>1, <4>1 DEF RunFollows
    <3>3. watch'.runs[i].name = m /\ watch'.runs[i].object = s
      BY <2>2, <3>1
    <3>4. \A j \in i + 1 .. Len(watch'.runs) :
             j \in 1 .. Len(watch'.runs) /\ j + 1 \in i + 1 + 1 .. Len(watch.runs)
      BY <2>2
    <3>5. \A j \in i + 1 .. Len(watch'.runs) : watch'.runs[j] = watch.runs[j + 1]
      BY <2>2, <3>4
    <3>. QED
      BY <2>3, <3>2, <3>3, <3>4, <3>5 DEF RunFollows
  <2>. QED
    BY <2>4, <2>5
<1>6. CASE RunsAnew
  BY <1>6 DEF RunsAnew, SeenEnd, RunFollows
<1>. QED
  BY <1>3, <1>4, <1>5, <1>6, RunCases DEF RunsRest

-----------------------------------------------------------------------------
(* Pruning *)

\* A run that pruning left at its end stays where it is.
LEMMA KeeperStays ==
    ASSUME IInv, [Next]_vars, ~PruneRuns, removed' = {}, NEW k \in Names, Keeps(k),
           cache.runs[k].phase \in Prunes
    PROVE  Keeps(k)' /\ cache'.runs[k] = cache.runs[k]
<1> USE DEF IInv
<1>0. /\ cache.runs \in [Names -> Runs] /\ watch.runs \in Seq(RunEvent) /\ ctl \in Ctl
      /\ cache.runs[k].phase \in Ends
  BY Types DEF BaseInv, Cache, Watch, RunEvent, Prunes, Ends
<1>1. removed = {}
  BY RemovedGrows
<1>2. /\ Exists(runs[k]) /\ runs[k] = cache.runs[k] /\ k \notin ctl.doomed
      /\ k \in Ticks => PastActive(k) /\ ctl.listed[k].phase # "active"
  BY DEF Keeps
<1>3. \A i \in 1 .. Len(watch.runs) : watch.runs[i].name # k
  BY <1>0, <1>1, <1>2 DEF PruneInv, RunViews, SeenEnd
<1>4. ~RunBorn(k)
  <2>1. RunBorn(k) => created[k] = 0
    BY BornFirst
  <2>2. cache.runs[k] # NoRun
    BY <1>0 DEF NoRun, Ends
  <2>. QED
    BY <2>1, <2>2 DEF RunInv, Unborn
<1>5. ~RunEnds(k)
  BY <1>0, <1>2 DEF RunEnds, Ends
<1>6. ~RunDeleted(k)
  BY <1>0, <1>2, DeletesRun DEF RunDeleted
<1>7. runs'[k] = runs[k] /\ cache'.runs[k] = cache.runs[k]
  <2>1. CASE RunsRest
    BY <2>1 DEF RunsRest
  <2>2. ASSUME NEW n \in Names, RunWritten(n), RunBorn(n) \/ RunEnds(n) \/ RunDeleted(n)
        PROVE  runs'[k] = runs[k] /\ cache'.runs[k] = cache.runs[k]
    BY <1>4, <1>5, <1>6, <2>2 DEF RunWritten
  <2>3. CASE RunArrives
    <3>1. Head(watch.runs).name # k
      BY <1>0, <1>3, <2>3, Tails DEF RunArrives
    <3>. QED
      BY <1>0, <2>3, <3>1 DEF RunArrives
  <2>4. CASE RunsAnew
    BY <1>2, <2>4 DEF RunsAnew
  <2>. QED
    BY <2>1, <2>2, <2>3, <2>4, RunCases
<1>8. k \notin ctl'.doomed
  BY <1>2, DoomedCases
<1>9. ASSUME k \in Ticks
      PROVE  PastActive(k)' /\ ctl'.listed[k].phase # "active"
  <2>1. PastActive(k)'
    BY <1>2, <1>9, StaysPast
  <2>2. CASE Reconcile
    BY <1>2, <1>9, <2>2, Reconciles DEF PastActive
  <2>3. CASE ctl'.listed = ctl.listed \/ ctl'.listed = [t \in Ticks |-> NoJob]
    <3>1. NoJob.phase # "active"
      BY DEF NoJob
    <3>. QED
      BY <1>2, <1>9, <2>1, <2>3, <3>1
  <2>. QED
    BY <2>1, <2>2, <2>3, ListCases
<1>. QED
  BY <1>2, <1>7, <1>8, <1>9 DEF Keeps

\* What the keepers of a run outlive they outlive still.
LEMMA KeepersStay ==
    ASSUME IInv, [Next]_vars, ~PruneRuns, removed' = {}, NEW phase \in Prunes, NEW born \in Nat,
           Cardinality(NewerKept(phase, born)) >= Limit
    PROVE  Cardinality(NewerKept(phase, born)') >= Limit
<1>1. NewerKept(phase, born) \subseteq NewerKept(phase, born)'
  BY KeeperStays DEF NewerKept
<1>2. NewerKept(phase, born)' \subseteq Names /\ NewerKept(phase, born) \subseteq Names
  BY DEF NewerKept
<1>3. Cardinality(NewerKept(phase, born)) <= Cardinality(NewerKept(phase, born)')
  BY <1>1, <1>2, MoreNames
<1>4. /\ Cardinality(NewerKept(phase, born)) \in Nat /\ Cardinality(NewerKept(phase, born)') \in Nat
      /\ Limit \in Nat
  BY <1>2, NamesFinite, ConstantsAssumption
<1>. QED
  BY <1>3, <1>4

\* Of a set of runs the oldest are in excess: whoever has Limit after it has
\* Limit of the others after it.
LEMMA ExcessIsOldest ==
    ASSUME BaseInv, NEW S, S \subseteq Names, NEW born \in Nat,
           Cardinality({m \in S : cache.runs[m].born > born}) >= Limit
    PROVE  Cardinality({m \in S \ Excess(S) : cache.runs[m].born > born}) >= Limit
<1> DEFINE X == {m \in S : cache.runs[m].born > born}
           Y == {m \in S \ Excess(S) : cache.runs[m].born > born}
           age == [m \in Names |-> cache.runs[m].born]
<1>0. \A m \in Names : age[m] \in Nat /\ age[m] <= clock /\ age[m] = cache.runs[m].born
  BY Types DEF BaseInv, Born, Aged, Cache, Runs
<1>1. clock \in Nat /\ Limit \in Nat
  BY Types, ConstantsAssumption DEF BaseInv
<1>2. CASE X \cap Excess(S) = {}
  <2>1. X = Y
    BY <1>2
  <2>. QED
    BY <2>1
<1>3. CASE X \cap Excess(S) # {}
  <2>1. PICK y \in X \cap Excess(S) : \A m \in X \cap Excess(S) : age[m] <= age[y]
    BY <1>0, <1>1, <1>3, Youngest
  <2> DEFINE Z == {m \in S : cache.runs[m].born > cache.runs[y].born}
  <2>2. Cardinality(Z) >= Limit
    BY <2>1 DEF Excess
  <2>3. Z \subseteq Y
    <3>1. y \in Names /\ cache.runs[y].born > born /\ cache.runs[y].born \in Nat
      BY <1>0, <2>1
    <3>2. \A m \in X \cap Excess(S) : cache.runs[m].born <= cache.runs[y].born
      BY <1>0, <2>1
    <3>3. ASSUME NEW m \in Z
          PROVE  m \in Y
      <4>1. m \in S /\ m \in Names /\ cache.runs[m].born > cache.runs[y].born /\ cache.runs[m].born \in Nat
        BY <1>0, <3>3
      <4>2. cache.runs[m].born > born /\ ~(cache.runs[m].born <= cache.runs[y].born)
        BY <3>1, <4>1
      <4>. QED
        BY <3>2, <4>1, <4>2
    <3>. QED
      BY <3>3
  <2>4. Y \subseteq Names /\ Z \subseteq Names
    OBVIOUS
  <2> HIDE DEF Y, Z
  <2>5. Cardinality(Z) <= Cardinality(Y) /\ Cardinality(Z) \in Nat /\ Cardinality(Y) \in Nat
    BY <2>3, <2>4, MoreNames, NamesFinite
  <2>6. Cardinality(Y) >= Limit
    BY <1>1, <2>2, <2>5
  <2>. QED
    BY <2>6 DEF Y
<1>. QED
  BY <1>2, <1>3

\* The keepers are among the runs that a new pruning sees.
LEMMA KeepersSeen ==
    ASSUME IInv, NEW phase \in Prunes, NEW born \in Nat
    PROVE  NewerKept(phase, born) \subseteq {m \in Prunable(phase) : cache.runs[m].born > born}
<1>1. ASSUME NEW k \in NewerKept(phase, born)
      PROVE  k \notin ctl.active
  <2>1. k \in Ticks => ctl.listed[k].phase # "active"
    BY <1>1 DEF NewerKept, Keeps
  <2>2. ctl.active \subseteq Ticks /\ \A t \in ctl.active : ctl.listed[t].phase = "active"
    BY Types DEF IInv, BaseInv, JobInv, Visits, Ctl
  <2>. QED
    BY <2>1, <2>2
<1>. QED
  BY <1>1 DEF NewerKept, Prunable

\* What pruning leaves it will see again.
LEMMA PruningKeeps ==
    ASSUME IInv, PruneRuns, removed = {}, NEW phase \in Prunes,
           NEW k \in Prunable(phase) \ Excess(Prunable(phase))
    PROVE  Keeps(k)'
<1> USE DEF IInv
<1>0. /\ ctl.pc = "jobs" /\ ctl.todo = {} /\ ctl'.listed = [t \in Ticks |-> NoJob]
      /\ ctl'.doomed = Excess(Prunable("Succeeded")) \cup Excess(Prunable("Failed"))
      /\ UNCHANGED <<jobs, attempts, runs, cache, watch>>
  BY PrunesRuns
<1>1. k \in Names \ ctl.active /\ cache.runs[k].phase = phase /\ phase \in Ends /\ phase # "none"
  BY DEF Prunable, Prunes, Ends
<1>2. PICK born \in Nat : born = cache.runs[k].born
  BY <1>1, Types DEF BaseInv, Cache, Runs
<1>3. Exists(runs[k])
  <2> SUFFICES ASSUME ~Exists(runs[k])
               PROVE  FALSE
    OBVIOUS
  <2>1. Cardinality(NewerKept(phase, born)) >= Limit
    BY <1>1, <1>2 DEF PruneInv, Outlived
  <2> DEFINE Z == {m \in Prunable(phase) : cache.runs[m].born > born}
  <2>2. NewerKept(phase, born) \subseteq Z /\ Z \subseteq Names
    BY KeepersSeen DEF Prunable
  <2>3. /\ Cardinality(NewerKept(phase, born)) <= Cardinality(Z)
        /\ Cardinality(NewerKept(phase, born)) \in Nat /\ Cardinality(Z) \in Nat /\ Limit \in Nat
    BY <2>2, MoreNames, NamesFinite, ConstantsAssumption
  <2>4. Cardinality(Z) >= Limit
    BY <2>1, <2>3
  <2>. QED
    BY <1>2, <2>4 DEF Excess
<1>4. runs[k] = cache.runs[k]
  BY <1>1, <1>3 DEF PruneInv, RunViews, SeenEnd
<1>5. k \notin ctl'.doomed
  BY <1>0, <1>1, ExcessIs DEF Prunes
<1>6. ASSUME k \in Ticks
      PROVE  PastActive(k)' /\ ctl'.listed[k].phase # "active"
  <2>1. ctl.listed[k].phase # "active"
    BY <1>0, <1>1, <1>6 DEF JobInv, Visits
  <2>2. created[k] > 0
    <3>1. runs[k] # NoRun
      BY <1>3 DEF NoRun, Exists
    <3>2. created[k] \in Nat /\ created[k] # 0
      BY <1>1, <3>1, Types DEF BaseInv, RunInv, Unborn
    <3>. QED
      BY <3>2
  <2>3. ctl.listed[k] \in Jobs
    BY <1>6, Types DEF BaseInv, Ctl
  <2>4. Finished(ctl.listed[k]) \/ ~Exists(ctl.listed[k])
    BY <2>1, <2>3 DEF Finished, Exists, Jobs, JobPhases
  <2>5. PastActive(k)
    BY <1>0, <1>6, <2>2, <2>4 DEF JobInv, Views, Working
  <2>6. PastActive(k)'
    BY <1>0, <2>5 DEF PastActive
  <2>. QED
    BY <1>0, <1>6, <2>6 DEF NoJob
<1>. QED
  BY <1>0, <1>3, <1>4, <1>5, <1>6 DEF Keeps

\* A run that is pruned, or about to be, has its Limit of newer ones.
LEMMA PruningOutlived ==
    ASSUME IInv, PruneRuns, removed' = {}
    PROVE  Outlived'
<1> USE DEF IInv
<1>0. /\ removed = {} /\ ctl.pc = "jobs" /\ ctl.todo = {} /\ UNCHANGED <<runs, cache, watch>>
      /\ ctl'.doomed = Excess(Prunable("Succeeded")) \cup Excess(Prunable("Failed"))
  BY PrunesRuns
<1>1. ctl.doomed = {}
  BY <1>0 DEF JobInv, Visits, Working
<1>2. ASSUME NEW n \in ctl'.doomed
      PROVE  cache'.runs[n].phase \in Prunes
  BY <1>0, <1>2, ExcessIs DEF Prunes
<1>3. ASSUME NEW n \in Names, NEW phase \in Prunes, NEW born \in Nat,
             phase = cache.runs[n].phase, born = cache.runs[n].born, ~Exists(runs[n]) \/ n \in ctl'.doomed
      PROVE  Cardinality(NewerKept(phase, born)') >= Limit
  <2> DEFINE S == Prunable(phase)
             X == {m \in S : cache.runs[m].born > born}
             Y == {m \in S \ Excess(S) : cache.runs[m].born > born}
  <2>1. S \subseteq Names
    BY DEF Prunable
  <2>2. Cardinality(X) >= Limit
    <3>1. CASE n \in ctl'.doomed
      <4>1. n \in Excess(S)
        BY <1>0, <1>3, <3>1, ExcessIs DEF Prunes
      <4>. QED
        BY <1>3, <4>1 DEF Excess
    <3>2. CASE ~Exists(runs[n])
      <4>1. Cardinality(NewerKept(phase, born)) >= Limit
        BY <1>0, <1>3, <3>2 DEF PruneInv, Outlived
      <4>2. NewerKept(phase, born) \subseteq X /\ X \subseteq Names
        BY <2>1, KeepersSeen
      <4> HIDE DEF X
      <4>3. /\ Cardinality(NewerKept(phase, born)) <= Cardinality(X) /\ Limit \in Nat
            /\ Cardinality(NewerKept(phase, born)) \in Nat /\ Cardinality(X) \in Nat
        BY <4>2, MoreNames, NamesFinite, ConstantsAssumption
      <4>. QED
        BY <4>1, <4>3
    <3>. QED
      BY <1>3, <3>1, <3>2
  <2>3. Cardinality(Y) >= Limit
    BY <2>1, <2>2, ExcessIsOldest
  <2>4. Y \subseteq NewerKept(phase, born)'
    BY <1>0, PruningKeeps DEF NewerKept, Prunable
  <2>5. NewerKept(phase, born)' \subseteq Names /\ Y \subseteq Names
    BY <2>1 DEF NewerKept
  <2> HIDE DEF Y
  <2>6. /\ Cardinality(Y) <= Cardinality(NewerKept(phase, born)') /\ Limit \in Nat
        /\ Cardinality(Y) \in Nat /\ Cardinality(NewerKept(phase, born)') \in Nat
    BY <2>4, <2>5, MoreNames, NamesFinite, ConstantsAssumption
  <2>. QED
    BY <2>3, <2>6
<1>4. ASSUME NEW n \in Names, cache'.runs[n].phase \in Prunes, ~Exists(runs'[n]) \/ n \in ctl'.doomed
      PROVE  Cardinality(NewerKept(cache.runs[n].phase, cache.runs[n].born)') >= Limit
  <2>1. PICK phase, born : phase = cache.runs[n].phase /\ born = cache.runs[n].born
    OBVIOUS
  <2>2. born \in Nat /\ phase \in Prunes
    BY <1>0, <1>4, <2>1, Types DEF BaseInv, Cache, Runs
  <2>3. Cardinality(NewerKept(phase, born)') >= Limit
    BY <1>0, <1>3, <1>4, <2>1, <2>2
  <2>4. phase = cache'.runs[n].phase /\ born = cache'.runs[n].born
    BY <1>0, <2>1
  <2>. QED
    BY <1>0, <2>1, <2>3, <2>4 DEF NewerKept
<1>. QED
  BY <1>2, <1>4 DEF Outlived, NewerKept

\* So they have in every step.
LEMMA OutlivedKept ==
    ASSUME IInv, [Next]_vars
    PROVE  Outlived'
<1> USE DEF IInv
<1>1. CASE PruneRuns /\ removed' = {}
  BY <1>1, PruningOutlived
<1> SUFFICES ASSUME ~PruneRuns, removed' = {}
             PROVE  Outlived'
  BY <1>1 DEF Outlived
<1>0. /\ cache.runs \in [Names -> Runs] /\ watch.runs \in Seq(RunEvent) /\ ctl \in Ctl
      /\ removed = {} /\ ctl.doomed \subseteq Names
  BY Types, RemovedGrows DEF BaseInv, Cache, Watch, RunEvent, Ctl
<1>2. ctl'.doomed \subseteq ctl.doomed
  BY DoomedCases
<1>3. ASSUME NEW n \in ctl.doomed, Exists(runs[n])
      PROVE  /\ cache.runs[n].phase \in Prunes
             /\ \A i \in 1 .. Len(watch.runs) : watch.runs[i].name # n
  <2>1. cache.runs[n].phase \in Prunes
    BY <1>0, <1>3 DEF PruneInv, Outlived
  <2>2. \A i \in 1 .. Len(watch.runs) : watch.runs[i].name # n
    BY <1>0, <1>3, <2>1 DEF PruneInv, RunViews, SeenEnd, Prunes, Ends
  <2>. QED
    BY <2>1, <2>2
<1>4. ASSUME NEW n \in ctl.doomed, Exists(runs'[n])
      PROVE  Exists(runs[n])
  <2>1. ~RunBorn(n)
    <3>1. created[n] # 0
      BY <1>0 DEF RunInv, Unborn
    <3>. QED
      BY <1>0, <3>1, BornFirst
  <2>2. CASE RunEnds(n)
    BY <2>2 DEF RunEnds, Exists
  <2>3. ~RunDeleted(n)
    BY <1>4 DEF RunDeleted, NoRun, Exists
  <2>4. CASE runs'[n] = runs[n]
    BY <1>4, <2>4
  <2>. QED
    BY <1>0, <2>1, <2>2, <2>3, <2>4, RunCases DEF RunsRest, RunArrives, RunsAnew, RunWritten
\* What the cache has at its end it has.
<1>5. ASSUME NEW n \in Names, cache'.runs[n].phase \in Prunes, ~Exists(runs'[n]) \/ n \in ctl'.doomed
      PROVE  cache'.runs[n] = cache.runs[n] /\ (~Exists(runs[n]) \/ n \in ctl.doomed)
  <2>1. CASE RunsRest
    BY <1>2, <1>5, <2>1 DEF RunsRest
  <2>2. ASSUME NEW m \in Names, RunWritten(m), RunBorn(m) \/ RunEnds(m) \/ RunDeleted(m)
        PROVE  cache'.runs[n] = cache.runs[n] /\ (~Exists(runs[n]) \/ n \in ctl.doomed)
    <3>1. CASE m # n
      BY <1>2, <1>5, <2>2, <3>1 DEF RunWritten
    <3>2. CASE RunBorn(m) \/ RunEnds(m)
      <4>1. Exists(runs'[m])
        BY <3>2 DEF RunBorn, RunEnds, Exists, Ends
      <4>. QED
        BY <1>2, <1>5, <2>2, <3>1, <4>1 DEF RunWritten
    <3>3. CASE RunDeleted(m)
      <4>1. m \in ctl.doomed
        BY <1>0, <3>3, DeletesRun DEF RunDeleted
      <4>. QED
        BY <2>2, <3>1, <4>1 DEF RunWritten
    <3>. QED
      BY <2>2, <3>2, <3>3
  <2>3. CASE RunArrives
    <3>1. CASE Head(watch.runs).name # n
      BY <1>0, <1>5, <2>3, <3>1 DEF RunArrives
    <3>2. CASE Head(watch.runs).name = n
      <4>1. Head(watch.runs) = watch.runs[1] /\ 1 \in 1 .. Len(watch.runs)
        BY <1>0, <2>3, Tails DEF RunArrives
      <4>2. cache'.runs[n] = watch.runs[1].object /\ runs' = runs /\ ctl' = ctl
        BY <1>0, <2>3, <3>2, <4>1 DEF RunArrives
      <4>3. Exists(runs[n])
        BY <1>0, <1>5, <3>2, <4>1, <4>2 DEF PruneInv, RunViews, RunFollows, Prunes, Exists
      <4>. QED
        BY <1>3, <1>5, <3>2, <4>1, <4>2, <4>3
    <3>. QED
      BY <3>1, <3>2
  <2>4. CASE RunsAnew
    <3>1. cache'.runs = runs /\ runs' = runs /\ ctl'.doomed = {}
      BY <2>4, RestIs DEF RunsAnew
    <3>. QED
      BY <1>5, <3>1 DEF Exists, Prunes
  <2>. QED
    BY <2>1, <2>2, <2>3, <2>4, RunCases
<1>6. ASSUME NEW n \in ctl'.doomed, Exists(runs'[n])
      PROVE  cache'.runs[n].phase \in Prunes
  <2>1. n \in ctl.doomed /\ Exists(runs[n]) /\ n \in Names
    BY <1>0, <1>2, <1>4, <1>6
  <2>2. cache.runs[n].phase \in Prunes /\ \A i \in 1 .. Len(watch.runs) : watch.runs[i].name # n
    BY <1>3, <2>1
  <2>3. CASE RunArrives
    <3>1. Head(watch.runs).name # n
      BY <1>0, <2>2, <2>3, Tails DEF RunArrives
    <3>. QED
      BY <1>0, <2>1, <2>2, <2>3, <3>1 DEF RunArrives
  <2>4. ~RunsAnew
    BY <1>6, RestIs DEF RunsAnew
  <2>. QED
    BY <2>2, <2>3, <2>4, RunCases DEF RunsRest, RunWritten
<1>7. ASSUME NEW n \in Names, cache'.runs[n].phase \in Prunes, ~Exists(runs'[n]) \/ n \in ctl'.doomed
      PROVE  Cardinality(NewerKept(cache.runs[n].phase, cache.runs[n].born)') >= Limit
  <2>1. PICK phase, born : phase = cache.runs[n].phase /\ born = cache.runs[n].born
    OBVIOUS
  <2>2. born \in Nat /\ phase \in Prunes
    BY <1>0, <1>5, <1>7, <2>1 DEF Runs
  <2>3. Cardinality(NewerKept(phase, born)) >= Limit
    BY <1>0, <1>5, <1>7, <2>1, <2>2 DEF PruneInv, Outlived
  <2>4. Cardinality(NewerKept(phase, born)') >= Limit
    BY <2>2, <2>3, KeepersStay
  <2>5. phase = cache'.runs[n].phase /\ born = cache'.runs[n].born
    BY <1>5, <1>7, <2>1
  <2>. QED
    BY <2>1, <2>4, <2>5 DEF NewerKept
<1>. QED
  BY <1>6, <1>7 DEF Outlived, NewerKept

-----------------------------------------------------------------------------
(* The theorems *)

LEMMA Begins == Init => IInv
<1> SUFFICES ASSUME Init
             PROVE  IInv
  OBVIOUS
<1>1. BaseInv
  BY BaseBegins
<1>2. /\ jobs = [t \in Ticks |-> NoJob] /\ pods = [t \in Ticks |-> "none"]
      /\ attempts = [t \in Ticks |-> 0] /\ runs = [n \in Names |-> NoRun]
      /\ cache.jobs = jobs /\ cache.runs = runs /\ watch.jobs = <<>> /\ watch.runs = <<>>
      /\ ctl = Rest /\ created = [n \in Names |-> 0] /\ removed = {}
  BY DEF Init
<1>3. /\ ctl.pc = "idle" /\ ctl.listed = [t \in Ticks |-> NoJob] /\ ctl.todo = {} /\ ctl.active = {}
      /\ ctl.job = 0 /\ ctl.doomed = {}
  BY <1>2, RestIs
<1>4. ~Exists(NoJob) /\ ~Finished(NoJob) /\ ~Exists(NoRun) /\ NoJob.phase # "active"
      /\ NoRun.phase \notin Ends /\ NoRun.phase \notin Prunes
  BY DEF NoJob, NoRun, Exists, Finished, Ends, Prunes
<1>5. \A t \in Ticks : JobOK(t) /\ Views(t)
  BY <1>2, <1>3, <1>4, Objects DEF JobOK, Views
<1>6. JobEvents /\ Visits
  BY <1>2, <1>3, <1>4 DEF JobEvents, Visits, Working
<1>7. \A n \in Names : Unborn(n)
  BY <1>2, <1>3 DEF Unborn
<1>8. OneRun
  BY <1>2, <1>3, Objects DEF OneRun
<1>9. RunViews
  BY <1>2, <1>4 DEF RunViews, SeenEnd
<1>10. Outlived
  BY <1>2, <1>3, <1>4 DEF Outlived
<1>. QED
  BY <1>1, <1>5, <1>6, <1>7, <1>8, <1>9, <1>10 DEF IInv, JobInv, RunInv, PruneInv, BaseInv

LEMMA Kept ==
    ASSUME IInv, [Next]_vars, PromptJobs
    PROVE  IInv'
<1>1. BaseInv /\ JobInv /\ RunInv /\ \A n \in Names : Unborn(n)
  BY DEF IInv, RunInv
<1>2. BaseInv'
  BY <1>1, BaseKept
<1>3. \A t \in Ticks : JobOK(t)' /\ Views(t)'
  BY <1>1, JobKept, ViewsKept
<1>4. JobEvents' /\ Visits'
  BY <1>1, EventsKept, VisitsKept
<1>5. \A n \in Names : Unborn(n)'
  BY <1>1, UnbornKept
<1>6. OneRun'
  BY <1>1, OneRunKept
<1>7. RunViews' /\ Outlived'
  BY RunViewsKept, OutlivedKept
<1>. QED
  BY <1>2, <1>3, <1>4, <1>5, <1>6, <1>7 DEF IInv, JobInv, RunInv, PruneInv, BaseInv

\* The invariant of every behaviour in which the controller sees a Job before
\* the Job's pod runs.
LEMMA Invariant ==
    ASSUME PromptJobs
    PROVE  Spec => []IInv
<1>1. Init => IInv
  BY Begins
<1>2. IInv /\ [Next]_vars => IInv'
  BY Kept
<1>. QED
  BY <1>1, <1>2, PTL DEF Spec

\* Types: what the controller, the caches and the watches hold is well formed,
\* however late the watches are.
THEOREM TypeCorrect == Spec => []TypeOK
<1>1. BaseInv /\ [Next]_vars => BaseInv'
  BY BaseKept
<1>2. BaseInv => TypeOK
  BY DEF BaseInv
<1>. QED
  BY <1>1, <1>2, BaseBegins, PTL DEF Spec

\* A tick admits one run in its life: neither the pods that a Job retries, nor
\* the controller that makes up for a failed Job with caches that lag, nor the
\* pruning between the two, ever has a second one created for it.
THEOREM TickHasOneRun ==
    ASSUME PromptJobs
    PROVE  Spec => []OneRunPerTick
<1>1. IInv => OneRunPerTick
  BY DEF IInv, RunInv, OneRun, OneRunPerTick
<1>. QED
  BY <1>1, Invariant, PTL

\* The record of a failed trigger is true: the tick it is made for admitted no
\* other run.  MCWorkflowSchedule_lag shows that without PromptJobs it is not.
THEOREM RecordsTruthfully ==
    ASSUME PromptJobs
    PROVE  Spec => []RecoversTruthfully
<1>1. IInv => RecoversTruthfully
  <2> SUFFICES ASSUME IInv, NEW t \in Ticks \ removed, runs[t].failure
               PROVE  created[t] = 1
    BY DEF RecoversTruthfully
  <2>1. t \in Names /\ created[t] \in Nat
    BY Types, Objects DEF IInv, BaseInv
  <2>2. created[t] # 0
    BY <2>1 DEF IInv, RunInv, Unborn, NoRun
  <2>3. created[t] <= 1
    BY DEF IInv, RunInv, OneRun
  <2>. QED
    BY <2>1, <2>2, <2>3
<1>. QED
  BY <1>1, Invariant, PTL

\* Only pruning and people delete runs.
LEMMA Deletions ==
    ASSUME IInv, [Next]_vars, NEW n \in Names, Exists(runs[n]), ~Exists(runs'[n]), removed' = removed
    PROVE  n \in ctl.doomed \/ n \in removed
<1>1. PICK m \in Names : RunWritten(m) /\ (RunBorn(m) \/ RunEnds(m) \/ RunDeleted(m))
  BY RunCases DEF IInv, RunsRest, RunArrives, RunsAnew
<1>2. m = n
  BY <1>1 DEF RunWritten
<1>3. RunDeleted(n)
  BY <1>1, <1>2 DEF RunBorn, RunEnds, Exists, Ends
<1>4. ctl \in Ctl
  BY Types DEF IInv, BaseInv
<1>. QED
  BY <1>3, <1>4, DeletesRun DEF RunDeleted

\* Pruning takes the oldest: a run goes only when Limit newer ones that ended
\* the same way are left, and no Job asks for it any more, though the lists it
\* is decided on are old by then.
THEOREM PruningTakesOldest ==
    ASSUME PromptJobs
    PROVE  Spec => PrunesOldest
<1> DEFINE Oldest ==
      \A n \in Names :
        Exists(runs[n]) /\ ~Exists(runs'[n]) /\ removed' = removed =>
            /\ n \in Ticks \ removed => jobs[n].phase # "active"
            /\ removed = {} =>
                  /\ runs[n].phase \in {"Succeeded", "Failed"}
                  /\ Cardinality({m \in Names : /\ runs[m].phase = runs[n].phase
                                                /\ runs[m].born > runs[n].born}) >= Limit
<1>1. IInv /\ [Next]_vars => Oldest
  <2> SUFFICES ASSUME IInv, [Next]_vars, NEW n \in Names,
                      Exists(runs[n]), ~Exists(runs'[n]), removed' = removed
               PROVE  /\ n \in Ticks \ removed => jobs[n].phase # "active"
                      /\ removed = {} =>
                            /\ runs[n].phase \in {"Succeeded", "Failed"}
                            /\ Cardinality({m \in Names : /\ runs[m].phase = runs[n].phase
                                                          /\ runs[m].born > runs[n].born}) >= Limit
    OBVIOUS
  <2>1. n \in ctl.doomed \/ n \in removed
    BY Deletions
  <2>2. ASSUME n \in Ticks \ removed
        PROVE  jobs[n].phase # "active"
    BY <2>1, <2>2 DEF IInv, RunInv, OneRun, Settled, Exists
  <2>3. ASSUME removed = {}
        PROVE  /\ runs[n].phase \in {"Succeeded", "Failed"}
               /\ Cardinality({m \in Names : /\ runs[m].phase = runs[n].phase
                                             /\ runs[m].born > runs[n].born}) >= Limit
    <3>1. n \in ctl.doomed /\ cache.runs[n].phase \in Prunes
      BY <2>1, <2>3 DEF IInv, PruneInv, Outlived
    <3>2. runs[n] = cache.runs[n]
      BY <2>3, <3>1 DEF IInv, PruneInv, RunViews, SeenEnd, Prunes, Ends
    <3> DEFINE Newer == {m \in Names : /\ runs[m].phase = runs[n].phase /\ runs[m].born > runs[n].born}
               Left == NewerKept(cache.runs[n].phase, cache.runs[n].born)
    <3>3. Cardinality(Left) >= Limit
      BY <2>3, <3>1 DEF IInv, PruneInv, Outlived
    <3>4. Left \subseteq Newer /\ Newer \subseteq Names /\ Left \subseteq Names
      BY <3>2 DEF NewerKept, Keeps
    <3> HIDE DEF Newer, Left
    <3>5. /\ Cardinality(Left) <= Cardinality(Newer) /\ Limit \in Nat
          /\ Cardinality(Left) \in Nat /\ Cardinality(Newer) \in Nat
      BY <3>4, MoreNames, NamesFinite, ConstantsAssumption
    <3>6. Cardinality(Newer) >= Limit
      BY <3>3, <3>5
    <3>. QED
      BY <3>1, <3>2, <3>6 DEF Newer, Prunes
  <2>. QED
    BY <2>2, <2>3
<1>. QED
  BY <1>1, Invariant, PTL DEF Spec, PrunesOldest
=============================================================================
