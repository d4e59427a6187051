---------------------------- MODULE ObserverSink ----------------------------
(***************************************************************************)
(* The observer's sink: one goroutine that takes telemetry events from a   *)
(* bounded channel, batches them, writes each batch in one transaction,    *)
(* keeps what could not be written, isolates what PostgreSQL rejects, and  *)
(* drains under a budget when the process stops.                           *)
(*                                                                         *)
(* An event is its position in sent, the order in which the channel        *)
(* accepted the events.  Process, file and network events are copied       *)
(* (COPY: an error names no row, a repeated row is a second row); spans    *)
(* and guardrail evaluations go in by statements of their own (an error    *)
(* names its record, a repeated insert does nothing).                      *)
(***************************************************************************)
EXTENDS Integers, Sequences, FiniteSets, SequencesExt

CONSTANTS
    BatchSize,    \* cfg.BatchSize
    Capacity,     \* of the channel: four times BatchSize in the code
    MaxEvents,    \* events producers send
    MaxFaults     \* system errors, lost answers and attempts out of time

ASSUME BoundsAssumption ==
    /\ BatchSize \in Nat \ {0}
    /\ Capacity \in Nat
    /\ MaxEvents \in Nat
    /\ MaxFaults \in Nat

VARIABLES
    sent,       \* events the channel accepted, in order
    taken,      \* how many of them the sink received
    cancelled,  \* the context of the process is cancelled
    closed,     \* the channel is closed
    pc,         \* "top" of the loop, "select", "flush", "stopped"
    batch,      \* b
    pending,    \* batches split off, the next one to write last
    rejections, \* failures, up to 1: a batch was rejected in this flush
    drained,    \* the sink's closed: it saw the channel's end
    stopping,   \* stop # nil: the shutdown budget runs
    expired,    \* writeCtx is over
    rows,       \* rows stored for each event
    discarded,  \* events given up as invalid
    lost,       \* answers of commits that were lost
    faults

channel == <<sent, cancelled, closed>>
retained == <<batch, pending>>
outcome == <<rows, discarded, lost>>
vars == <<sent, taken, cancelled, closed, pc, batch, pending, rejections, drained, stopping,
          expired, rows, discarded, lost, faults>>

Events == 1 .. Len(sent)
EventTypes == [copied : BOOLEAN, valid : BOOLEAN]
Valid(e) == sent[e].valid

-----------------------------------------------------------------------------
(* Batches *)

Empty == [copied |-> <<>>, traced |-> <<>>]

Add(b, e) ==
    IF sent[e].copied THEN [b EXCEPT !.copied = Append(@, e)] ELSE [b EXCEPT !.traced = Append(@, e)]

Count(b) == Len(b.copied) + Len(b.traced)
All(b) == Range(b.copied) \cup Range(b.traced)

Least(m, n) == IF m < n THEN m ELSE n

\* split: its first n records, copied ones first, and the rest.
SplitHead(b, n) ==
    LET k == Least(n, Len(b.copied))
        m == Least(n - k, Len(b.traced))
    IN  [copied |-> SubSeq(b.copied, 1, k), traced |-> SubSeq(b.traced, 1, m)]

SplitTail(b, n) ==
    LET k == Least(n, Len(b.copied))
        m == Least(n - k, Len(b.traced))
    IN  [copied |-> SubSeq(b.copied, k + 1, Len(b.copied)),
         traced |-> SubSeq(b.traced, m + 1, Len(b.traced))]

-----------------------------------------------------------------------------
(* insertBatch *)

\* The transaction goes through: nothing in it is invalid.
Acceptable(b) == \A e \in All(b) : Valid(e)

\* COPY adds a row each time; ON CONFLICT DO NOTHING keeps the first one.
Stored(b) ==
    [e \in DOMAIN rows |->
        IF e \in Range(b.copied) THEN rows[e] + 1
        ELSE IF e \in Range(b.traced) THEN 1 ELSE rows[e]]

\* Mutant: the index counts the statement's own records only.
NamedLocal(b) == {i - 1 : i \in {i \in DOMAIN b.traced : ~Valid(b.traced[i])}}

\* An indexed error comes after every COPY succeeded.
Indexed(b) == \A e \in Range(b.copied) : Valid(e)

\* The positions, in the batch, of the records it may name: the statements run
\* one stage after the other, and any invalid record may be the first to fail.
Named(b) == {Len(b.copied) + i - 1 : i \in {i \in DOMAIN b.traced : ~Valid(b.traced[i])}}

-----------------------------------------------------------------------------
(* Producers and the process *)

\* A collector's event, or one of an OTLP export, enters the channel.
SendEvent(copied, valid) ==
    /\ Len(sent) < MaxEvents
    /\ ~closed
    /\ Len(sent) - taken < Capacity
    /\ sent' = Append(sent, [copied |-> copied, valid |-> valid])
    /\ rows' = Append(rows, 0)
    /\ UNCHANGED <<taken, cancelled, closed, pc, retained, rejections, drained, stopping, expired,
                   discarded, lost, faults>>

Cancel ==
    /\ ~cancelled
    /\ cancelled' = TRUE
    /\ UNCHANGED <<sent, taken, closed, pc, retained, rejections, drained, stopping, expired,
                   outcome, faults>>

\* Serve closes the channel once every producer returned.
Close ==
    /\ cancelled /\ ~closed
    /\ closed' = TRUE
    /\ UNCHANGED <<sent, taken, cancelled, pc, retained, rejections, drained, stopping, expired,
                   outcome, faults>>

\* The ten seconds of the shutdown are over.
Expire ==
    /\ stopping /\ ~expired
    /\ expired' = TRUE
    /\ UNCHANGED <<channel, taken, pc, retained, rejections, drained, stopping, outcome, faults>>

-----------------------------------------------------------------------------
(* The loop of run *)

Nothing == Count(batch) = 0 /\ pending = <<>>

Finished == expired \/ (drained /\ Nothing)

\* The head of the loop: begin the shutdown once, or leave, or wait.
Top ==
    /\ pc = "top"
    /\ IF ~stopping /\ (drained \/ cancelled)
       THEN pc' = "flush" /\ stopping' = TRUE /\ rejections' = 0
       ELSE /\ pc' = IF Finished THEN "stopped" ELSE "select"
            /\ UNCHANGED <<stopping, rejections>>
    /\ UNCHANGED <<channel, taken, retained, drained, expired, outcome, faults>>

\* Mutant: a batch that was split does not hold up the channel.
BackpressureFull == drained \/ Count(batch) >= BatchSize

\* events = nil
Backpressure == drained \/ pending # <<>> \/ Count(batch) >= BatchSize

Receive ==
    /\ pc = "select"
    /\ ~Backpressure
    /\ taken < Len(sent)
    /\ taken' = taken + 1
    /\ batch' = Add(batch, taken + 1)
    /\ IF Count(batch') >= BatchSize
       THEN pc' = "flush" /\ rejections' = 0
       ELSE pc' = "top" /\ UNCHANGED rejections
    /\ UNCHANGED <<channel, pending, drained, stopping, expired, outcome, faults>>

\* Mutant: the zero value of a closed channel is taken for an event.
ReceiveZero ==
    /\ pc = "select"
    /\ ~Backpressure
    /\ closed /\ taken = Len(sent)
    /\ taken' = taken + 1
    /\ pc' = "top"
    /\ UNCHANGED <<channel, retained, rejections, drained, stopping, expired, outcome, faults>>

ReceiveClosed ==
    /\ pc = "select"
    /\ ~Backpressure
    /\ closed /\ taken = Len(sent)
    /\ drained' = TRUE
    /\ pc' = "top"
    /\ UNCHANGED <<channel, taken, retained, rejections, stopping, expired, outcome, faults>>

\* Mutant: only a full batch is written.
TickFull ==
    /\ pc = "select"
    /\ pc' = IF Count(batch) >= BatchSize THEN "flush" ELSE "top"
    /\ rejections' = 0
    /\ UNCHANGED <<channel, taken, retained, drained, stopping, expired, outcome, faults>>

Tick ==
    /\ pc = "select"
    /\ pc' = "flush"
    /\ rejections' = 0
    /\ UNCHANGED <<channel, taken, retained, drained, stopping, expired, outcome, faults>>

Shutdown ==
    /\ pc = "select"
    /\ cancelled /\ ~stopping
    /\ pc' = "top"
    /\ UNCHANGED <<channel, taken, retained, rejections, drained, stopping, expired, outcome, faults>>

BudgetOver ==
    /\ pc = "select"
    /\ expired
    /\ pc' = "stopped"
    /\ UNCHANGED <<channel, taken, retained, rejections, drained, stopping, expired, outcome, faults>>

-----------------------------------------------------------------------------
(* flush *)

Fault == faults < MaxFaults /\ faults' = faults + 1

\* The batch to write, and what then remains pending.
Current == IF Count(batch) > 0 THEN batch ELSE Last(pending)
Others == IF Count(batch) > 0 THEN pending ELSE Front(pending)

\* Everything is written, or the attempt is out of time.
FlushEnds ==
    /\ pc = "flush"
    /\ ((Nothing \/ expired) /\ UNCHANGED faults) \/ Fault
    /\ pc' = "top"
    /\ UNCHANGED <<channel, taken, retained, rejections, drained, stopping, expired, outcome>>

InsertBatch ==
    /\ pc = "flush"
    /\ ~Nothing /\ ~expired
    /\ Acceptable(Current)
    /\ rows' = Stored(Current)
    /\ batch' = Empty
    /\ pending' = Others
    /\ UNCHANGED <<channel, taken, pc, rejections, drained, stopping, expired, discarded, lost, faults>>

Retain == batch' = Current /\ pending' = Others

\* A system error, or a commit whose answer is lost: the batch is kept and the
\* flush gives up.
InsertFails ==
    /\ pc = "flush"
    /\ ~Nothing
    /\ Fault \/ (expired /\ UNCHANGED faults)
    /\ \/ UNCHANGED <<rows, lost>>
       \/ Acceptable(Current) /\ rows' = Stored(Current) /\ lost' = lost + 1
    /\ Retain
    /\ pc' = "top"
    /\ UNCHANGED <<channel, taken, rejections, drained, stopping, expired, discarded>>

Push(b) == IF Count(b) > 0 THEN Append(Others, b) ELSE Others

\* The named record is given up; what precedes it stays, the rest is pending.
Isolate(b, i) ==
    /\ batch' = SplitHead(b, i)
    /\ pending' = Push(SplitTail(SplitTail(b, i), 1))
    /\ discarded' = discarded \cup All(SplitHead(SplitTail(b, i), 1))

\* Mutant: the second half still holds the first.
HalveAliased(b) ==
    /\ batch' = SplitHead(b, Count(b) \div 2)
    /\ pending' = Append(Others, b)
    /\ UNCHANGED discarded

\* Mutant: the second half is written first.
HalveSwapped(b) ==
    /\ batch' = SplitTail(b, Count(b) \div 2)
    /\ pending' = Append(Others, SplitHead(b, Count(b) \div 2))
    /\ UNCHANGED discarded

Halve(b) ==
    /\ batch' = SplitHead(b, Count(b) \div 2)
    /\ pending' = Append(Others, SplitTail(b, Count(b) \div 2))
    /\ UNCHANGED discarded

\* A rejected batch: a single record is given up, a named one isolated (the
\* first time in a flush), any other batch halved, as is one whose error, of a
\* COPY or of an aggregate, names no record.
Reject(b) ==
    IF Count(b) = 1
    THEN batch' = Empty /\ pending' = Others /\ discarded' = discarded \cup All(b)
    ELSE \/ Indexed(b) /\ rejections = 0 /\ \E i \in Named(b) : Isolate(b, i)
         \/ Halve(b)

InsertRejected ==
    /\ pc = "flush"
    /\ ~Nothing /\ ~expired
    /\ ~Acceptable(Current)
    /\ Reject(Current)
    /\ rejections' = 1
    /\ UNCHANGED <<channel, taken, pc, drained, stopping, expired, rows, lost, faults>>

-----------------------------------------------------------------------------

Init ==
    /\ sent = <<>>
    /\ taken = 0
    /\ cancelled = FALSE
    /\ closed = FALSE
    /\ pc = "top"
    /\ batch = Empty
    /\ pending = <<>>
    /\ rejections = 0
    /\ drained = FALSE
    /\ stopping = FALSE
    /\ expired = FALSE
    /\ rows = <<>>
    /\ discarded = {}
    /\ lost = 0
    /\ faults = 0

Flush == FlushEnds \/ InsertBatch \/ InsertFails \/ InsertRejected
Sink == Top \/ Receive \/ ReceiveClosed \/ Tick \/ Shutdown \/ BudgetOver \/ Flush
Producer == \E copied, valid \in BOOLEAN : SendEvent(copied, valid)

Next == Sink \/ Producer \/ Cancel \/ Close \/ Expire

Spec == Init /\ [][Next]_vars

\* select picks among the ready cases at random and the ticker never stops; the
\* producers return, and the budget ends, once the process is cancelled.
Fairness ==
    /\ WF_vars(Sink)
    /\ SF_vars(Receive \/ ReceiveClosed) /\ SF_vars(Tick)
    /\ WF_vars(Close) /\ WF_vars(Expire)

FairSpec == Spec /\ Fairness

-----------------------------------------------------------------------------
(* Properties *)

Batches == [copied : Seq(Nat), traced : Seq(Nat)]

\* The sink's variables are well formed.
TypeOK ==
    /\ sent \in Seq(EventTypes)
    /\ taken \in 0 .. Len(sent)
    /\ cancelled \in BOOLEAN /\ closed \in BOOLEAN
    /\ pc \in {"top", "select", "flush", "stopped"}
    /\ batch \in Batches
    /\ pending \in Seq(Batches)
    /\ rejections \in {0, 1}
    /\ drained \in BOOLEAN /\ stopping \in BOOLEAN /\ expired \in BOOLEAN
    /\ rows \in Seq(Nat) /\ Len(rows) = Len(sent)
    /\ discarded \subseteq 1 .. taken
    /\ lost \in Nat /\ faults \in Nat

Held == All(batch) \cup UNION {All(pending[k]) : k \in DOMAIN pending}

\* Every event the sink took from the channel is stored, retained, or given up
\* as invalid, through every split and failed write.
NothingLost == \A e \in 1 .. taken : rows[e] > 0 \/ e \in Held \/ e \in discarded

\* Only what PostgreSQL rejects on its own is given up: a valid event never
\* goes down with an invalid one of its batch.
OnlyInvalidDiscarded == \A e \in discarded : ~Valid(e)

\* No event is stored more often than commits lost their answer, an event of
\* its own statement at most once, and no invalid event at all.
NoDuplicates ==
    \A e \in 1 .. taken :
        /\ rows[e] <= IF sent[e].copied THEN 1 + lost ELSE 1
        /\ rows[e] > 0 => Valid(e) /\ e \notin discarded
        /\ rows[e] > 0 /\ e \in Held => lost > 0

\* The records of the k-th batch in memory, of all that were split off, and of
\* these and the current one.
Places(k, b) == {k} \X (1 .. Count(b))
Stacked(p) == UNION {Places(k, p[k]) : k \in DOMAIN p}
Memory == Places(0, batch) \cup Stacked(pending)

\* What the sink retains never exceeds one batch, however often it was split
\* and however long PostgreSQL is away.
Bounded == Cardinality(Memory) <= BatchSize

\* Events of one kind are stored in the order they were accepted in: halves,
\* remainders and new events do not overtake each other.
StoredInOrder ==
    \A d, e \in 1 .. taken :
        d < e /\ sent[d].copied = sent[e].copied /\ rows[e] > 0 => rows[d] > 0 \/ d \in discarded

\* A sink that stops within its budget leaves nothing behind, neither retained
\* nor in the channel.
CleanStop == pc = "stopped" /\ ~expired => Nothing /\ closed /\ taken = Len(sent)

\* An accepted event is stored or given up as invalid, whatever failed before,
\* unless the shutdown budget ends first.
EventsResolve ==
    \A e \in 1 .. MaxEvents :
        e <= Len(sent) ~> expired \/ (e <= Len(sent) /\ (rows[e] > 0 \/ e \in discarded))

\* A cancelled process's sink stops, so that Serve returns.
SinkStops == cancelled ~> pc = "stopped"

\* Neither events nor the sink itself are left hanging.
SinkSettles == EventsResolve /\ SinkStops
=============================================================================
