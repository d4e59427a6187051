------------------------- MODULE ObserverSinkProofs -------------------------
(***************************************************************************)
(* Proofs about ObserverSink, for every batch size, capacity and number of *)
(* events and faults: what the sink took from the channel is accounted     *)
(* for, only invalid events are given up, order is kept, nothing is stored *)
(* twice without a lost answer, memory stays within a batch, and a sink    *)
(* that stops in time leaves nothing behind.                               *)
(***************************************************************************)
EXTENDS ObserverSink, TLAPS, FiniteSetTheorems

BatchOf(S) == [copied : Seq(S), traced : Seq(S)]

-----------------------------------------------------------------------------
(* Batches *)

\* Cutting a sequence in two keeps its elements.
LEMMA CutSeq ==
    ASSUME NEW S, NEW s \in Seq(S), NEW k \in 0 .. Len(s)
    PROVE  /\ SubSeq(s, 1, k) \in Seq(S) /\ SubSeq(s, k + 1, Len(s)) \in Seq(S)
           /\ Len(SubSeq(s, 1, k)) = k /\ Len(SubSeq(s, k + 1, Len(s))) = Len(s) - k
           /\ \A i \in 1 .. k : SubSeq(s, 1, k)[i] = s[i]
           /\ \A i \in 1 .. Len(s) - k : SubSeq(s, k + 1, Len(s))[i] = s[k + i]
OBVIOUS

\* The elements of a sequence are those of its two parts.
LEMMA CutRange ==
    ASSUME NEW S, NEW s \in Seq(S), NEW k \in 0 .. Len(s)
    PROVE  Range(SubSeq(s, 1, k)) \cup Range(SubSeq(s, k + 1, Len(s))) = Range(s)
<1> DEFINE h == SubSeq(s, 1, k)
           t == SubSeq(s, k + 1, Len(s))
<1>1. /\ h \in Seq(S) /\ t \in Seq(S) /\ Len(h) = k /\ Len(t) = Len(s) - k
      /\ \A i \in 1 .. k : h[i] = s[i]
      /\ \A i \in 1 .. Len(s) - k : t[i] = s[k + i]
  BY CutSeq
<1> HIDE DEF h, t
<1>0. Len(s) \in Nat /\ k \in Nat /\ k <= Len(s)
  OBVIOUS
<1>2. Range(h) \subseteq Range(s) /\ Range(t) \subseteq Range(s)
  <2>1. ASSUME NEW x \in Range(h) PROVE x \in Range(s)
    <3>1. PICK i \in 1 .. k : x = h[i]
      BY <1>1, <2>1 DEF Range
    <3> QED BY <1>0, <1>1, <3>1 DEF Range
  <2>2. ASSUME NEW x \in Range(t) PROVE x \in Range(s)
    <3>1. PICK i \in 1 .. Len(s) - k : x = t[i]
      BY <1>1, <2>2 DEF Range
    <3>2. k + i \in 1 .. Len(s) /\ x = s[k + i]
      BY <1>0, <1>1, <3>1
    <3> QED BY <3>2 DEF Range
  <2> QED BY <2>1, <2>2
<1>3. ASSUME NEW x \in Range(s) PROVE x \in Range(h) \cup Range(t)
  <2>1. PICK i \in 1 .. Len(s) : x = s[i]
    BY <1>3 DEF Range
  <2>2. CASE i <= k
    <3>1. i \in 1 .. k /\ x = h[i]
      BY <1>0, <1>1, <2>1, <2>2
    <3>2. DOMAIN h = 1 .. k
      BY <1>0, <1>1
    <3> QED BY <3>1, <3>2 DEF Range
  <2>3. CASE i > k
    <3>1. i - k \in 1 .. Len(s) - k /\ t[i - k] = s[i]
      <4>1. i - k \in 1 .. Len(s) - k /\ k + (i - k) = i
        BY <1>0, <2>3
      <4> QED BY <1>1, <4>1
    <3> QED BY <1>1, <2>1, <3>1 DEF Range
  <2> QED BY <2>2, <2>3
<1> QED BY <1>2, <1>3 DEF h, t

\* Splitting a batch keeps its records.
LEMMA SplitBatch ==
    ASSUME NEW S, NEW b \in BatchOf(S), NEW n \in Nat
    PROVE  /\ SplitHead(b, n) \in BatchOf(S) /\ SplitTail(b, n) \in BatchOf(S)
           /\ All(SplitHead(b, n)) \cup All(SplitTail(b, n)) = All(b)
<1> DEFINE k == Least(n, Len(b.copied))
           m == Least(n - k, Len(b.traced))
<1>1. b.copied \in Seq(S) /\ b.traced \in Seq(S)
  BY DEF BatchOf
<1>2. k \in 0 .. Len(b.copied) /\ k <= n
  BY <1>1 DEF Least
<1>3. m \in 0 .. Len(b.traced)
  <2> HIDE DEF k
  <2> QED BY <1>1, <1>2 DEF Least
<1> DEFINE hc == SubSeq(b.copied, 1, k)
           tc == SubSeq(b.copied, k + 1, Len(b.copied))
           ht == SubSeq(b.traced, 1, m)
           tt == SubSeq(b.traced, m + 1, Len(b.traced))
<1>4. SplitHead(b, n) = [copied |-> hc, traced |-> ht] /\ SplitTail(b, n) = [copied |-> tc, traced |-> tt]
  BY DEF SplitHead, SplitTail
<1> HIDE DEF k, m
<1>5. hc \in Seq(S) /\ tc \in Seq(S) /\ ht \in Seq(S) /\ tt \in Seq(S)
  BY <1>1, <1>2, <1>3, CutSeq
<1>6. Range(hc) \cup Range(tc) = Range(b.copied) /\ Range(ht) \cup Range(tt) = Range(b.traced)
  BY <1>1, <1>2, <1>3, CutRange
<1> HIDE DEF hc, tc, ht, tt
<1>7. SplitHead(b, n) \in BatchOf(S) /\ SplitTail(b, n) \in BatchOf(S)
  BY <1>4, <1>5 DEF BatchOf
<1>8. /\ SplitHead(b, n).copied = hc /\ SplitHead(b, n).traced = ht
      /\ SplitTail(b, n).copied = tc /\ SplitTail(b, n).traced = tt
  BY <1>4
<1> QED BY <1>6, <1>7, <1>8 DEF All

\* A record that an error may name is an invalid one of the statements that
\* follow the copies.
LEMMA NamedRecord ==
    ASSUME NEW S, NEW b \in BatchOf(S), NEW i \in Named(b)
    PROVE  \E j \in 0 .. Len(b.traced) - 1 :
               i = Len(b.copied) + j /\ ~Valid(b.traced[j + 1])
<1>1. PICK n \in DOMAIN b.traced : i = Len(b.copied) + n - 1 /\ ~Valid(b.traced[n])
  BY DEF Named
<1>2. DOMAIN b.traced = 1 .. Len(b.traced) /\ Len(b.traced) \in Nat /\ Len(b.copied) \in Nat
  BY DEF BatchOf
<1>3. n - 1 \in 0 .. Len(b.traced) - 1 /\ i = Len(b.copied) + (n - 1) /\ (n - 1) + 1 = n
  BY <1>1, <1>2
<1> QED BY <1>1, <1>3

\* The record an indexed error names is the one that is cut out.
LEMMA CutOut ==
    ASSUME NEW S, NEW b \in BatchOf(S), NEW i \in 0 .. Len(b.traced) - 1
    PROVE  All(SplitHead(SplitTail(b, Len(b.copied) + i), 1)) = {b.traced[i + 1]}
<1> DEFINE n == Len(b.copied) + i
           t == SplitTail(b, n)
           tt == SubSeq(b.traced, i + 1, Len(b.traced))
<1>0. /\ b.copied \in Seq(S) /\ b.traced \in Seq(S)
      /\ Len(b.copied) \in Nat /\ Len(b.traced) \in Nat /\ i \in 0 .. Len(b.traced) /\ i < Len(b.traced)
  BY DEF BatchOf
<1>1. Least(n, Len(b.copied)) = Len(b.copied) /\ Least(n - Len(b.copied), Len(b.traced)) = i
  BY <1>0 DEF Least
<1>2. t = [copied |-> SubSeq(b.copied, Len(b.copied) + 1, Len(b.copied)), traced |-> tt]
  BY <1>1 DEF SplitTail
<1>3. t.copied \in Seq(S) /\ Len(t.copied) = 0 /\ t.traced = tt
  <2>1. Len(b.copied) \in 0 .. Len(b.copied)
    BY <1>0
  <2> HIDE DEF t, tt
  <2> QED BY <1>0, <1>2, <2>1, CutSeq
<1>4. tt \in Seq(S) /\ Len(tt) = Len(b.traced) - i /\ tt[1] = b.traced[i + 1]
  <2> HIDE DEF tt
  <2> QED BY <1>0, CutSeq DEF tt
<1> HIDE DEF t, tt
<1>5. Least(1, Len(t.copied)) = 0 /\ Least(1 - 0, Len(t.traced)) = 1
  BY <1>0, <1>3, <1>4 DEF Least
<1>6. SplitHead(t, 1) = [copied |-> SubSeq(t.copied, 1, 0), traced |-> SubSeq(t.traced, 1, 1)]
  BY <1>5 DEF SplitHead
<1>7. /\ Len(SubSeq(t.copied, 1, 0)) = 0 /\ SubSeq(t.copied, 1, 0) \in Seq(S)
      /\ Len(SubSeq(tt, 1, 1)) = 1 /\ SubSeq(tt, 1, 1) \in Seq(S) /\ SubSeq(tt, 1, 1)[1] = tt[1]
  BY <1>0, <1>3, <1>4
<1>8. Range(SplitHead(t, 1).copied) = {} /\ Range(SplitHead(t, 1).traced) = {b.traced[i + 1]}
  BY <1>3, <1>4, <1>6, <1>7 DEF Range
<1> QED BY <1>8 DEF All, t

-----------------------------------------------------------------------------
(* The invariant *)

Own == BatchOf(1 .. taken)

\* What the sink retains are events it took.
Retained == batch \in Own /\ pending \in Seq(Own)

\* The end of the channel, once seen, stays; and what "stopped" means.
Ended ==
    /\ drained => closed /\ taken = Len(sent)
    /\ pc = "stopped" => expired \/ (drained /\ Nothing)

IInv == TypeOK /\ Retained /\ NothingLost /\ OnlyInvalidDiscarded /\ Ended

\* The records of a batch, and none for the empty one.
LEMMA EmptyBatch == Empty \in BatchOf({}) /\ All(Empty) = {} /\ Count(Empty) = 0
BY DEF Empty, BatchOf, All, Count, Range

\* Batches grow with the set their records are from.
LEMMA BatchGrows == ASSUME NEW S, NEW T, S \subseteq T, NEW b \in BatchOf(S) PROVE b \in BatchOf(T)
BY DEF BatchOf

\* So do sequences of batches.
LEMMA BatchesGrow ==
    ASSUME NEW S, NEW T, S \subseteq T, NEW p \in Seq(BatchOf(S)) PROVE p \in Seq(BatchOf(T))
<1>1. BatchOf(S) \subseteq BatchOf(T)
  BY BatchGrows
<1> QED BY <1>1

\* The records of a batch are from the set it is over.
LEMMA AllOf == ASSUME NEW S, NEW b \in BatchOf(S) PROVE All(b) \subseteq S /\ Count(b) \in Nat
BY DEF BatchOf, All, Count, Range

\* A batch with no record has none, and one with one record has one.
LEMMA CountAll ==
    ASSUME NEW S, NEW b \in BatchOf(S)
    PROVE  (Count(b) = 0 => All(b) = {}) /\ (Count(b) = 1 => \E e : All(b) = {e})
<1>0. b.copied \in Seq(S) /\ b.traced \in Seq(S) /\ Len(b.copied) \in Nat /\ Len(b.traced) \in Nat
  BY DEF BatchOf
<1>1. ASSUME NEW s \in Seq(S), Len(s) = 0 PROVE Range(s) = {}
  BY <1>1 DEF Range
<1>2. ASSUME NEW s \in Seq(S), Len(s) = 1 PROVE Range(s) = {s[1]}
  BY <1>2 DEF Range
<1>5. \A m, n \in Nat : /\ m + n = 0 => m = 0 /\ n = 0
                        /\ m + n = 1 => (m = 1 /\ n = 0) \/ (m = 0 /\ n = 1)
  OBVIOUS
<1>6. Count(b) = Len(b.copied) + Len(b.traced)
  BY DEF Count
<1>3. ASSUME Count(b) = 0 PROVE All(b) = {}
  <2>1. Len(b.copied) = 0 /\ Len(b.traced) = 0
    BY <1>0, <1>3, <1>5, <1>6, Zenon
  <2> QED BY <1>0, <1>1, <2>1 DEF All
<1>4. ASSUME Count(b) = 1 PROVE \E e : All(b) = {e}
  <2>1. \/ Len(b.copied) = 1 /\ Len(b.traced) = 0
        \/ Len(b.copied) = 0 /\ Len(b.traced) = 1
    BY <1>0, <1>4, <1>5, <1>6, Zenon
  <2>2. CASE Len(b.copied) = 1 /\ Len(b.traced) = 0
    BY <1>0, <1>1, <1>2, <2>2 DEF All
  <2>3. CASE Len(b.copied) = 0 /\ Len(b.traced) = 1
    BY <1>0, <1>1, <1>2, <2>3 DEF All
  <2> QED BY <2>1, <2>2, <2>3
<1> QED BY <1>3, <1>4

\* A received event joins the batch.
LEMMA AddAll ==
    ASSUME NEW S, NEW b \in BatchOf(S), NEW e \in S
    PROVE  Add(b, e) \in BatchOf(S) /\ All(Add(b, e)) = All(b) \cup {e}
<1>0. b.copied \in Seq(S) /\ b.traced \in Seq(S)
  BY DEF BatchOf
<1>1. ASSUME NEW s \in Seq(S) PROVE Append(s, e) \in Seq(S) /\ Range(Append(s, e)) = Range(s) \cup {e}
  <2>1. /\ Append(s, e) \in Seq(S) /\ Len(Append(s, e)) = Len(s) + 1 /\ Append(s, e)[Len(s) + 1] = e
        /\ \A i \in 1 .. Len(s) : Append(s, e)[i] = s[i]
    OBVIOUS
  <2>2. Len(s) \in Nat /\ DOMAIN s = 1 .. Len(s) /\ DOMAIN Append(s, e) = 1 .. (Len(s) + 1)
    BY <2>1
  <2> QED BY <2>1, <2>2 DEF Range
<1>2. CASE sent[e].copied
  <2>1. /\ Add(b, e) \in BatchOf(S) /\ Add(b, e).copied = Append(b.copied, e)
        /\ Add(b, e).traced = b.traced
    BY <1>0, <1>1, <1>2 DEF Add, BatchOf
  <2> QED BY <1>0, <1>1, <2>1 DEF All
<1>3. CASE ~sent[e].copied
  <2>1. /\ Add(b, e) \in BatchOf(S) /\ Add(b, e).traced = Append(b.traced, e)
        /\ Add(b, e).copied = b.copied
    BY <1>0, <1>1, <1>3 DEF Add, BatchOf
  <2> QED BY <1>0, <1>1, <2>1 DEF All
<1> QED BY <1>2, <1>3

-----------------------------------------------------------------------------
(* Steps *)

\* Facts about the state that the steps use.
LEMMA Facts ==
    ASSUME IInv
    PROVE  /\ taken \in Nat /\ Len(sent) \in Nat /\ taken <= Len(sent) /\ batch \in Own /\ pending \in Seq(Own)
           /\ rows \in Seq(Nat) /\ Len(rows) = Len(sent) /\ lost \in Nat /\ faults \in Nat
           /\ Count(batch) \in Nat
BY AllOf DEF IInv, TypeOK, Retained, Own

\* Batches over what was taken are batches.
LEMMA OwnTypes == ASSUME taken \in Nat PROVE Own \subseteq Batches /\ Seq(Own) \subseteq Seq(Batches)
<1>1. 1 .. taken \subseteq Nat
  OBVIOUS
<1>2. Own \subseteq Batches
  BY <1>1 DEF Own, BatchOf, Batches
<1> QED BY <1>2

\* The batch a flush writes, and the rest, are what is held.
LEMMA CurrentHeld ==
    ASSUME IInv, ~Nothing
    PROVE  /\ Current \in Own /\ Others \in Seq(Own)
           /\ Held = All(Current) \cup UNION {All(Others[k]) : k \in DOMAIN Others}
<1>1. CASE Count(batch) > 0
  BY <1>1, Facts DEF Current, Others, Held
<1>2. CASE ~(Count(batch) > 0)
  <2>1. Count(batch) = 0 /\ All(batch) = {} /\ pending # <<>>
    BY <1>2, Facts, CountAll DEF Nothing, Own
  <2>2. Current = pending[Len(pending)] /\ Others = SubSeq(pending, 1, Len(pending) - 1)
    BY <1>2 DEF Current, Others, Last, Front
  <2>3. /\ Len(pending) \in Nat /\ Len(pending) >= 1 /\ DOMAIN pending = 1 .. Len(pending)
        /\ Others \in Seq(Own) /\ DOMAIN Others = 1 .. (Len(pending) - 1)
        /\ \A k \in 1 .. (Len(pending) - 1) : Others[k] = pending[k]
    BY <2>1, <2>2, Facts
  <2>4. Current \in Own
    BY <2>2, <2>3, Facts
  <2>5. UNION {All(pending[k]) : k \in DOMAIN pending}
            = All(Current) \cup UNION {All(Others[k]) : k \in DOMAIN Others}
    <3>1. ASSUME NEW k \in DOMAIN pending, k # Len(pending) PROVE k \in DOMAIN Others /\ Others[k] = pending[k]
      BY <2>3, <3>1
    <3>2. Len(pending) \in DOMAIN pending
      BY <2>3
    <3>3. \A k \in DOMAIN Others : k \in DOMAIN pending /\ Others[k] = pending[k]
      BY <2>3
    <3> QED BY <2>2, <3>1, <3>2, <3>3
  <2> QED BY <2>1, <2>3, <2>4, <2>5 DEF Held
<1> QED BY <1>1, <1>2

\* Appending a batch adds its records to the pending ones.
LEMMA PendingAppend ==
    ASSUME NEW S, NEW p \in Seq(BatchOf(S)), NEW b \in BatchOf(S)
    PROVE  /\ Append(p, b) \in Seq(BatchOf(S))
           /\ UNION {All(Append(p, b)[k]) : k \in DOMAIN Append(p, b)}
                 = All(b) \cup UNION {All(p[k]) : k \in DOMAIN p}
<1>1. /\ Append(p, b) \in Seq(BatchOf(S)) /\ DOMAIN p = 1 .. Len(p) /\ Len(p) \in Nat
      /\ DOMAIN Append(p, b) = 1 .. (Len(p) + 1) /\ Append(p, b)[Len(p) + 1] = b
      /\ \A k \in 1 .. Len(p) : Append(p, b)[k] = p[k]
  OBVIOUS
<1>2. Len(p) + 1 \in DOMAIN Append(p, b)
  BY <1>1
<1>3. ASSUME NEW k \in DOMAIN Append(p, b), k # Len(p) + 1 PROVE k \in DOMAIN p /\ Append(p, b)[k] = p[k]
  BY <1>1, <1>3
<1>4. \A k \in DOMAIN p : k \in DOMAIN Append(p, b) /\ Append(p, b)[k] = p[k]
  BY <1>1
<1> DEFINE q == Append(p, b)
<1>5. q[Len(p) + 1] = b /\ Len(p) + 1 \in DOMAIN q
  BY <1>1, <1>2
<1>6. \A k \in DOMAIN q : k = Len(p) + 1 \/ (k \in DOMAIN p /\ q[k] = p[k])
  BY <1>3
<1>7. \A k \in DOMAIN p : k \in DOMAIN q /\ q[k] = p[k]
  BY <1>4
<1>8. q \in Seq(BatchOf(S))
  BY <1>1
<1> HIDE DEF q
<1>9. UNION {All(q[k]) : k \in DOMAIN q} = All(b) \cup UNION {All(p[k]) : k \in DOMAIN p}
  BY <1>5, <1>6, <1>7
<1> QED BY <1>8, <1>9 DEF q

\* The initial states satisfy the invariant.
LEMMA InitInv == Init => IInv
<1> SUFFICES ASSUME Init PROVE IInv
  OBVIOUS
<1>1. Retained
  <2>1. Empty \in Own
    BY EmptyBatch, BatchGrows DEF Own
  <2> QED BY <2>1 DEF Init, Retained
<1>2. batch \in Batches /\ pending \in Seq(Batches)
  BY <1>1, OwnTypes DEF Init, Retained
<1>3. TypeOK
  <2>1. sent \in Seq(EventTypes) /\ rows \in Seq(Nat) /\ Len(rows) = Len(sent) /\ taken \in 0 .. Len(sent)
    BY DEF Init
  <2> QED BY <1>2, <2>1 DEF Init, TypeOK
<1>4. NothingLost /\ OnlyInvalidDiscarded /\ Ended
  BY DEF Init, NothingLost, OnlyInvalidDiscarded, Ended
<1> QED BY <1>1, <1>3, <1>4 DEF IInv

\* A step that touches neither events, batches nor rows keeps them accounted
\* for.
LEMMA QuietInv ==
    ASSUME IInv, UNCHANGED <<sent, taken, batch, pending, rows, discarded>>, TypeOK', Ended'
    PROVE  IInv'
<1>1. Retained' /\ NothingLost' /\ OnlyInvalidDiscarded'
  BY DEF IInv, Retained, Own, NothingLost, OnlyInvalidDiscarded, Held, Valid
<1> QED BY <1>1 DEF IInv

\* A step that rearranges, stores or gives up what is held, and forgets nothing.
LEMMA RewriteInv ==
    ASSUME IInv, UNCHANGED <<sent, taken, cancelled, closed, drained, stopping, expired>>,
           pc' \in {"top", "flush"}, rejections' \in {0, 1}, lost' \in Nat, faults' \in Nat,
           batch' \in Own, pending' \in Seq(Own),
           rows' \in Seq(Nat), Len(rows') = Len(rows),
           \A e \in 1 .. taken : rows[e] > 0 => rows'[e] > 0,
           discarded \subseteq discarded', discarded' \subseteq 1 .. taken,
           \A e \in discarded' : ~Valid(e),
           \A e \in Held : e \in Held' \/ e \in discarded' \/ rows'[e] > 0
    PROVE  IInv'
<1>1. Retained'
  BY DEF Retained, Own
<1>2. batch' \in Batches /\ pending' \in Seq(Batches)
  BY Facts, OwnTypes
<1>3. TypeOK'
  BY <1>2, Facts DEF IInv, TypeOK
<1>4. NothingLost'
  BY DEF IInv, NothingLost
<1>5. OnlyInvalidDiscarded'
  BY DEF OnlyInvalidDiscarded, Valid
<1>6. Ended'
  BY DEF IInv, Ended
<1> QED BY <1>1, <1>3, <1>4, <1>5, <1>6 DEF IInv

\* What is written is stored, and nothing is unstored.
LEMMA StoredRows ==
    ASSUME IInv, NEW b \in Own
    PROVE  /\ Stored(b) \in Seq(Nat) /\ Len(Stored(b)) = Len(rows)
           /\ \A e \in 1 .. taken : rows[e] > 0 => Stored(b)[e] > 0
           /\ \A e \in All(b) : Stored(b)[e] > 0
<1>1. rows \in Seq(Nat) /\ DOMAIN rows = 1 .. Len(sent) /\ Len(sent) \in Nat /\ taken \in Nat /\ taken <= Len(sent)
  BY Facts
<1>2. \A e \in DOMAIN rows : rows[e] \in Nat
  BY <1>1
<1>3. DOMAIN Stored(b) = 1 .. Len(sent) /\ \A e \in 1 .. Len(sent) : Stored(b)[e] \in Nat
  BY <1>1, <1>2 DEF Stored
<1>4. Stored(b) \in [1 .. Len(sent) -> Nat]
  BY <1>1, <1>2 DEF Stored
<1>5. Stored(b) \in Seq(Nat) /\ Len(Stored(b)) = Len(sent)
  BY <1>1, <1>3, <1>4
<1>6. \A e \in 1 .. taken : rows[e] > 0 => Stored(b)[e] > 0
  BY <1>1, <1>2 DEF Stored
<1>7. \A e \in All(b) : Stored(b)[e] > 0
  <2>1. All(b) \subseteq 1 .. Len(sent)
    BY <1>1, AllOf DEF Own
  <2> QED BY <1>1, <1>2, <2>1 DEF Stored, All
<1> QED BY <1>5, <1>6, <1>7, Facts

\* A batch that is written, and one whose write fails, is stored or kept.
LEMMA InsertInv ==
    ASSUME IInv, InsertBatch \/ InsertFails
    PROVE  IInv'
<1>0. ~Nothing
  BY DEF InsertBatch, InsertFails
<1>1. /\ Current \in Own /\ Others \in Seq(Own)
      /\ Held = All(Current) \cup UNION {All(Others[k]) : k \in DOMAIN Others}
  BY <1>0, CurrentHeld
<1>2. /\ Stored(Current) \in Seq(Nat) /\ Len(Stored(Current)) = Len(rows)
      /\ \A e \in 1 .. taken : rows[e] > 0 => Stored(Current)[e] > 0
      /\ \A e \in All(Current) : Stored(Current)[e] > 0
  BY <1>1, StoredRows
<1>3. Empty \in Own
  BY EmptyBatch, BatchGrows DEF Own
<1>4. discarded \subseteq 1 .. taken /\ (\A e \in discarded : ~Valid(e)) /\ rejections \in {0, 1}
  BY DEF IInv, TypeOK, OnlyInvalidDiscarded
<1>5. CASE InsertBatch
  <2>1. /\ UNCHANGED <<sent, taken, cancelled, closed, drained, stopping, expired, discarded, rejections, lost, faults>>
        /\ pc' = "flush" /\ batch' = Empty /\ pending' = Others /\ rows' = Stored(Current)
    BY <1>5 DEF InsertBatch, channel
  <2>2. \A e \in Held : e \in Held' \/ e \in discarded' \/ rows'[e] > 0
    BY <1>1, <1>2, <2>1 DEF Held
  <2> QED BY <1>1, <1>2, <1>3, <1>4, <2>1, <2>2, Facts, RewriteInv
<1>6. CASE InsertFails
  <2>1. /\ UNCHANGED <<sent, taken, cancelled, closed, drained, stopping, expired, discarded, rejections>>
        /\ pc' = "top" /\ batch' = Current /\ pending' = Others
        /\ rows' \in {rows, Stored(Current)}
    BY <1>6 DEF InsertFails, channel, Retain
  <2>2. lost' \in Nat /\ faults' \in Nat
    BY <1>6, Facts DEF InsertFails, Fault
  <2>3. \A e \in Held : e \in Held' \/ e \in discarded' \/ rows'[e] > 0
    BY <1>1, <2>1 DEF Held
  <2>4. rows' \in Seq(Nat) /\ Len(rows') = Len(rows) /\ \A e \in 1 .. taken : rows[e] > 0 => rows'[e] > 0
    BY <1>2, <2>1, Facts
  <2> QED BY <1>1, <1>4, <2>1, <2>2, <2>3, <2>4, RewriteInv
<1> QED BY <1>5, <1>6

\* A rejected batch is taken apart without losing a record, and what is given
\* up is invalid.
LEMMA RejectInv ==
    ASSUME IInv, InsertRejected
    PROVE  IInv'
<1> DEFINE b == Current
           Rest == UNION {All(Others[k]) : k \in DOMAIN Others}
<1>1. b \in Own /\ Others \in Seq(Own) /\ Held = All(b) \cup Rest
  BY CurrentHeld DEF InsertRejected
<1>2. /\ ~Acceptable(b) /\ Reject(b) /\ rejections' = 1
      /\ UNCHANGED <<sent, taken, cancelled, closed, pc, drained, stopping, expired, rows, lost, faults>>
      /\ pc = "flush"
  BY DEF InsertRejected, channel
<1>3. discarded \subseteq 1 .. taken /\ \A e \in discarded : ~Valid(e)
  BY DEF IInv, TypeOK, OnlyInvalidDiscarded
<1> HIDE DEF b, Rest
<1>4. SUFFICES /\ batch' \in Own /\ pending' \in Seq(Own)
               /\ discarded \subseteq discarded' /\ discarded' \subseteq 1 .. taken
               /\ \A e \in discarded' : ~Valid(e)
               /\ Held \subseteq Held' \cup discarded'
  BY <1>2, <1>4, Facts, RewriteInv
<1>5. All(b) \subseteq 1 .. taken /\ Count(b) \in Nat
  BY <1>1, AllOf DEF Own
<1>6. CASE Count(b) = 1
  <2>1. batch' = Empty /\ pending' = Others /\ discarded' = discarded \cup All(b)
    BY <1>2, <1>6 DEF Reject
  <2>2. PICK e : All(b) = {e}
    BY <1>1, <1>6, CountAll DEF Own
  <2>3. ~Valid(e)
    BY <1>2, <2>2 DEF Acceptable
  <2>4. Empty \in Own
    BY EmptyBatch, BatchGrows DEF Own
  <2>5. Held \subseteq Held' \cup discarded'
    BY <1>1, <2>1 DEF Held, Rest
  <2> QED BY <1>1, <1>3, <1>5, <2>1, <2>2, <2>3, <2>4, <2>5
<1>7. CASE \E i \in Named(b) : Isolate(b, i)
  <2>0. PICK i \in Named(b) : Isolate(b, i)
    BY <1>7
  <2> DEFINE t == SplitTail(b, i)
             x == SplitHead(t, 1)
             y == SplitTail(t, 1)
  <2>1. batch' = SplitHead(b, i) /\ pending' = Push(y) /\ discarded' = discarded \cup All(x)
    BY <2>0 DEF Isolate
  <2>2. PICK j \in 0 .. Len(b.traced) - 1 : i = Len(b.copied) + j /\ ~Valid(b.traced[j + 1])
    BY <1>1, NamedRecord DEF Own
  <2>3. i \in Nat /\ All(x) = {b.traced[j + 1]}
    <3>1. Len(b.copied) \in Nat
      BY <1>1 DEF Own, BatchOf
    <3>2. All(SplitHead(SplitTail(b, Len(b.copied) + j), 1)) = {b.traced[j + 1]}
      BY <1>1, CutOut DEF Own
    <3>3. i \in Nat
      BY <2>2, <3>1
    <3> QED BY <2>2, <3>2, <3>3
  <2>4. SplitHead(b, i) \in Own /\ t \in Own /\ All(SplitHead(b, i)) \cup All(t) = All(b)
    BY <1>1, <2>3, SplitBatch DEF Own
  <2> HIDE DEF t
  <2>5. x \in Own /\ y \in Own /\ All(x) \cup All(y) = All(t)
    BY <2>4, SplitBatch DEF Own
  <2> HIDE DEF x, y
  <2>6. pending' \in Seq(Own) /\ UNION {All(pending'[k]) : k \in DOMAIN pending'} = All(y) \cup Rest
    <3>1. CASE Count(y) > 0
      BY <1>1, <2>1, <2>5, <3>1, PendingAppend DEF Own, Push, Rest
    <3>2. CASE ~(Count(y) > 0)
      <4>1. All(y) = {}
        BY <2>5, <3>2, AllOf, CountAll DEF Own
      <4> QED BY <1>1, <2>1, <3>2, <4>1 DEF Push, Rest
    <3> QED BY <3>1, <3>2
  <2>7. Held' = All(SplitHead(b, i)) \cup All(y) \cup Rest
    BY <2>1, <2>6 DEF Held
  <2>8. Held \subseteq Held' \cup discarded'
    BY <1>1, <2>1, <2>4, <2>5, <2>7
  <2> QED BY <1>3, <1>5, <2>1, <2>2, <2>3, <2>4, <2>5, <2>6, <2>8
<1>8. CASE Halve(b)
  <2> DEFINE n == Count(b) \div 2
  <2>1. /\ batch' = SplitHead(b, n) /\ pending' = Append(Others, SplitTail(b, n))
        /\ discarded' = discarded
    BY <1>8 DEF Halve
  <2>2. n \in Nat
    BY <1>5
  <2> HIDE DEF n
  <2>3. SplitHead(b, n) \in Own /\ SplitTail(b, n) \in Own /\ All(SplitHead(b, n)) \cup All(SplitTail(b, n)) = All(b)
    BY <1>1, <2>2, SplitBatch DEF Own
  <2>4. /\ pending' \in Seq(Own)
        /\ UNION {All(pending'[k]) : k \in DOMAIN pending'} = All(SplitTail(b, n)) \cup Rest
    BY <1>1, <2>1, <2>3, PendingAppend DEF Own, Rest
  <2>5. Held' = All(SplitHead(b, n)) \cup All(SplitTail(b, n)) \cup Rest
    BY <2>1, <2>4 DEF Held
  <2> QED BY <1>1, <1>3, <2>1, <2>3, <2>4, <2>5
<1> QED BY <1>2, <1>6, <1>7, <1>8 DEF Reject

\* An event enters the channel: it is neither taken nor stored yet.
LEMMA SendInv ==
    ASSUME IInv, NEW copied \in BOOLEAN, NEW valid \in BOOLEAN, SendEvent(copied, valid)
    PROVE  IInv'
<1> DEFINE ev == [copied |-> copied, valid |-> valid]
<1>1. /\ sent' = Append(sent, ev) /\ rows' = Append(rows, 0) /\ ~closed
      /\ UNCHANGED <<taken, cancelled, closed, pc, batch, pending, rejections, drained, stopping, expired,
                     discarded, lost, faults>>
  BY DEF SendEvent, retained
<1>2. sent \in Seq(EventTypes) /\ ev \in EventTypes /\ rows \in Seq(Nat) /\ Len(rows) = Len(sent)
      /\ taken \in 0 .. Len(sent) /\ discarded \subseteq 1 .. taken
  BY DEF IInv, TypeOK, EventTypes
<1> HIDE DEF ev
<1>3. /\ sent' \in Seq(EventTypes) /\ Len(sent') = Len(sent) + 1 /\ rows' \in Seq(Nat) /\ Len(rows') = Len(sent')
      /\ \A e \in 1 .. taken : sent'[e] = sent[e] /\ rows'[e] = rows[e]
  BY <1>1, <1>2
<1>4. taken' \in 0 .. Len(sent')
  BY <1>1, <1>2, <1>3
<1>5. TypeOK'
  BY <1>1, <1>3, <1>4 DEF IInv, TypeOK
<1>6. Retained' /\ NothingLost' /\ OnlyInvalidDiscarded'
  BY <1>1, <1>2, <1>3 DEF IInv, Retained, Own, NothingLost, OnlyInvalidDiscarded, Held, Valid
<1>7. Ended'
  BY <1>1 DEF IInv, Ended, Nothing
<1> QED BY <1>5, <1>6, <1>7 DEF IInv

\* The sink takes an event: it is held.
LEMMA ReceiveInv ==
    ASSUME IInv, Receive
    PROVE  IInv'
<1>1. /\ taken' = taken + 1 /\ taken < Len(sent) /\ batch' = Add(batch, taken + 1) /\ ~drained
      /\ pc' \in {"flush", "top"} /\ rejections' \in {0, rejections}
      /\ UNCHANGED <<sent, cancelled, closed, pending, drained, stopping, expired, rows, discarded, lost, faults>>
  BY DEF Receive, channel, outcome, Backpressure
<1>2. taken \in Nat /\ Len(sent) \in Nat /\ 1 .. taken \subseteq 1 .. taken' /\ taken + 1 \in 1 .. taken'
      /\ 1 .. taken' = (1 .. taken) \cup {taken + 1}
  BY <1>1, Facts
<1>3. batch \in BatchOf(1 .. taken') /\ pending \in Seq(BatchOf(1 .. taken'))
  BY <1>2, Facts, BatchGrows, BatchesGrow DEF Own
<1>4. batch' \in BatchOf(1 .. taken') /\ All(batch') = All(batch) \cup {taken + 1}
  BY <1>1, <1>2, <1>3, AddAll
<1>5. Retained'
  BY <1>1, <1>3, <1>4 DEF Retained, Own
<1>6. batch' \in Batches /\ pending' \in Seq(Batches)
  <2>1. 1 .. taken' \subseteq Nat
    BY <1>1, <1>2
  <2>2. BatchOf(1 .. taken') \subseteq Batches
    BY <2>1, BatchGrows DEF BatchOf, Batches
  <2> QED BY <1>1, <1>3, <1>4, <2>2
<1>7. taken' \in 0 .. Len(sent') /\ discarded' \subseteq 1 .. taken'
  BY <1>1, <1>2 DEF IInv, TypeOK
<1>8. TypeOK'
  BY <1>1, <1>6, <1>7 DEF IInv, TypeOK
<1>9. NothingLost'
  <2>1. Held' = Held \cup {taken + 1}
    BY <1>1, <1>4 DEF Held
  <2> QED BY <1>1, <1>2, <2>1 DEF IInv, NothingLost
<1>10. OnlyInvalidDiscarded' /\ Ended'
  BY <1>1 DEF IInv, OnlyInvalidDiscarded, Ended, Valid
<1> QED BY <1>5, <1>8, <1>9, <1>10 DEF IInv

\* The steps of the process and of the loop that move no event.
LEMMA LoopInv ==
    ASSUME IInv, Top \/ ReceiveClosed \/ Tick \/ Shutdown \/ BudgetOver \/ FlushEnds \/ Cancel \/ Close \/ Expire
    PROVE  IInv'
<1>1. UNCHANGED <<sent, taken, batch, pending, rows, discarded, lost>>
  BY DEF Top, ReceiveClosed, Tick, Shutdown, BudgetOver, FlushEnds, Cancel, Close, Expire,
         channel, retained, outcome
<1>2. /\ cancelled' \in BOOLEAN /\ closed' \in BOOLEAN /\ pc' \in {"top", "select", "flush", "stopped"}
      /\ rejections' \in {0, 1} /\ drained' \in BOOLEAN /\ stopping' \in BOOLEAN /\ expired' \in BOOLEAN
      /\ faults' \in Nat
  <2>1. faults' \in Nat
    BY Facts DEF Top, ReceiveClosed, Tick, Shutdown, BudgetOver, FlushEnds, Cancel, Close, Expire, Fault
  <2>2. pc' \in {"top", "select", "flush", "stopped"} /\ rejections' \in {0, 1}
    BY DEF IInv, TypeOK, Top, ReceiveClosed, Tick, Shutdown, BudgetOver, FlushEnds, Cancel, Close, Expire
  <2>3. cancelled' \in BOOLEAN /\ closed' \in BOOLEAN
    BY DEF IInv, TypeOK, Top, ReceiveClosed, Tick, Shutdown, BudgetOver, FlushEnds, Cancel, Close, Expire, channel
  <2>4. drained' \in BOOLEAN /\ stopping' \in BOOLEAN /\ expired' \in BOOLEAN
    BY DEF IInv, TypeOK, Top, ReceiveClosed, Tick, Shutdown, BudgetOver, FlushEnds, Cancel, Close, Expire
  <2> QED BY <2>1, <2>2, <2>3, <2>4
<1>3. TypeOK'
  BY <1>1, <1>2 DEF IInv, TypeOK
<1>4. Nothing' = Nothing
  BY <1>1 DEF Nothing
<1>5. Ended'
  BY <1>1, <1>4 DEF IInv, Ended, Top, ReceiveClosed, Tick, Shutdown, BudgetOver, FlushEnds, Cancel, Close,
         Expire, channel, Finished
<1> QED BY <1>1, <1>3, <1>5, QuietInv

\* Every step keeps the invariant.
LEMMA StepInv == IInv /\ [Next]_vars => IInv'
<1> SUFFICES ASSUME IInv, [Next]_vars PROVE IInv'
  OBVIOUS
<1>1. CASE UNCHANGED vars
  <2>1. UNCHANGED <<sent, taken, cancelled, closed, pc, batch, pending, rejections, drained, stopping,
                    expired, rows, discarded, lost, faults>>
    BY <1>1 DEF vars
  <2>2. TypeOK' /\ Ended'
    BY <2>1 DEF IInv, TypeOK, Ended, Nothing
  <2> QED BY <2>1, <2>2, QuietInv
<1>2. CASE Sink
  BY <1>2, LoopInv, ReceiveInv, InsertInv, RejectInv DEF Sink, Flush
<1>3. CASE Producer
  BY <1>3, SendInv DEF Producer
<1>4. CASE Cancel \/ Close \/ Expire
  BY <1>4, LoopInv
<1> QED BY <1>1, <1>2, <1>3, <1>4 DEF Next

-----------------------------------------------------------------------------

\* The variables keep their types.
THEOREM TypeCorrect == Spec => []TypeOK
<1>1. IInv => TypeOK
  BY DEF IInv
<1> QED BY <1>1, InitInv, StepInv, PTL DEF Spec

\* What the sink took from the channel is stored, retained or given up as
\* invalid, for every batch size and through every split and failed write.
THEOREM AccountsForAll == Spec => []NothingLost
<1>1. IInv => NothingLost
  BY DEF IInv
<1> QED BY <1>1, InitInv, StepInv, PTL DEF Spec

\* Only invalid events are given up, also when an error names the record.
THEOREM GivesUpInvalid == Spec => []OnlyInvalidDiscarded
<1>1. IInv => OnlyInvalidDiscarded
  BY DEF IInv
<1> QED BY <1>1, InitInv, StepInv, PTL DEF Spec

\* A sink that stops within its budget has emptied channel, batch and pending
\* batches.
THEOREM StopsClean == Spec => []CleanStop
<1>1. IInv => CleanStop
  BY DEF IInv, Ended, CleanStop
<1> QED BY <1>1, InitInv, StepInv, PTL DEF Spec

-----------------------------------------------------------------------------
(* Order *)

Sorted(s) == \A i, j \in DOMAIN s : i < j => s[i] < s[j]

\* Within a batch events are in order, and each in the list of its kind.
BatchSorted(b) ==
    /\ Sorted(b.copied) /\ Sorted(b.traced)
    /\ \A e \in Range(b.copied) : sent[e].copied
    /\ \A e \in Range(b.traced) : ~sent[e].copied

Before(a, b) ==
    /\ \A x \in Range(a.copied), y \in Range(b.copied) : x < y
    /\ \A x \in Range(a.traced), y \in Range(b.traced) : x < y

Within(a, b) == Range(a.copied) \subseteq Range(b.copied) /\ Range(a.traced) \subseteq Range(b.traced)

\* The pending batches, last one first, continue the batch.
InLine(b, p) ==
    /\ BatchSorted(b)
    /\ \A k \in DOMAIN p : BatchSorted(p[k]) /\ Before(b, p[k])
    /\ \A k, l \in DOMAIN p : k < l => Before(p[l], p[k])

\* A part of a sorted sequence is sorted, and the first part comes first.
LEMMA CutSorted ==
    ASSUME NEW S, S \subseteq Nat, NEW s \in Seq(S), Sorted(s), NEW k \in 0 .. Len(s)
    PROVE  /\ Sorted(SubSeq(s, 1, k)) /\ Sorted(SubSeq(s, k + 1, Len(s)))
           /\ \A x \in Range(SubSeq(s, 1, k)), y \in Range(SubSeq(s, k + 1, Len(s))) : x < y
<1> DEFINE h == SubSeq(s, 1, k)
           t == SubSeq(s, k + 1, Len(s))
<1>1. /\ h \in Seq(S) /\ t \in Seq(S) /\ Len(h) = k /\ Len(t) = Len(s) - k
      /\ \A i \in 1 .. k : h[i] = s[i]
      /\ \A i \in 1 .. Len(s) - k : t[i] = s[k + i]
  BY CutSeq
<1>2. Len(s) \in Nat /\ k \in Nat /\ k <= Len(s)
  OBVIOUS
<1> HIDE DEF h, t
<1>3. DOMAIN h = 1 .. k /\ DOMAIN t = 1 .. (Len(s) - k) /\ DOMAIN s = 1 .. Len(s)
  BY <1>1, <1>2
<1>4. Sorted(h)
  <2> SUFFICES ASSUME NEW i \in 1 .. k, NEW j \in 1 .. k, i < j PROVE h[i] < h[j]
    BY <1>3 DEF Sorted
  <2>1. i \in 1 .. Len(s) /\ j \in 1 .. Len(s)
    BY <1>2
  <2> QED BY <1>1, <1>3, <2>1 DEF Sorted
<1>5. Sorted(t)
  <2> SUFFICES ASSUME NEW i \in 1 .. (Len(s) - k), NEW j \in 1 .. (Len(s) - k), i < j PROVE t[i] < t[j]
    BY <1>3 DEF Sorted
  <2>1. k + i \in 1 .. Len(s) /\ k + j \in 1 .. Len(s) /\ k + i < k + j
    BY <1>2
  <2> QED BY <1>1, <1>3, <2>1 DEF Sorted
<1>6. ASSUME NEW x \in Range(h), NEW y \in Range(t) PROVE x < y
  <2>1. PICK i \in 1 .. k : x = h[i]
    BY <1>3, <1>6 DEF Range
  <2>2. PICK j \in 1 .. (Len(s) - k) : y = t[j]
    BY <1>3, <1>6 DEF Range
  <2>3. i \in 1 .. Len(s) /\ k + j \in 1 .. Len(s) /\ i < k + j
    BY <1>2
  <2> QED BY <1>1, <1>3, <2>1, <2>2, <2>3 DEF Sorted
<1> QED BY <1>4, <1>5, <1>6 DEF h, t

\* The two parts of a batch are in order.
LEMMA SplitOrder ==
    ASSUME NEW S, S \subseteq Nat, NEW b \in BatchOf(S), BatchSorted(b), NEW n \in Nat
    PROVE  /\ BatchSorted(SplitHead(b, n)) /\ BatchSorted(SplitTail(b, n))
           /\ Before(SplitHead(b, n), SplitTail(b, n))
           /\ Within(SplitHead(b, n), b) /\ Within(SplitTail(b, n), b)
<1> DEFINE k == Least(n, Len(b.copied))
           m == Least(n - k, Len(b.traced))
<1>1. b.copied \in Seq(S) /\ b.traced \in Seq(S)
  BY DEF BatchOf
<1>2. k \in 0 .. Len(b.copied) /\ k <= n
  BY <1>1 DEF Least
<1>3. m \in 0 .. Len(b.traced)
  <2> HIDE DEF k
  <2> QED BY <1>1, <1>2 DEF Least
<1> DEFINE hc == SubSeq(b.copied, 1, k)
           tc == SubSeq(b.copied, k + 1, Len(b.copied))
           ht == SubSeq(b.traced, 1, m)
           tt == SubSeq(b.traced, m + 1, Len(b.traced))
<1>4. SplitHead(b, n) = [copied |-> hc, traced |-> ht] /\ SplitTail(b, n) = [copied |-> tc, traced |-> tt]
  BY DEF SplitHead, SplitTail
<1> HIDE DEF k, m
<1>5. /\ Sorted(hc) /\ Sorted(tc) /\ Sorted(ht) /\ Sorted(tt)
      /\ \A x \in Range(hc), y \in Range(tc) : x < y
      /\ \A x \in Range(ht), y \in Range(tt) : x < y
  BY <1>1, <1>2, <1>3, CutSorted DEF BatchSorted
<1>6. Range(hc) \cup Range(tc) = Range(b.copied) /\ Range(ht) \cup Range(tt) = Range(b.traced)
  BY <1>1, <1>2, <1>3, CutRange
<1> HIDE DEF hc, tc, ht, tt
<1>7. /\ SplitHead(b, n).copied = hc /\ SplitHead(b, n).traced = ht
      /\ SplitTail(b, n).copied = tc /\ SplitTail(b, n).traced = tt
  BY <1>4
<1> QED BY <1>5, <1>6, <1>7 DEF BatchSorted, Before, Within

\* Order is inherited by parts.
LEMMA BeforeParts ==
    ASSUME NEW a, NEW b, NEW c, Before(b, c)
    PROVE  (Within(a, b) => Before(a, c)) /\ (Within(a, c) => Before(b, a))
BY DEF Before, Within

\* What a flush takes is first in line.
LEMMA CurrentFirst ==
    ASSUME IInv, ~Nothing, InLine(batch, pending)
    PROVE  InLine(Current, Others)
<1>1. CASE Count(batch) > 0
  BY <1>1 DEF Current, Others
<1>2. CASE ~(Count(batch) > 0)
  <2>1. Count(batch) = 0 /\ pending # <<>> /\ pending \in Seq(Own)
    BY <1>2, Facts DEF Nothing
  <2>2. Current = pending[Len(pending)] /\ Others = SubSeq(pending, 1, Len(pending) - 1)
    BY <1>2 DEF Current, Others, Last, Front
  <2>3. /\ Len(pending) \in Nat /\ Len(pending) >= 1 /\ DOMAIN pending = 1 .. Len(pending)
        /\ DOMAIN Others = 1 .. (Len(pending) - 1)
        /\ \A k \in 1 .. (Len(pending) - 1) : Others[k] = pending[k]
    BY <2>1, <2>2
  <2>4. Len(pending) \in DOMAIN pending
        /\ \A k \in DOMAIN Others : k \in DOMAIN pending /\ k < Len(pending) /\ Others[k] = pending[k]
    BY <2>3
  <2> QED BY <2>2, <2>4 DEF InLine
<1> QED BY <1>1, <1>2

\* A batch put back behind the current one stays in line.
LEMMA PushInLine ==
    ASSUME NEW S, NEW p \in Seq(S), NEW a, NEW c \in S, InLine(c, p), BatchSorted(a), Before(a, c),
           \A k \in DOMAIN p : Before(a, p[k])
    PROVE  InLine(a, Append(p, c))
<1> DEFINE q == Append(p, c)
<1>1. /\ DOMAIN p = 1 .. Len(p) /\ Len(p) \in Nat /\ DOMAIN q = 1 .. (Len(p) + 1)
      /\ q[Len(p) + 1] = c /\ \A k \in 1 .. Len(p) : q[k] = p[k]
  OBVIOUS
<1> HIDE DEF q
<1>2. \A k \in DOMAIN q : (k \in DOMAIN p /\ q[k] = p[k]) \/ (k = Len(p) + 1 /\ q[k] = c)
  BY <1>1
<1>3. ASSUME NEW k \in DOMAIN q, NEW l \in DOMAIN q, k < l PROVE Before(q[l], q[k])
  <2>1. k \in DOMAIN p /\ q[k] = p[k]
    BY <1>1, <1>3
  <2> QED BY <1>2, <1>3, <2>1 DEF InLine
<1>4. \A k \in DOMAIN q : BatchSorted(q[k]) /\ Before(a, q[k])
  BY <1>2 DEF InLine
<1> QED BY <1>3, <1>4 DEF InLine, q

\* Batches in order have no event in common.
LEMMA Disjoint ==
    ASSUME NEW S, S \subseteq Nat, NEW a \in BatchOf(S), NEW b \in BatchOf(S), BatchSorted(a), BatchSorted(b),
           Before(a, b)
    PROVE  All(a) \cap All(b) = {}
<1> SUFFICES ASSUME NEW e \in All(a), e \in All(b) PROVE FALSE
  OBVIOUS
<1>1. e \in Nat
  BY AllOf
<1>2. ~(e < e)
  BY <1>1
<1>3. CASE sent[e].copied
  BY <1>2, <1>3 DEF All, BatchSorted, Before
<1>4. CASE ~sent[e].copied
  BY <1>2, <1>4 DEF All, BatchSorted, Before
<1> QED BY <1>3, <1>4

\* What is not taken is not stored; what is held is stored only if an answer
\* was lost, and no more often.
Unwritten ==
    /\ \A e \in 1 .. Len(sent) : e > taken => rows[e] = 0
    /\ \A e \in Held : /\ e \notin discarded
                       /\ sent[e].copied => rows[e] <= lost
                       /\ rows[e] > 0 => lost > 0

JInv == InLine(batch, pending) /\ Unwritten /\ StoredInOrder /\ NoDuplicates

\* What is held was taken.
LEMMA HeldTaken == ASSUME IInv PROVE Held \subseteq 1 .. taken
<1>1. All(batch) \subseteq 1 .. taken
  BY Facts, AllOf DEF Own
<1>2. ASSUME NEW k \in DOMAIN pending PROVE All(pending[k]) \subseteq 1 .. taken
  <2>1. pending[k] \in Own
    BY <1>2, Facts
  <2> QED BY <2>1, AllOf DEF Own
<1> QED BY <1>1, <1>2 DEF Held

\* The rows of events are numbers.
LEMMA RowsNat == ASSUME IInv PROVE \A e \in 1 .. Len(sent) : rows[e] \in Nat
BY Facts

\* A step that stores nothing, and holds nothing new.
LEMMA KeepOrder ==
    ASSUME IInv, IInv', JInv, UNCHANGED <<sent, taken, rows, lost>>, discarded \subseteq discarded',
           Held' \subseteq Held, Held' \cap discarded' = {}, InLine(batch', pending')
    PROVE  JInv'
<1>1. InLine(batch, pending)'
  BY DEF InLine, BatchSorted
<1>2. Unwritten'
  BY DEF JInv, Unwritten
<1>3. StoredInOrder'
  BY DEF JInv, StoredInOrder
<1>4. NoDuplicates'
  BY DEF IInv, OnlyInvalidDiscarded, JInv, NoDuplicates, Valid
<1> QED BY <1>1, <1>2, <1>3, <1>4 DEF JInv

\* The current batch and the others share nothing.
LEMMA CurrentApart ==
    ASSUME IInv, ~Nothing, InLine(Current, Others), NEW k \in DOMAIN Others
    PROVE  All(Current) \cap All(Others[k]) = {}
<1>1. Current \in Own /\ Others \in Seq(Own)
  BY CurrentHeld
<1>2. Others[k] \in Own
  BY <1>1
<1>3. 1 .. taken \subseteq Nat
  BY Facts
<1> QED BY <1>1, <1>2, <1>3, Disjoint DEF InLine, Own

\* What is stored with a batch comes after everything that is missing.
LEMMA StoredOrder ==
    ASSUME IInv, JInv, ~Nothing, Acceptable(Current), rows' = Stored(Current),
           UNCHANGED <<sent, taken, discarded>>
    PROVE  /\ StoredInOrder'
           /\ \A e \in 1 .. taken : e \in All(Current) /\ sent[e].copied => rows'[e] = rows[e] + 1
           /\ \A e \in 1 .. taken : e \in All(Current) /\ ~sent[e].copied => rows'[e] = 1
           /\ \A e \in 1 .. Len(sent) : e \notin All(Current) => rows'[e] = rows[e]
<1>1. /\ Current \in Own /\ Others \in Seq(Own) /\ InLine(Current, Others)
      /\ Held = All(Current) \cup UNION {All(Others[k]) : k \in DOMAIN Others}
  BY CurrentHeld, CurrentFirst DEF JInv
<1>2. /\ \A e \in 1 .. taken : rows[e] > 0 => rows'[e] > 0
      /\ \A e \in All(Current) : rows'[e] > 0
  BY <1>1, StoredRows
<1>3. DOMAIN rows = 1 .. Len(sent) /\ taken \in Nat /\ Len(sent) \in Nat /\ taken <= Len(sent)
  BY Facts
<1>4. \A e \in All(Current) : sent[e].copied <=> e \in Range(Current.copied)
  BY <1>1 DEF InLine, BatchSorted, All
<1>5. \A e \in All(Current) : e \notin Range(Current.copied) => e \in Range(Current.traced)
  BY DEF All
<1>6. \A e \in 1 .. taken : e \in All(Current) /\ sent[e].copied => rows'[e] = rows[e] + 1
  BY <1>3, <1>4 DEF Stored
<1>7. \A e \in 1 .. taken : e \in All(Current) /\ ~sent[e].copied => rows'[e] = 1
  BY <1>3, <1>4, <1>5 DEF Stored
<1>8. \A e \in 1 .. Len(sent) : e \notin All(Current) => rows'[e] = rows[e]
  BY <1>3 DEF Stored, All
<1>9. StoredInOrder'
  <2> SUFFICES ASSUME NEW d \in 1 .. taken, NEW e \in 1 .. taken, d < e, sent[d].copied = sent[e].copied,
                      rows'[e] > 0
               PROVE  rows'[d] > 0 \/ d \in discarded
    BY DEF StoredInOrder
  <2>1. CASE d \in All(Current)
    BY <1>2, <2>1
  <2>2. CASE d \notin All(Current) /\ e \notin All(Current)
    <3>1. rows[e] > 0
      BY <1>3, <1>8, <2>2
    <3> QED BY <1>2, <3>1 DEF JInv, StoredInOrder
  <2>3. CASE d \notin All(Current) /\ e \in All(Current)
    <3>1. ASSUME NEW k \in DOMAIN Others, d \in All(Others[k]) PROVE FALSE
      <4>1. BatchSorted(Current) /\ BatchSorted(Others[k]) /\ Before(Current, Others[k])
        BY <1>1, <3>1 DEF InLine
      <4>2. e < d
        BY <2>3, <3>1, <4>1 DEF All, BatchSorted, Before
      <4> QED BY <4>2
    <3>2. d \notin Held
      BY <1>1, <2>3, <3>1
    <3>3. rows[d] > 0 \/ d \in discarded
      BY <3>2 DEF IInv, NothingLost
    <3> QED BY <1>2, <3>3
  <2> QED BY <2>1, <2>2, <2>3
<1> QED BY <1>6, <1>7, <1>8, <1>9

\* A write, answered or not, stores each event once more at most.
LEMMA InsertOrder ==
    ASSUME IInv, IInv', JInv, InsertBatch \/ InsertFails
    PROVE  JInv'
<1>0. ~Nothing
  BY DEF InsertBatch, InsertFails
<1>1. /\ Current \in Own /\ Others \in Seq(Own) /\ InLine(Current, Others)
      /\ Held = All(Current) \cup UNION {All(Others[k]) : k \in DOMAIN Others}
  BY <1>0, CurrentHeld, CurrentFirst DEF JInv
<1>2. UNCHANGED <<sent, taken, discarded>>
  BY DEF InsertBatch, InsertFails, channel
<1>3. \A e \in 1 .. Len(sent) : rows[e] \in Nat
  BY RowsNat
<1>4. taken \in Nat /\ Len(sent) \in Nat /\ taken <= Len(sent) /\ lost \in Nat /\ 1 .. taken \subseteq 1 .. Len(sent)
  BY Facts
<1>5. Held \subseteq 1 .. taken /\ All(Current) \subseteq 1 .. taken
  BY <1>1, HeldTaken
<1>6. CASE InsertFails /\ UNCHANGED <<rows, lost>>
  <2>1. batch' = Current /\ pending' = Others
    BY <1>6 DEF InsertFails, Retain
  <2>2. Held' = Held
    BY <1>1, <2>1 DEF Held
  <2>3. Held' \cap discarded' = {}
    BY <1>2, <2>2 DEF JInv, Unwritten
  <2> QED BY <1>1, <1>2, <1>6, <2>1, <2>2, <2>3, KeepOrder
<1>7. ASSUME Acceptable(Current), rows' = Stored(Current),
             \/ lost' = lost + 1 /\ batch' = Current
             \/ lost' = lost /\ batch' = Empty,
             pending' = Others
      PROVE  JInv'
  <2>1. /\ StoredInOrder'
        /\ \A e \in 1 .. taken : e \in All(Current) /\ sent[e].copied => rows'[e] = rows[e] + 1
        /\ \A e \in 1 .. taken : e \in All(Current) /\ ~sent[e].copied => rows'[e] = 1
        /\ \A e \in 1 .. Len(sent) : e \notin All(Current) => rows'[e] = rows[e]
    BY <1>0, <1>2, <1>7, StoredOrder
  <2>2. InLine(batch, pending)'
    <3>1. InLine(Empty, Others)
      BY <1>1 DEF InLine, BatchSorted, Before, Sorted, Empty, Range
    <3>2. InLine(batch', pending')
      BY <1>1, <1>7, <3>1
    <3> QED BY <1>2, <3>2 DEF InLine, BatchSorted
  <2>3. Held' \subseteq Held /\ (lost' = lost => Held' \cap All(Current) = {})
    <3>1. lost' = lost => batch' = Empty
      BY <1>4, <1>7
    <3>2. \A k \in DOMAIN Others : All(Current) \cap All(Others[k]) = {}
      BY <1>0, <1>1, CurrentApart
    <3> QED BY <1>1, <1>7, <3>1, <3>2, EmptyBatch DEF Held
  <2>4. \A e \in Held : /\ e \notin discarded /\ (sent[e].copied => rows[e] <= lost)
                        /\ (rows[e] > 0 => lost > 0) /\ rows[e] \in Nat
    BY <1>3, <1>4, <1>5 DEF JInv, Unwritten
  <2>5. lost' \in Nat /\ lost' >= lost
    BY <1>4, <1>7
  <2>6. Unwritten'
    <3>1. ASSUME NEW e \in Held' PROVE e \notin discarded /\ (sent[e].copied => rows'[e] <= lost') /\ (rows'[e] > 0 => lost' > 0)
      <4>1. e \in Held /\ e \in 1 .. taken /\ e \in 1 .. Len(sent)
        BY <1>4, <1>5, <2>3, <3>1
      <4>2. CASE e \in All(Current)
        <5>1. lost' = lost + 1
          BY <1>7, <2>3, <3>1, <4>2
        <5> QED BY <1>4, <2>1, <2>4, <4>1, <4>2, <5>1
      <4>3. CASE e \notin All(Current)
        BY <1>4, <2>1, <2>4, <2>5, <4>1, <4>3
      <4> QED BY <4>2, <4>3
    <3>2. \A e \in 1 .. Len(sent) : e > taken => rows'[e] = 0
      <4> SUFFICES ASSUME NEW e \in 1 .. Len(sent), e > taken PROVE rows'[e] = 0
        OBVIOUS
      <4>1. e \notin All(Current)
        BY <1>4, <1>5
      <4> QED BY <2>1, <4>1 DEF JInv, Unwritten
    <3> QED BY <1>2, <3>1, <3>2 DEF Unwritten
  <2>7. NoDuplicates'
    <3> SUFFICES ASSUME NEW e \in 1 .. taken
                 PROVE  /\ rows'[e] <= IF sent[e].copied THEN 1 + lost' ELSE 1
                        /\ rows'[e] > 0 => Valid(e) /\ e \notin discarded
                        /\ rows'[e] > 0 /\ e \in Held' => lost' > 0
      BY <1>2 DEF NoDuplicates, Valid
    <3>1. rows'[e] > 0 /\ e \in Held' => lost' > 0
      BY <2>6 DEF Unwritten
    <3>2. e \in 1 .. Len(sent) /\ rows[e] \in Nat
      BY <1>3, <1>4
    <3>3. CASE e \in All(Current)
      <4>1. Valid(e) /\ e \in Held
        BY <1>1, <1>7, <3>3 DEF Acceptable
      <4>2. rows'[e] <= IF sent[e].copied THEN 1 + lost' ELSE 1
        BY <1>4, <2>1, <2>4, <2>5, <3>2, <3>3, <4>1
      <4> QED BY <2>4, <3>1, <4>1, <4>2
    <3>4. CASE e \notin All(Current)
      <4>1. rows'[e] = rows[e]
        BY <2>1, <3>2, <3>4
      <4>2. /\ rows[e] <= IF sent[e].copied THEN 1 + lost ELSE 1
            /\ rows[e] > 0 => Valid(e) /\ e \notin discarded
        BY DEF JInv, NoDuplicates
      <4>3. rows'[e] <= IF sent[e].copied THEN 1 + lost' ELSE 1
        BY <1>4, <2>5, <3>2, <4>1, <4>2
      <4> QED BY <3>1, <4>1, <4>2, <4>3
    <3> QED BY <3>3, <3>4
  <2> QED BY <2>1, <2>2, <2>6, <2>7 DEF JInv
<1>8. CASE InsertBatch
  BY <1>7, <1>8 DEF InsertBatch
<1>9. CASE InsertFails /\ ~UNCHANGED <<rows, lost>>
  BY <1>7, <1>9 DEF InsertFails, Retain
<1> QED BY <1>6, <1>8, <1>9

\* Splitting and giving up keep what is left in line.
LEMMA RejectOrder ==
    ASSUME IInv, IInv', JInv, InsertRejected
    PROVE  JInv'
<1> DEFINE b == Current
           Rest == UNION {All(Others[k]) : k \in DOMAIN Others}
<1>0. ~Nothing /\ ~Acceptable(b) /\ Reject(b) /\ UNCHANGED <<sent, taken, rows, lost>>
  BY DEF InsertRejected, channel
<1>1. b \in Own /\ Others \in Seq(Own) /\ InLine(b, Others) /\ Held = All(b) \cup Rest
  BY <1>0, CurrentHeld, CurrentFirst DEF JInv
<1>2. \A k \in DOMAIN Others : All(b) \cap All(Others[k]) = {}
  BY <1>0, <1>1, CurrentApart
<1> HIDE DEF b, Rest
<1>3. All(b) \cap Rest = {}
  BY <1>2 DEF Rest
<1>4. Held \cap discarded = {}
  BY DEF JInv, Unwritten
<1>5. SUFFICES /\ discarded \subseteq discarded' /\ Held' \subseteq Held /\ Held' \cap discarded' = {}
               /\ InLine(batch', pending')
  BY <1>0, <1>5, KeepOrder
<1>6. 1 .. taken \subseteq Nat /\ Count(b) \in Nat
  BY <1>1, Facts, AllOf DEF Own
<1>7. \A k \in DOMAIN Others : BatchSorted(b) /\ BatchSorted(Others[k]) /\ Before(b, Others[k])
  BY <1>1 DEF InLine
<1>8. BatchSorted(b)
  BY <1>1 DEF InLine
<1>9. \A a : Within(a, b) => \A k \in DOMAIN Others : Before(a, Others[k])
  BY <1>7, BeforeParts
<1>10. \A a : Within(a, b) /\ BatchSorted(a) => InLine(a, Others)
  BY <1>1, <1>9 DEF InLine
<1>11. CASE Count(b) = 1
  <2>1. batch' = Empty /\ pending' = Others /\ discarded' = discarded \cup All(b)
    BY <1>0, <1>11 DEF Reject
  <2>2. Held' = Rest
    BY <2>1, EmptyBatch DEF Held, Rest
  <2>3. Within(Empty, b) /\ BatchSorted(Empty)
    BY DEF Empty, Within, BatchSorted, Sorted, Range
  <2> QED BY <1>1, <1>3, <1>4, <1>10, <2>1, <2>2, <2>3
<1>12. CASE \E i \in Named(b) : Isolate(b, i)
  <2>0. PICK i \in Named(b) : Isolate(b, i)
    BY <1>12
  <2> DEFINE h == SplitHead(b, i)
             t == SplitTail(b, i)
             x == SplitHead(t, 1)
             y == SplitTail(t, 1)
  <2>1. batch' = h /\ pending' = Push(y) /\ discarded' = discarded \cup All(x)
    BY <2>0 DEF Isolate
  <2>2. i \in Nat
    <3>1. PICK j \in 0 .. Len(b.traced) - 1 : i = Len(b.copied) + j
      BY <1>1, NamedRecord DEF Own
    <3>2. Len(b.copied) \in Nat
      BY <1>1 DEF Own, BatchOf
    <3> QED BY <3>1, <3>2
  <2>3. /\ h \in Own /\ t \in Own /\ All(h) \cup All(t) = All(b)
        /\ BatchSorted(h) /\ BatchSorted(t) /\ Before(h, t) /\ Within(h, b) /\ Within(t, b)
    BY <1>1, <1>6, <1>8, <2>2, SplitBatch, SplitOrder DEF Own
  <2> HIDE DEF h, t
  <2>4. /\ x \in Own /\ y \in Own /\ All(x) \cup All(y) = All(t)
        /\ BatchSorted(x) /\ BatchSorted(y) /\ Before(x, y) /\ Within(x, t) /\ Within(y, t)
    BY <1>6, <2>3, SplitBatch, SplitOrder DEF Own
  <2> HIDE DEF x, y
  <2>5. Before(h, x) /\ Before(h, y) /\ Within(y, b)
    BY <2>3, <2>4, BeforeParts DEF Within
  <2>6. All(x) \cap All(h) = {} /\ All(x) \cap All(y) = {}
    BY <1>6, <2>3, <2>4, <2>5, Disjoint DEF Own
  <2>7. Held' \subseteq All(h) \cup All(y) \cup Rest /\ InLine(batch', pending')
    <3>1. CASE Count(y) > 0
      <4>1. pending' = Append(Others, y)
        BY <2>1, <3>1 DEF Push
      <4>2. UNION {All(pending'[k]) : k \in DOMAIN pending'} = All(y) \cup Rest
        BY <1>1, <2>4, <4>1, PendingAppend DEF Own, Rest
      <4>3. InLine(y, Others) /\ \A k \in DOMAIN Others : Before(h, Others[k])
        BY <1>9, <1>10, <2>3, <2>4, <2>5
      <4>4. InLine(h, Append(Others, y))
        BY <1>1, <2>3, <2>4, <2>5, <4>3, PushInLine
      <4> QED BY <2>1, <4>1, <4>2, <4>4 DEF Held
    <3>2. CASE ~(Count(y) > 0)
      <4>1. pending' = Others
        BY <2>1, <3>2 DEF Push
      <4> QED BY <1>10, <2>1, <2>3, <4>1 DEF Held, Rest
    <3> QED BY <3>1, <3>2
  <2> QED BY <1>1, <1>3, <1>4, <2>1, <2>3, <2>4, <2>6, <2>7
<1>13. CASE Halve(b)
  <2> DEFINE n == Count(b) \div 2
             h == SplitHead(b, n)
             t == SplitTail(b, n)
  <2>1. batch' = h /\ pending' = Append(Others, t) /\ discarded' = discarded
    BY <1>13 DEF Halve
  <2>2. n \in Nat
    BY <1>6
  <2> HIDE DEF n
  <2>3. /\ h \in Own /\ t \in Own /\ All(h) \cup All(t) = All(b)
        /\ BatchSorted(h) /\ BatchSorted(t) /\ Before(h, t) /\ Within(h, b) /\ Within(t, b)
    BY <1>1, <1>6, <1>8, <2>2, SplitBatch, SplitOrder DEF Own
  <2> HIDE DEF h, t
  <2>4. UNION {All(pending'[k]) : k \in DOMAIN pending'} = All(t) \cup Rest
    BY <1>1, <2>1, <2>3, PendingAppend DEF Own, Rest
  <2>5. Held' = All(h) \cup All(t) \cup Rest
    BY <2>1, <2>4 DEF Held
  <2>6. InLine(t, Others) /\ \A k \in DOMAIN Others : Before(h, Others[k])
    BY <1>9, <1>10, <2>3
  <2>7. InLine(h, Append(Others, t))
    BY <1>1, <2>3, <2>6, PushInLine
  <2> QED BY <1>1, <1>4, <2>1, <2>3, <2>5, <2>7
<1> QED BY <1>0, <1>11, <1>12, <1>13 DEF Reject

\* An event that enters the channel is not stored, and changes no other.
LEMMA SendOrder ==
    ASSUME IInv, JInv, NEW copied \in BOOLEAN, NEW valid \in BOOLEAN, SendEvent(copied, valid)
    PROVE  JInv'
<1> DEFINE ev == [copied |-> copied, valid |-> valid]
<1>1. /\ sent' = Append(sent, ev) /\ rows' = Append(rows, 0)
      /\ UNCHANGED <<taken, batch, pending, discarded, lost>>
  BY DEF SendEvent, retained
<1>2. sent \in Seq(EventTypes) /\ ev \in EventTypes /\ rows \in Seq(Nat) /\ Len(rows) = Len(sent)
      /\ taken \in 0 .. Len(sent)
  BY DEF IInv, TypeOK, EventTypes
<1> HIDE DEF ev
<1>3. /\ Len(sent) \in Nat /\ taken \in Nat /\ taken <= Len(sent) /\ Len(sent') = Len(sent) + 1
      /\ \A e \in 1 .. Len(sent) : sent'[e] = sent[e] /\ rows'[e] = rows[e]
      /\ rows'[Len(sent) + 1] = 0
  BY <1>1, <1>2
<1>4. \A e \in 1 .. taken : e \in 1 .. Len(sent) /\ sent'[e] = sent[e] /\ rows'[e] = rows[e]
  BY <1>3
<1>5. Held \subseteq 1 .. taken /\ Held' = Held
  BY <1>1, HeldTaken DEF Held
<1>6. BatchSorted(batch)' /\ \A k \in DOMAIN pending : BatchSorted(pending[k])'
  <2>2. All(batch) \subseteq 1 .. taken /\ \A k \in DOMAIN pending : All(pending[k]) \subseteq 1 .. taken
    BY <1>5 DEF Held
  <2>3. BatchSorted(batch) /\ \A k \in DOMAIN pending : BatchSorted(pending[k])
    BY DEF JInv, InLine
  <2>4. BatchSorted(batch)'
    BY <1>1, <1>4, <2>2, <2>3 DEF BatchSorted, All
  <2>5. \A k \in DOMAIN pending : BatchSorted(pending[k])'
    BY <1>1, <1>4, <2>2, <2>3 DEF BatchSorted, All
  <2> QED BY <2>4, <2>5
<1>7. InLine(batch, pending)'
  BY <1>1, <1>6 DEF JInv, InLine, Before
<1>8. Unwritten'
  <2>1. ASSUME NEW e \in 1 .. Len(sent'), e > taken PROVE rows'[e] = 0
    <3>1. e \in 1 .. Len(sent) \/ e = Len(sent) + 1
      BY <1>3, <2>1
    <3> QED BY <1>3, <2>1, <3>1 DEF JInv, Unwritten
  <2>2. \A e \in Held' : e \notin discarded' /\ (sent'[e].copied => rows'[e] <= lost') /\ (rows'[e] > 0 => lost' > 0)
    BY <1>1, <1>4, <1>5 DEF JInv, Unwritten
  <2> QED BY <1>1, <2>1, <2>2 DEF Unwritten
<1>9. StoredInOrder'
  <2> SUFFICES ASSUME NEW d \in 1 .. taken, NEW e \in 1 .. taken, d < e, sent'[d].copied = sent'[e].copied,
                      rows'[e] > 0
               PROVE  rows'[d] > 0 \/ d \in discarded
    BY <1>1 DEF StoredInOrder
  <2>1. sent[d].copied = sent[e].copied /\ rows[e] > 0 /\ rows'[d] = rows[d]
    BY <1>4
  <2>2. rows[d] > 0 \/ d \in discarded
    BY <2>1 DEF JInv, StoredInOrder
  <2> QED BY <2>1, <2>2
<1>10. NoDuplicates'
  <2> SUFFICES ASSUME NEW e \in 1 .. taken
               PROVE  /\ rows'[e] <= IF sent'[e].copied THEN 1 + lost ELSE 1
                      /\ rows'[e] > 0 => sent'[e].valid /\ e \notin discarded
                      /\ rows'[e] > 0 /\ e \in Held' => lost > 0
    BY <1>1 DEF NoDuplicates, Valid
  <2>1. /\ rows[e] <= IF sent[e].copied THEN 1 + lost ELSE 1
        /\ rows[e] > 0 => sent[e].valid /\ e \notin discarded
        /\ rows[e] > 0 /\ e \in Held => lost > 0
    BY DEF JInv, NoDuplicates, Valid
  <2>2. sent'[e] = sent[e] /\ rows'[e] = rows[e]
    BY <1>4
  <2> QED BY <1>5, <2>1, <2>2
<1> QED BY <1>7, <1>8, <1>9, <1>10 DEF JInv

\* An event is received only when nothing is pending, and goes last.
LEMMA ReceiveOrder ==
    ASSUME IInv, JInv, Receive
    PROVE  JInv'
<1> DEFINE e0 == taken + 1
<1>1. /\ taken' = e0 /\ taken < Len(sent) /\ batch' = Add(batch, e0) /\ pending = <<>> /\ pending' = <<>>
      /\ UNCHANGED <<sent, rows, discarded, lost>>
  BY DEF Receive, channel, outcome, Backpressure
<1>2. /\ taken \in Nat /\ Len(sent) \in Nat /\ e0 \in 1 .. Len(sent) /\ e0 > taken
      /\ 1 .. taken' = (1 .. taken) \cup {e0} /\ 1 .. taken \subseteq 1 .. e0 /\ e0 \in 1 .. e0
  BY <1>1, Facts
<1> HIDE DEF e0
<1>3. rows[e0] = 0 /\ e0 \notin discarded /\ e0 \notin 1 .. taken
  BY <1>2 DEF IInv, TypeOK, JInv, Unwritten
<1>4. All(batch) \subseteq 1 .. taken /\ batch.copied \in Seq(1 .. taken) /\ batch.traced \in Seq(1 .. taken)
  BY Facts, AllOf DEF Own, BatchOf
<1>5. BatchSorted(Add(batch, e0)) /\ All(Add(batch, e0)) = All(batch) \cup {e0}
  <2>0. batch \in BatchOf(1 .. e0)
    BY <1>2, Facts, BatchGrows DEF Own
  <2>1. All(Add(batch, e0)) = All(batch) \cup {e0}
    BY <1>2, <2>0, AddAll
  <2>2. ASSUME NEW s \in Seq(1 .. taken), Sorted(s)
        PROVE  Sorted(Append(s, e0)) /\ Range(Append(s, e0)) = Range(s) \cup {e0}
    <3>1. /\ DOMAIN s = 1 .. Len(s) /\ Len(s) \in Nat
          /\ \A i \in 1 .. Len(s) : s[i] \in 1 .. taken
      <4> DEFINE T == 1 .. taken
      <4>1. s \in Seq(T)
        OBVIOUS
      <4> HIDE DEF T
      <4>2. DOMAIN s = 1 .. Len(s) /\ Len(s) \in Nat /\ \A i \in 1 .. Len(s) : s[i] \in T
        BY <4>1
      <4> QED BY <4>2 DEF T
    <3> DEFINE q == Append(s, e0)
    <3>2. /\ DOMAIN q = 1 .. (Len(s) + 1) /\ q[Len(s) + 1] = e0
          /\ \A i \in 1 .. Len(s) : q[i] = s[i]
      BY <3>1
    <3> HIDE DEF q
    <3>3. Range(q) = Range(s) \cup {e0}
      BY <3>1, <3>2 DEF Range
    <3>4. ASSUME NEW i \in DOMAIN q, NEW j \in DOMAIN q, i < j PROVE q[i] < q[j]
      <4>1. i \in 1 .. Len(s) /\ q[i] = s[i] /\ s[i] \in 1 .. taken
        BY <3>1, <3>2, <3>4
      <4>2. CASE j \in 1 .. Len(s)
        BY <2>2, <3>1, <3>2, <3>4, <4>1, <4>2 DEF Sorted
      <4>3. CASE j = Len(s) + 1
        <5>1. q[j] = e0 /\ s[i] < e0
          BY <1>2, <3>2, <4>1, <4>3
        <5> QED BY <4>1, <5>1
      <4> QED BY <3>1, <3>2, <4>2, <4>3
    <3> QED BY <3>3, <3>4 DEF Sorted, q
  <2>3. BatchSorted(batch)
    BY DEF JInv, InLine
  <2>4. CASE sent[e0].copied
    <3>1. Add(batch, e0).copied = Append(batch.copied, e0) /\ Add(batch, e0).traced = batch.traced
      BY <2>4, Facts DEF Add, Own, BatchOf
    <3> QED BY <1>4, <2>1, <2>2, <2>3, <2>4, <3>1 DEF BatchSorted
  <2>5. CASE ~sent[e0].copied
    <3>1. Add(batch, e0).traced = Append(batch.traced, e0) /\ Add(batch, e0).copied = batch.copied
      BY <2>5, Facts DEF Add, Own, BatchOf
    <3> QED BY <1>4, <2>1, <2>2, <2>3, <2>5, <3>1 DEF BatchSorted
  <2> QED BY <2>4, <2>5
<1>6. InLine(batch, pending)'
  <2>1. BatchSorted(batch)'
    BY <1>1, <1>5 DEF BatchSorted
  <2>2. DOMAIN pending' = {}
    BY <1>1
  <2> QED BY <2>1, <2>2 DEF InLine
<1>7. Held = All(batch) /\ Held' = All(batch) \cup {e0}
  BY <1>1, <1>5 DEF Held
<1>8. lost \in Nat
  BY Facts
<1>9. Unwritten'
  <2>1. \A e \in 1 .. Len(sent) : e > taken' => e > taken
    BY <1>1, <1>2
  <2> QED BY <1>1, <1>3, <1>7, <1>8, <2>1 DEF JInv, Unwritten
<1>10. StoredInOrder'
  <2> SUFFICES ASSUME NEW d \in 1 .. taken', NEW e \in 1 .. taken', d < e, sent[d].copied = sent[e].copied,
                      rows[e] > 0
               PROVE  rows[d] > 0 \/ d \in discarded
    BY <1>1 DEF StoredInOrder
  <2>1. e \in 1 .. taken
    BY <1>2, <1>3
  <2>2. d \in 1 .. taken
    BY <1>2, <2>1
  <2> QED BY <2>1, <2>2 DEF JInv, StoredInOrder
<1>11. NoDuplicates'
  <2> SUFFICES ASSUME NEW e \in 1 .. taken'
               PROVE  /\ rows[e] <= IF sent[e].copied THEN 1 + lost ELSE 1
                      /\ rows[e] > 0 => Valid(e) /\ e \notin discarded
                      /\ rows[e] > 0 /\ e \in Held' => lost > 0
    BY <1>1 DEF NoDuplicates, Valid
  <2>1. CASE e = e0
    BY <1>3, <1>8, <2>1
  <2>2. CASE e \in 1 .. taken
    <3>1. e # e0
      BY <1>3, <2>2
    <3> QED BY <1>7, <2>2, <3>1 DEF JInv, NoDuplicates
  <2> QED BY <1>2, <2>1, <2>2
<1> QED BY <1>6, <1>9, <1>10, <1>11 DEF JInv

\* Every step keeps the order.
LEMMA StepOrder == IInv /\ IInv' /\ JInv /\ [Next]_vars => JInv'
<1> SUFFICES ASSUME IInv, IInv', JInv, [Next]_vars PROVE JInv'
  OBVIOUS
<1>1. CASE \/ UNCHANGED vars
           \/ Top \/ ReceiveClosed \/ Tick \/ Shutdown \/ BudgetOver \/ FlushEnds \/ Cancel \/ Close \/ Expire
  <2>1. UNCHANGED <<sent, taken, batch, pending, rows, discarded, lost>>
    BY <1>1 DEF vars, Top, ReceiveClosed, Tick, Shutdown, BudgetOver, FlushEnds, Cancel, Close, Expire,
                channel, retained, outcome
  <2>2. Held' = Held
    BY <2>1 DEF Held
  <2>3. Held \cap discarded = {} /\ InLine(batch, pending)
    BY DEF JInv, Unwritten
  <2> QED BY <2>1, <2>2, <2>3, KeepOrder
<1>2. CASE Receive \/ InsertBatch \/ InsertFails \/ InsertRejected
  BY <1>2, ReceiveOrder, InsertOrder, RejectOrder
<1>3. CASE Producer
  BY <1>3, SendOrder DEF Producer
<1> QED BY <1>1, <1>2, <1>3 DEF Next, Sink, Flush

\* Initially nothing is held.
LEMMA InitOrder == Init => JInv
<1> SUFFICES ASSUME Init PROVE JInv
  OBVIOUS
<1>1. sent = <<>> /\ taken = 0 /\ batch = Empty /\ pending = <<>> /\ rows = <<>>
  BY DEF Init
<1>2. InLine(batch, pending)
  BY <1>1 DEF InLine, BatchSorted, Before, Sorted, Empty, Range
<1>3. Held = {}
  BY <1>1, EmptyBatch DEF Held
<1>4. Unwritten /\ StoredInOrder /\ NoDuplicates
  BY <1>1, <1>3 DEF Unwritten, StoredInOrder, NoDuplicates
<1> QED BY <1>2, <1>4 DEF JInv

-----------------------------------------------------------------------------

\* Events of one kind are stored in the order the channel accepted them in,
\* whatever was split, isolated, retained or written again.
THEOREM StoresInOrder == Spec => []StoredInOrder
<1>1. JInv => StoredInOrder
  BY DEF JInv
<1> QED BY <1>1, InitInv, StepInv, InitOrder, StepOrder, PTL DEF Spec

\* An event is stored twice only by a commit whose answer was lost, and what is
\* stored is valid and was not given up.
THEOREM StoresOnce == Spec => []NoDuplicates
<1>1. JInv => NoDuplicates
  BY DEF JInv
<1> QED BY <1>1, InitInv, StepInv, InitOrder, StepOrder, PTL DEF Spec

-----------------------------------------------------------------------------
(***************************************************************************)
(* Memory.                                                                 *)
(***************************************************************************)

\* Cutting a batch keeps the number of its records.
LEMMA SplitCount ==
    ASSUME NEW b \in Batches, NEW n \in Nat
    PROVE  /\ SplitHead(b, n) \in Batches /\ SplitTail(b, n) \in Batches
           /\ Count(SplitHead(b, n)) + Count(SplitTail(b, n)) = Count(b)
<1> DEFINE k == Least(n, Len(b.copied))
           m == Least(n - k, Len(b.traced))
<1>1. b.copied \in Seq(Nat) /\ b.traced \in Seq(Nat)
  BY DEF Batches
<1>2. k \in 0 .. Len(b.copied) /\ k <= n
  BY <1>1 DEF Least
<1>3. m \in 0 .. Len(b.traced)
  <2> HIDE DEF k
  <2> QED BY <1>1, <1>2 DEF Least
<1> DEFINE hc == SubSeq(b.copied, 1, k)
           tc == SubSeq(b.copied, k + 1, Len(b.copied))
           ht == SubSeq(b.traced, 1, m)
           tt == SubSeq(b.traced, m + 1, Len(b.traced))
<1>4. SplitHead(b, n) = [copied |-> hc, traced |-> ht] /\ SplitTail(b, n) = [copied |-> tc, traced |-> tt]
  BY DEF SplitHead, SplitTail
<1> HIDE DEF k, m
<1>5. /\ hc \in Seq(Nat) /\ Len(hc) = k /\ tc \in Seq(Nat) /\ Len(tc) = Len(b.copied) - k
      /\ ht \in Seq(Nat) /\ Len(ht) = m /\ tt \in Seq(Nat) /\ Len(tt) = Len(b.traced) - m
  <2>1. hc \in Seq(Nat) /\ Len(hc) = k /\ tc \in Seq(Nat) /\ Len(tc) = Len(b.copied) - k
    BY <1>1, <1>2, CutSeq
  <2>2. ht \in Seq(Nat) /\ Len(ht) = m /\ tt \in Seq(Nat) /\ Len(tt) = Len(b.traced) - m
    BY <1>1, <1>3, CutSeq
  <2> QED BY <2>1, <2>2
<1> HIDE DEF hc, tc, ht, tt
<1>6. SplitHead(b, n) \in Batches /\ SplitTail(b, n) \in Batches
  BY <1>4, <1>5 DEF Batches
<1>7. /\ SplitHead(b, n).copied = hc /\ SplitHead(b, n).traced = ht
      /\ SplitTail(b, n).copied = tc /\ SplitTail(b, n).traced = tt
  BY <1>4
<1> DEFINE x == Len(b.copied)
           y == Len(b.traced)
<1>8. k \in Nat /\ m \in Nat /\ x \in Nat /\ y \in Nat
  BY <1>1, <1>2, <1>3
<1>9. Count(SplitHead(b, n)) = k + m /\ Count(SplitTail(b, n)) = (x - k) + (y - m) /\ Count(b) = x + y
  BY <1>5, <1>7 DEF Count
<1> HIDE DEF x, y
<1>10. (k + m) + ((x - k) + (y - m)) = x + y
  BY <1>8
<1> QED BY <1>6, <1>9, <1>10

\* A batch has a number of records.
LEMMA CountNat == ASSUME NEW b \in Batches PROVE Count(b) \in Nat
BY DEF Batches, Count

\* A batch takes as many places as it has records.
LEMMA PlacesCount ==
    ASSUME NEW k, NEW b \in Batches
    PROVE  IsFiniteSet(Places(k, b)) /\ Cardinality(Places(k, b)) = Count(b)
<1>1. Count(b) \in Nat
  BY CountNat
<1>2. IsFiniteSet(1 .. Count(b)) /\ Cardinality(1 .. Count(b)) = Count(b)
  BY <1>1, FS_Interval
<1>3. IsFiniteSet({k}) /\ Cardinality({k}) = 1
  BY FS_Singleton
<1> DEFINE I == 1 .. Count(b)
<1>4. IsFiniteSet({k} \X I) /\ Cardinality({k} \X I) = Cardinality({k}) * Cardinality(I)
  <2> HIDE DEF I
  <2>1. IsFiniteSet(I)
    BY <1>2 DEF I
  <2> QED BY <1>3, <2>1, FS_Product
<1> QED BY <1>1, <1>2, <1>3, <1>4 DEF Places

\* Two sets without a common element add up.
LEMMA AddUp ==
    ASSUME NEW S, NEW T, IsFiniteSet(S), IsFiniteSet(T), S \cap T = {}
    PROVE  IsFiniteSet(S \cup T) /\ Cardinality(S \cup T) = Cardinality(S) + Cardinality(T)
<1>1. Cardinality(S) \in Nat /\ Cardinality(T) \in Nat /\ Cardinality(S \cap T) = 0
  BY FS_CardinalityType, FS_EmptySet
<1>2. /\ IsFiniteSet(S \cup T)
      /\ Cardinality(S \cup T) = Cardinality(S) + Cardinality(T) - Cardinality(S \cap T)
  BY FS_Union
<1> QED BY <1>1, <1>2

\* What is put on the stack comes on top of what it holds.
LEMMA StackedAppend ==
    ASSUME NEW p \in Seq(Batches), NEW b \in Batches, IsFiniteSet(Stacked(p))
    PROVE  /\ IsFiniteSet(Stacked(Append(p, b)))
           /\ Cardinality(Stacked(Append(p, b))) = Cardinality(Stacked(p)) + Count(b)
<1> DEFINE q == Append(p, b)
           n == Len(p) + 1
<1>1. /\ DOMAIN p = 1 .. Len(p) /\ Len(p) \in Nat /\ n \notin DOMAIN p
      /\ DOMAIN q = (DOMAIN p) \cup {n} /\ q[n] = b
      /\ \A k \in DOMAIN p : q[k] = p[k]
  OBVIOUS
<1> HIDE DEF q, n
<1>2. Stacked(q) = Stacked(p) \cup Places(n, b)
  BY <1>1 DEF Stacked
<1>3. Stacked(p) \cap Places(n, b) = {}
  BY <1>1 DEF Stacked, Places
<1>4. IsFiniteSet(Places(n, b)) /\ Cardinality(Places(n, b)) = Count(b)
  BY PlacesCount
<1> QED BY <1>2, <1>3, <1>4, AddUp DEF q

\* All records in memory.
LEMMA MemoryCount ==
    ASSUME NEW b \in Batches, NEW p \in Seq(Batches), IsFiniteSet(Stacked(p))
    PROVE  Cardinality(Places(0, b) \cup Stacked(p)) = Count(b) + Cardinality(Stacked(p))
<1>1. IsFiniteSet(Places(0, b)) /\ Cardinality(Places(0, b)) = Count(b)
  BY PlacesCount
<1>2. 0 \notin DOMAIN p
  OBVIOUS
<1>3. Places(0, b) \cap Stacked(p) = {}
  BY <1>2 DEF Stacked, Places
<1> QED BY <1>1, <1>3, AddUp

\* No more than a batch is in memory.
Fits(b, p) ==
    /\ b \in Batches /\ p \in Seq(Batches)
    /\ IsFiniteSet(Stacked(p))
    /\ Count(b) + Cardinality(Stacked(p)) <= BatchSize

\* The batch to write was in memory, and what remains fits beside it.
LEMMA CurrentFits ==
    ASSUME TypeOK, Fits(batch, pending), ~Nothing
    PROVE  Fits(Current, Others)
<1>1. CASE Count(batch) > 0
  BY <1>1 DEF Current, Others
<1>2. CASE ~(Count(batch) > 0)
  <2>1. Count(batch) = 0 /\ pending # <<>>
    BY <1>2, CountNat DEF TypeOK, Nothing
  <2>2. Current = pending[Len(pending)] /\ Others = SubSeq(pending, 1, Len(pending) - 1)
    BY <1>2 DEF Current, Others, Last, Front
  <2>3. pending \in Seq(Batches)
    BY DEF TypeOK
  <2>4. /\ Current \in Batches /\ Others \in Seq(Batches)
        /\ DOMAIN Others \subseteq DOMAIN pending
        /\ \A k \in DOMAIN Others : Others[k] = pending[k]
        /\ pending = Append(Others, Current)
    BY <2>1, <2>2, <2>3
  <2>5. Stacked(Others) \subseteq Stacked(pending)
    BY <2>4 DEF Stacked
  <2>6. IsFiniteSet(Stacked(Others))
    BY <2>5, FS_Subset DEF Fits
  <2>7. Cardinality(Stacked(pending)) = Cardinality(Stacked(Others)) + Count(Current)
    BY <2>4, <2>6, StackedAppend
  <2>8. Cardinality(Stacked(Others)) \in Nat /\ Count(Current) \in Nat
    BY <2>4, <2>6, CountNat, FS_CardinalityType
  <2> QED BY <2>1, <2>4, <2>6, <2>7, <2>8 DEF Fits
<1> QED BY <1>1, <1>2

\* An emptied batch leaves room.
LEMMA EmptyFits == ASSUME NEW b, NEW p, Fits(b, p) PROVE Fits(Empty, p)
<1>1. Empty \in Batches /\ Count(Empty) = 0
  BY DEF Empty, Batches, Count
<1>2. Count(b) \in Nat /\ Cardinality(Stacked(p)) \in Nat
  BY CountNat, FS_CardinalityType DEF Fits
<1> QED BY <1>1, <1>2, BoundsAssumption DEF Fits

\* Two parts of a batch need no more room than the batch.
LEMMA PartsFit ==
    ASSUME NEW b, NEW p, Fits(b, p), NEW h \in Batches, NEW t \in Batches,
           Count(h) + Count(t) <= Count(b)
    PROVE  Fits(h, Append(p, t)) /\ Fits(h, p)
<1>1. /\ Count(b) \in Nat /\ Count(h) \in Nat /\ Count(t) \in Nat
      /\ Cardinality(Stacked(p)) \in Nat
  BY CountNat, FS_CardinalityType DEF Fits
<1>2. /\ IsFiniteSet(Stacked(Append(p, t)))
      /\ Cardinality(Stacked(Append(p, t))) = Cardinality(Stacked(p)) + Count(t)
  BY StackedAppend DEF Fits
<1>3. Append(p, t) \in Seq(Batches)
  BY DEF Fits
<1> QED BY <1>1, <1>2, <1>3, BoundsAssumption DEF Fits

\* Taking a batch apart needs no more room.
LEMMA RejectFits ==
    ASSUME IInv, Fits(batch, pending), InsertRejected
    PROVE  Fits(batch', pending')
<1> DEFINE b == Current
<1>1. Fits(b, Others) /\ ~Acceptable(b) /\ b \in Own /\ Reject(b) /\ b \in Batches
  BY CurrentFits, CurrentHeld DEF InsertRejected, IInv, Fits
<1> HIDE DEF b
<1>2. CASE Count(b) = 1
  BY <1>1, <1>2, EmptyFits DEF Reject
<1>3. CASE \E i \in Named(b) : Isolate(b, i)
  <2>0. PICK i \in Named(b) : Isolate(b, i)
    BY <1>3
  <2> DEFINE t == SplitTail(b, i)
             u == SplitTail(t, 1)
  <2>1. i \in Nat
    <3>1. PICK n \in 0 .. Len(b.traced) - 1 : i = Len(b.copied) + n
      BY <1>1, NamedRecord DEF Own
    <3>2. Len(b.copied) \in Nat /\ Len(b.traced) \in Nat
      BY <1>1 DEF Batches
    <3> QED BY <3>1, <3>2
  <2>2. batch' = SplitHead(b, i) /\ pending' = IF Count(u) > 0 THEN Append(Others, u) ELSE Others
    BY <2>0 DEF Isolate, Push
  <2>3. SplitHead(b, i) \in Batches /\ t \in Batches /\ Count(SplitHead(b, i)) + Count(t) = Count(b)
    BY <1>1, <2>1, SplitCount
  <2> HIDE DEF t
  <2>4. SplitHead(t, 1) \in Batches /\ u \in Batches /\ Count(SplitHead(t, 1)) + Count(u) = Count(t)
    BY <2>3, SplitCount
  <2> HIDE DEF u
  <2>5. Count(SplitHead(b, i)) + Count(u) <= Count(b)
    BY <2>3, <2>4, CountNat
  <2> QED BY <1>1, <2>2, <2>3, <2>4, <2>5, PartsFit
<1>4. CASE Halve(b)
  <2> DEFINE n == Count(b) \div 2
  <2>1. n \in Nat
    BY <1>1, CountNat
  <2>2. batch' = SplitHead(b, n) /\ pending' = Append(Others, SplitTail(b, n))
    BY <1>4 DEF Halve
  <2> HIDE DEF n
  <2>3. /\ SplitHead(b, n) \in Batches /\ SplitTail(b, n) \in Batches
        /\ Count(SplitHead(b, n)) + Count(SplitTail(b, n)) = Count(b)
    BY <1>1, <2>1, SplitCount
  <2>4. Count(SplitHead(b, n)) + Count(SplitTail(b, n)) <= Count(b)
    BY <1>1, <2>3, CountNat
  <2> QED BY <1>1, <2>2, <2>3, <2>4, PartsFit
<1> QED BY <1>1, <1>2, <1>3, <1>4 DEF Reject

\* Only a batch that is not full, with nothing split off, takes an event.
LEMMA ReceiveFits ==
    ASSUME TypeOK, Fits(batch, pending), Receive
    PROVE  Fits(batch', pending')
<1>1. pending = <<>> /\ pending' = pending /\ ~(Count(batch) >= BatchSize) /\ batch' = Add(batch, taken + 1)
  BY DEF Receive, Backpressure
<1>2. taken \in Nat /\ batch \in Batches
  BY DEF TypeOK
<1>3. batch' \in Batches /\ Count(batch') = Count(batch) + 1
  <2>1. /\ batch.copied \in Seq(Nat) /\ batch.traced \in Seq(Nat) /\ taken + 1 \in Nat
        /\ batch = [copied |-> batch.copied, traced |-> batch.traced]
    BY <1>2 DEF Batches
  <2>2. \/ batch' = [copied |-> Append(batch.copied, taken + 1), traced |-> batch.traced]
        \/ batch' = [copied |-> batch.copied, traced |-> Append(batch.traced, taken + 1)]
    BY <1>1, <2>1 DEF Add
  <2> DEFINE c == Append(batch.copied, taken + 1)
             t == Append(batch.traced, taken + 1)
  <2>3. c \in Seq(Nat) /\ Len(c) = Len(batch.copied) + 1 /\ t \in Seq(Nat) /\ Len(t) = Len(batch.traced) + 1
    BY <2>1
  <2> HIDE DEF c, t
  <2> DEFINE x == Len(batch.copied)
             y == Len(batch.traced)
  <2>4. Count(batch) = x + y /\ x \in Nat /\ y \in Nat
    BY <2>1 DEF Count
  <2> HIDE DEF x, y
  <2>5. CASE batch' = [copied |-> c, traced |-> batch.traced]
    <3>1. batch' \in Batches
      BY <2>1, <2>3, <2>5 DEF Batches
    <3>2. Count(batch') = (x + 1) + y
      BY <2>3, <2>5 DEF Count, x, y
    <3> QED BY <2>4, <3>1, <3>2
  <2>6. CASE batch' = [copied |-> batch.copied, traced |-> t]
    <3>1. batch' \in Batches
      BY <2>1, <2>3, <2>6 DEF Batches
    <3>2. Count(batch') = x + (y + 1)
      BY <2>3, <2>6 DEF Count, x, y
    <3> QED BY <2>4, <3>1, <3>2
  <2> QED BY <2>2, <2>5, <2>6 DEF c, t
<1>4. Stacked(pending) = {}
  BY <1>1 DEF Stacked
<1>5. Cardinality(Stacked(pending)) = 0
  BY <1>4, FS_EmptySet
<1> QED BY <1>1, <1>2, <1>3, <1>5, CountNat, BoundsAssumption DEF Fits

\* Memory stays within a batch at every step.
LEMMA StepFits == IInv /\ Fits(batch, pending) /\ [Next]_vars => Fits(batch', pending')
<1> SUFFICES ASSUME IInv, Fits(batch, pending), [Next]_vars PROVE Fits(batch', pending')
  OBVIOUS
<1>1. CASE UNCHANGED <<batch, pending>>
  BY <1>1
<1>2. CASE Receive
  BY <1>2, ReceiveFits DEF IInv
<1>3. CASE InsertBatch
  BY <1>3, CurrentFits, EmptyFits DEF InsertBatch, IInv
<1>4. CASE InsertFails
  BY <1>4, CurrentFits DEF InsertFails, Retain, IInv
<1>5. CASE InsertRejected
  BY <1>5, RejectFits
<1> QED BY <1>1, <1>2, <1>3, <1>4, <1>5
        DEF Next, Sink, Flush, Producer, SendEvent, Cancel, Close, Expire, Top, ReceiveClosed, Tick,
            Shutdown, BudgetOver, FlushEnds, vars, retained

\* What the sink retains never exceeds one batch, although rejected batches are
\* taken apart and failed ones kept.
THEOREM StaysWithinBatch == Spec => []Bounded
<1>1. Init => Fits(batch, pending)
  <2> SUFFICES ASSUME Init PROVE Fits(batch, pending)
    OBVIOUS
  <2>1. batch = Empty /\ pending = <<>>
    BY DEF Init
  <2>2. Stacked(pending) = {}
    BY <2>1 DEF Stacked
  <2>3. batch \in Batches /\ Count(batch) = 0
    BY <2>1 DEF Empty, Batches, Count
  <2> QED BY <2>1, <2>2, <2>3, FS_EmptySet, BoundsAssumption DEF Fits
<1>2. Fits(batch, pending) => Bounded
  BY MemoryCount DEF Fits, Bounded, Memory
<1>3. IInv /\ Fits(batch, pending) /\ [Next]_vars => Fits(batch, pending)'
  BY StepFits
<1> QED BY <1>1, <1>2, <1>3, InitInv, StepInv, PTL DEF Spec
=============================================================================
