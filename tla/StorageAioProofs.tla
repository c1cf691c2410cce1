--------------------------- MODULE StorageAioProofs ---------------------------
(***************************************************************************)
(* Proofs about StorageAio, for every depth of the queue and every number  *)
(* of requests.                                                            *)
(*                                                                         *)
(* The type invariant needs what the kernel holds: the thread's count of   *)
(* requests in flight is the size of a set, which shrinks by the number of *)
(* completions and grows by what is submitted again.  That the loop over   *)
(* the completions hands out one block per turn is shown by induction on   *)
(* its turns, as the absence of a least counterexample.                    *)
(***************************************************************************)
EXTENDS StorageAio, FiniteSetTheorems, TLAPS

------------------------------------------------------------------------------
(* Operators *)

\* What holds of 0 and of the successor of each holds of all: the numbers of which
\* it holds are a set.
LEMMA AllNaturals ==
  ASSUME NEW S \in SUBSET Nat, 0 \in S, \A n \in S : n + 1 \in S
  PROVE  S = Nat
<1> SUFFICES ASSUME S # Nat PROVE FALSE
    OBVIOUS
<1> DEFINE R == OpToRel(<, Nat)
<1>1. IsWellFoundedOn(R, Nat)
  BY NatLessThanWellFounded
<1>2. PICK least \in Nat \ S : \A n \in Nat \ S : <<n, least>> \notin R
  <2>1. Nat \ S \subseteq Nat /\ Nat \ S # {}
    OBVIOUS
  <2> HIDE DEF R
  <2>2. QED
    BY <1>1, <2>1, WFMin
<1>3. \A n \in Nat \ S : ~ (n < least)
  BY <1>2 DEF OpToRel
<1>4. least # 0
  OBVIOUS
<1>5. least - 1 \in Nat /\ least - 1 < least
  BY <1>4
<1>6. least - 1 \in S
  BY <1>3, <1>5
<1>7. (least - 1) + 1 = least
  OBVIOUS
<1>8. QED
  BY <1>6, <1>7

\* The greater of two numbers.
LEMMA MaxOfTwo ==
  ASSUME NEW a \in Nat, NEW b \in Nat
  PROVE  Max({a, b}) = IF a >= b THEN a ELSE b
<1>1. \E x \in {a, b} : \A y \in {a, b} : x >= y
  OBVIOUS
<1>2. Max({a, b}) \in {a, b} /\ \A y \in {a, b} : Max({a, b}) >= y
  BY <1>1, Zenon DEF Max
<1>3. QED
  BY <1>2

\* The loop over the events is what its definition says: every turn has a result.
LEMMA PrepareEachTurn ==
  ASSUME NEW slots \in Seq(Slots)
  PROVE  /\ PrepareEach(slots)[0] = [control |-> control, submissions |-> [s \in Slots |-> s],
                                     cursor |-> cursor]
         /\ \A i \in 1 .. Len(slots) :
              PrepareEach(slots)[i] = PrepareEvent(PrepareEach(slots)[i - 1], i, slots[i])
<1> DEFINE First == [control |-> control, submissions |-> [s \in Slots |-> s],
                     cursor |-> cursor]
           Turn(batch, i) == IF i = 0 THEN First
                             ELSE PrepareEvent(batch[i - 1], i, slots[i])
           HasTurns(n) == \E batch : batch = [i \in 0 .. n |-> Turn(batch, i)]
           Turns == {n \in Nat : HasTurns(n)}
<1>1. 0 \in Turns
  <2>1. [i \in 0 .. 0 |-> First] = [i \in 0 .. 0 |-> Turn([j \in 0 .. 0 |-> First], i)]
    OBVIOUS
  <2>2. QED
    BY <2>1
<1>2. ASSUME NEW n \in Turns
      PROVE  n + 1 \in Turns
  <2>1. PICK batch : batch = [i \in 0 .. n |-> Turn(batch, i)]
    BY <1>2
  <2> DEFINE next == [i \in 0 .. n + 1 |-> IF i = n + 1 THEN Turn(batch, i) ELSE batch[i]]
  <2>2. ASSUME NEW i \in 0 .. n + 1
        PROVE  next[i] = Turn(next, i)
    <3> HIDE DEF First
    <3>1. CASE i = n + 1
      <4>1. next[i - 1] = batch[i - 1] /\ i # 0
        BY <3>1
      <4>2. QED
        BY <3>1, <4>1
    <3>2. CASE i \in 1 .. n
      <4>1. next[i - 1] = batch[i - 1] /\ i # 0
        BY <3>2
      <4>2. batch[i] = Turn(batch, i)
        BY <2>1, <3>2
      <4>3. QED
        BY <3>2, <4>1, <4>2
    <3>3. CASE i = 0
      <4>1. batch[0] = First
        BY <2>1
      <4>2. QED
        BY <3>3, <4>1
    <3>4. QED
      BY <3>1, <3>2, <3>3
  <2>3. next = [i \in 0 .. n + 1 |-> Turn(next, i)]
    <3> HIDE DEF Turn
    <3>1. QED
      BY <2>2
  <2>4. HasTurns(n + 1)
    <3> HIDE DEF Turn, next
    <3>1. QED
      BY <2>3
  <2> HIDE DEF HasTurns
  <2>5. QED
    BY <2>4
<1>3. Len(slots) \in Turns
  <2> HIDE DEF Turns
  <2>1. Turns \subseteq Nat
    BY DEF Turns
  <2>2. Turns = Nat
    BY <1>1, <1>2, <2>1, AllNaturals
  <2>3. Len(slots) \in Nat
    OBVIOUS
  <2>4. QED
    BY <2>2, <2>3
<1>4. PrepareEach(slots) = CHOOSE batch : batch = [i \in 0 .. Len(slots) |-> Turn(batch, i)]
  BY DEF PrepareEach
<1>5. PrepareEach(slots) = [i \in 0 .. Len(slots) |-> Turn(PrepareEach(slots), i)]
  <2> HIDE DEF Turn
  <2>1. QED
    BY <1>3, <1>4
<1>6. \A i \in 0 .. Len(slots) : PrepareEach(slots)[i] = Turn(PrepareEach(slots), i)
  <2> DEFINE each == PrepareEach(slots)
  <2>1. each = [i \in 0 .. Len(slots) |-> Turn(each, i)]
    BY <1>5
  <2> SUFFICES \A i \in 0 .. Len(slots) : each[i] = Turn(each, i)
      OBVIOUS
  <2> HIDE DEF each, Turn
  <2>2. QED
    BY <2>1
<1>7. QED
  BY <1>6

\* What the loop over the events leaves: blocks of the phase, slots, and the cursor
\* one further for each event.
LEMMA PrepareCompletedType ==
  ASSUME NEW slots \in Seq(Slots), Len(slots) <= Depth,
         control \in [Slots -> 0 .. MaxRequests - 1],
         cursor \in Nat, cursor + Len(slots) <= MaxRequests
  PROVE  /\ PrepareCompleted(slots).control \in [Slots -> 0 .. MaxRequests - 1]
         /\ PrepareCompleted(slots).submissions \in [Slots -> Slots]
         /\ PrepareCompleted(slots).cursor = cursor + Len(slots)
<1> DEFINE each == PrepareEach(slots)
           Batches == [control : [Slots -> 0 .. MaxRequests - 1],
                       submissions : [Slots -> Slots], cursor : Nat]
           Good(n) == each[n] \in Batches /\ each[n].cursor = cursor + n
           Turns == {n \in Nat : n <= Len(slots) => Good(n)}
<1>1. 0 \in Turns
  <2>1. each[0] = [control |-> control, submissions |-> [s \in Slots |-> s],
                   cursor |-> cursor]
    BY PrepareEachTurn
  <2> HIDE DEF each
  <2>2. QED
    BY <2>1
<1>2. ASSUME NEW n \in Turns
      PROVE  n + 1 \in Turns
  <2> SUFFICES ASSUME n + 1 <= Len(slots) PROVE Good(n + 1)
      OBVIOUS
  <2>1. each[n + 1] = PrepareEvent(each[n], n + 1, slots[n + 1])
    <3>1. n + 1 \in 1 .. Len(slots) /\ (n + 1) - 1 = n
      BY <1>2
    <3>2. QED
      BY <3>1, PrepareEachTurn
  <2> HIDE DEF each
  <2>2. Good(n)
    BY <1>2
  <2>3. slots[n + 1] \in Slots /\ n + 1 \in Slots
    <3>1. n \in Nat /\ Len(slots) \in Nat /\ n + 1 \in 1 .. Len(slots)
      BY <1>2
    <3>2. slots[n + 1] \in Slots
      BY <3>1
    <3>3. n + 1 \in Slots
      BY <3>1, StorageAioAssumption DEF Slots
    <3>4. QED
      BY <3>2, <3>3
  <2>4. PICK c, u, r : /\ each[n] = [control |-> c, submissions |-> u, cursor |-> r]
                       /\ c \in [Slots -> 0 .. MaxRequests - 1]
                       /\ u \in [Slots -> Slots]
                       /\ r = cursor + n
    BY <2>2
  <2>5. r \in 0 .. MaxRequests - 1
    BY <1>2, <2>4, StorageAioAssumption
  <2> DEFINE slot == slots[n + 1]
             c2 == [c EXCEPT ![slot] = r]
             u2 == [[u EXCEPT ![slot] = slot] EXCEPT ![n + 1] = slot]
  <2>6. each[n + 1] = [control |-> c2, submissions |-> u2, cursor |-> r + 1]
    <3> DEFINE v == [u EXCEPT ![slot] = slot]
    <3>1. Prepare(each[n], slot) = [control |-> c2, submissions |-> v, cursor |-> r + 1]
      BY <2>4 DEF Prepare
    <3>2. each[n + 1] = [Prepare(each[n], slot) EXCEPT !.submissions[n + 1] = slot]
      BY <2>1 DEF PrepareEvent
    <3>3. u2 = [v EXCEPT ![n + 1] = slot]
      OBVIOUS
    <3> HIDE DEF c2, u2, v, slot
    <3>4. each[n + 1] = [[control |-> c2, submissions |-> v, cursor |-> r + 1]
                           EXCEPT !.submissions[n + 1] = slot]
      BY <3>1, <3>2, Zenon
    <3>5. QED
      BY <3>3, <3>4
  <2>7. c2 \in [Slots -> 0 .. MaxRequests - 1] /\ u2 \in [Slots -> Slots]
    BY <2>3, <2>4, <2>5
  <2> HIDE DEF c2, u2
  <2>8. QED
    BY <1>2, <2>4, <2>6, <2>7
<1>3. Len(slots) \in Turns
  <2> HIDE DEF Turns
  <2>1. Turns \subseteq Nat
    BY DEF Turns
  <2>2. Turns = Nat
    BY <1>1, <1>2, <2>1, AllNaturals
  <2>3. Len(slots) \in Nat
    OBVIOUS
  <2>4. QED
    BY <2>2, <2>3
<1>4. Good(Len(slots))
  BY <1>3
<1>5. PrepareCompleted(slots) = each[Len(slots)]
  BY DEF PrepareCompleted
<1> HIDE DEF each
<1>6. QED
  BY <1>4, <1>5

\* The requests of an order of completion are as many as its events.
LEMMA CompletionOrder ==
  ASSUME NEW done, IsFiniteSet(done), NEW events \in SetToSeqs(done)
  PROVE  /\ events \in Seq(done)
         /\ Len(events) = Cardinality(done)
         /\ Range(events) = done
<1> DEFINE n == Cardinality(done)
<1>1. n \in Nat
  BY FS_CardinalityType
<1>2. events \in [1 .. n -> done] /\ \A i, j \in 1 .. n : i # j => events[i] # events[j]
  BY DEF SetToSeqs
<1>3. events \in Injection(1 .. n, done)
  BY <1>2, Zenon DEF Injection, IsInjective
<1>4. IsFiniteSet(1 .. n) /\ Cardinality(1 .. n) = n
  BY <1>1, FS_Interval
<1>5. events \in Surjection(1 .. n, done)
  BY <1>3, <1>4, FS_Injection
<1>6. Range(events) = done
  BY <1>2, <1>5 DEF Range, Surjection
<1>7. QED
  BY <1>1, <1>2, <1>6

\* A submission adds as many requests as it has slots.
LEMMA BatchSize ==
  ASSUME NEW n \in Nat, NEW slots \in [1 .. n -> Slots], NEW prepared \in [Slots -> Nat],
         NEW first \in Nat
  PROVE  LET batch == {[id |-> first + i, slot |-> slots[i], block |-> prepared[slots[i]]]
                         : i \in 1 .. n}
         IN  IsFiniteSet(batch) /\ Cardinality(batch) = n
<1> DEFINE request(i) == [id |-> first + i, slot |-> slots[i], block |-> prepared[slots[i]]]
           batch == {request(i) : i \in 1 .. n}
           f == [i \in 1 .. n |-> request(i)]
<1>1. \A i, j \in 1 .. n : request(i) = request(j) => i = j
  OBVIOUS
<1>2. f \in Bijection(1 .. n, batch)
  <2> HIDE DEF request
  <2>1. QED
    BY <1>1 DEF Bijection, Injection, IsInjective, Surjection
<1>3. IsFiniteSet(1 .. n) /\ Cardinality(1 .. n) = n
  BY FS_Interval
<1>4. ExistsBijection(1 .. n, batch)
  <2> HIDE DEF f, batch
  <2>1. QED
    BY <1>2 DEF ExistsBijection
<1>5. IsFiniteSet(batch) /\ Cardinality(batch) = n
  <2> HIDE DEF batch
  <2>1. QED
    BY <1>3, <1>4, FS_Bijection
<1>6. QED
  BY <1>5

------------------------------------------------------------------------------
(* The inductive invariant *)

\* What is in flight: the thread's count is the number of requests, which were
\* numbered up to the cursor.
RequestsInv ==
  /\ IsFiniteSet(requests)
  /\ pc # "returned" => Cardinality(requests) = outstanding
  /\ \A r \in requests : r.id <= cursor

\* How far a phase has come, and what may still be handed out in it.
PhaseInv ==
  /\ pc = "begin" => outstanding = 0 /\ cursor = 0 /\ accepting
  /\ pc \in {"events", "resubmit"} /\ accepting => cursor + Depth <= MaxRequests
  /\ pc = "resubmit" => accepting /\ outstanding + Len(completions) <= Depth
  /\ pc \in {"ended", "flush"} => outstanding = 0
  /\ pc = "flush" => measuring

\* What is counted: nothing before the measuring phase, and in it everything that
\* was handed out and is no longer in flight.
ResultInv ==
  /\ ~measuring \/ pc = "begin" => io = 0 /\ measured_depth = 0
  /\ measuring /\ pc \in {"loop", "events", "resubmit", "ended", "flush"} =>
       io + outstanding = cursor /\ measured_depth = Depth
  /\ result.valid => pc = "returned" /\ measured_depth = Depth

IInv == TypeOK /\ RequestsInv /\ PhaseInv /\ ResultInv

\* A submission of fresh requests: what is in flight and its count grow together.
LEMMA SubmitStep ==
  ASSUME IInv, NEW n \in 0 .. Depth, NEW slots \in [1 .. n -> Slots],
         NEW prepared \in [Slots -> 0 .. MaxRequests - 1], NEW first \in Nat,
         pc # "returned", cursor <= first, first + n <= MaxRequests,
         outstanding + n <= Depth, Submit(slots, prepared, first)
  PROVE  /\ requests' \subseteq [id : 1 .. MaxRequests, slot : Slots,
                                 block : 0 .. MaxRequests - 1]
         /\ issued' \subseteq 0 .. MaxRequests - 1
         /\ outstanding' = outstanding + n
         /\ max_outstanding' \in 0 .. Depth
         /\ IsFiniteSet(requests') /\ Cardinality(requests') = outstanding'
         /\ \A r \in requests' : r.id <= first + n
         /\ measured_depth' = IF measuring
                                THEN IF measured_depth >= outstanding' THEN measured_depth
                                                                       ELSE outstanding'
                                ELSE measured_depth
<1> DEFINE request(i) == [id |-> first + i, slot |-> slots[i], block |-> prepared[slots[i]]]
           batch == {request(i) : i \in 1 .. n}
           Requests == [id : 1 .. MaxRequests, slot : Slots, block : 0 .. MaxRequests - 1]
<1>1. n \in Nat /\ Depth \in Nat /\ MaxRequests \in Nat /\ outstanding \in 0 .. Depth
      /\ max_outstanding \in 0 .. Depth /\ measured_depth \in 0 .. Depth /\ cursor \in Nat
  BY StorageAioAssumption DEF IInv, TypeOK
<1>2. Len(slots) = n /\ DOMAIN slots = 1 .. n
  BY <1>1
<1>3. /\ requests' = requests \cup batch
      /\ issued' = issued \cup {r.block : r \in batch}
      /\ outstanding' = outstanding + n
      /\ max_outstanding' = Max({max_outstanding, outstanding'})
      /\ measured_depth' = IF measuring THEN Max({measured_depth, Cardinality(requests')})
                                        ELSE measured_depth
  BY <1>2 DEF Submit
<1>4. \A i \in 1 .. n : /\ request(i) \in Requests
                        /\ request(i).id = first + i
                        /\ request(i).block \in 0 .. MaxRequests - 1
  BY <1>1
<1>5. IsFiniteSet(batch) /\ Cardinality(batch) = n
  <2>1. prepared \in [Slots -> Nat]
    BY <1>1
  <2>2. QED
    BY <1>1, <2>1, BatchSize
<1> HIDE DEF request
<1>6. requests \cap batch = {}
  <2>1. \A r \in requests : r.id <= cursor /\ r.id \in Nat
    BY <1>1 DEF IInv, TypeOK, RequestsInv
  <2>2. \A r \in batch : r.id > cursor
    BY <1>1, <1>4
  <2>3. QED
    BY <1>1, <2>1, <2>2
<1> HIDE DEF batch
<1>7. IsFiniteSet(requests') /\ Cardinality(requests') = outstanding'
  <2>1. IsFiniteSet(requests) /\ Cardinality(requests) = outstanding
    BY DEF IInv, RequestsInv
  <2>2. IsFiniteSet(requests \cup batch)
        /\ Cardinality(requests \cup batch)
             = Cardinality(requests) + Cardinality(batch) - Cardinality(requests \cap batch)
    BY <1>5, <2>1, FS_Union
  <2>3. Cardinality(requests \cap batch) = 0
    BY <1>6, FS_EmptySet
  <2>4. QED
    BY <1>1, <1>3, <1>5, <2>1, <2>2, <2>3
<1>8. requests' \subseteq Requests /\ issued' \subseteq 0 .. MaxRequests - 1
  <2>1. requests \subseteq Requests /\ issued \subseteq 0 .. MaxRequests - 1
    BY DEF IInv, TypeOK
  <2>2. \A r \in batch : r \in Requests /\ r.block \in 0 .. MaxRequests - 1
    BY <1>4 DEF batch
  <2> HIDE DEF Requests
  <2>3. QED
    BY <1>3, <2>1, <2>2
<1>9. \A r \in requests' : r.id <= first + n
  <2>1. \A r \in requests : r.id <= first + n
    BY <1>1 DEF IInv, TypeOK, RequestsInv
  <2>2. \A r \in batch : r.id <= first + n
    BY <1>1, <1>4 DEF batch
  <2>3. QED
    BY <1>3, <2>1, <2>2
<1>10. max_outstanding' \in 0 .. Depth
  BY <1>1, <1>3, MaxOfTwo
<1>11. measured_depth' = IF measuring
                           THEN IF measured_depth >= outstanding' THEN measured_depth
                                                                  ELSE outstanding'
                           ELSE measured_depth
  <2>1. outstanding' \in Nat /\ measured_depth \in Nat
    BY <1>1, <1>3
  <2>2. Max({measured_depth, outstanding'}) =
          IF measured_depth >= outstanding' THEN measured_depth ELSE outstanding'
    BY <2>1, MaxOfTwo
  <2>3. QED
    BY <1>3, <1>7, <2>2
<1>12. QED
  BY <1>3, <1>7, <1>8, <1>9, <1>10, <1>11

\* The first submission of a phase.
LEMMA BeginPhaseStep ==
  ASSUME IInv, BeginPhase
  PROVE  IInv'
<1> USE DEF IInv, TypeOK
<1>1. control' \in [Slots -> 0 .. MaxRequests - 1] /\ cursor' = Depth
      /\ Depth \in Nat /\ MaxRequests \in Nat /\ Depth <= MaxRequests
  BY StorageAioAssumption DEF BeginPhase, Slots
<1>2. cursor = 0 /\ outstanding = 0 /\ pc = "begin" /\ accepting
      /\ (measuring => measured_depth = 0 /\ io = 0)
  BY DEF BeginPhase, PhaseInv, ResultInv
<1> DEFINE slots == [s \in Slots |-> s]
<1>3. Submit(slots, control', 0)
  BY DEF BeginPhase
<1>4. slots \in [1 .. Depth -> Slots] /\ Depth \in 0 .. Depth
  BY <1>1 DEF Slots
<1> HIDE DEF slots, IInv, TypeOK
<1>5. /\ requests' \subseteq [id : 1 .. MaxRequests, slot : Slots,
                              block : 0 .. MaxRequests - 1]
      /\ issued' \subseteq 0 .. MaxRequests - 1
      /\ outstanding' = outstanding + Depth
      /\ max_outstanding' \in 0 .. Depth
      /\ IsFiniteSet(requests') /\ Cardinality(requests') = outstanding'
      /\ \A r \in requests' : r.id <= 0 + Depth
      /\ measured_depth' = IF measuring
                             THEN IF measured_depth >= outstanding' THEN measured_depth
                                                                    ELSE outstanding'
                             ELSE measured_depth
  <2>1. pc # "returned" /\ cursor <= 0 /\ 0 + Depth <= MaxRequests
        /\ outstanding + Depth <= Depth
    BY <1>1, <1>2
  <2>2. QED
    BY <1>1, <1>3, <1>4, <2>1, SubmitStep
<1>6. /\ pc' = "loop"
      /\ UNCHANGED <<direct, write, stop_requested, measuring, accepting, completions, io,
                     result>>
  BY DEF BeginPhase, testVars
<1>7. outstanding' = Depth /\ (measuring => measured_depth' = Depth)
  BY <1>1, <1>2, <1>5
<1>8. measured_depth' \in 0 .. Depth
  BY <1>1, <1>5, <1>7 DEF IInv, TypeOK
<1>9. TypeOK'
  BY <1>1, <1>5, <1>6, <1>7, <1>8 DEF IInv, TypeOK
<1>10. RequestsInv'
  BY <1>1, <1>5 DEF RequestsInv
<1>11. PhaseInv'
  BY <1>2, <1>6 DEF PhaseInv
<1>12. ResultInv'
  <2>1. ~result.valid
    BY <1>2 DEF IInv, ResultInv
  <2>2. ~measuring => measured_depth' = measured_depth /\ io = 0 /\ measured_depth = 0
    BY <1>5 DEF IInv, ResultInv
  <2>3. QED
    BY <1>1, <1>2, <1>6, <1>7, <2>1, <2>2 DEF ResultInv
<1>13. QED
  BY <1>9, <1>10, <1>11, <1>12 DEF IInv

\* A submission that replaces what was completed.
LEMMA ResubmitStep ==
  ASSUME IInv, Resubmit
  PROVE  IInv'
<1> DEFINE n == Len(completions)
           batch == PrepareCompleted(completions)
           slots == [i \in DOMAIN completions |-> batch.submissions[i]]
<1>1. /\ pc = "resubmit" /\ accepting /\ outstanding + n <= Depth
      /\ cursor + Depth <= MaxRequests /\ ~result.valid
      /\ measuring => io + outstanding = cursor /\ measured_depth = Depth
      /\ ~measuring => io = 0 /\ measured_depth = 0
  BY DEF Resubmit, IInv, PhaseInv, ResultInv
<1>2. /\ completions \in Seq(Slots) /\ n \in Nat /\ Depth \in Nat /\ MaxRequests \in Nat
      /\ outstanding \in 0 .. Depth /\ cursor \in 0 .. MaxRequests
      /\ control \in [Slots -> 0 .. MaxRequests - 1] /\ measured_depth \in 0 .. Depth
      /\ io \in 0 .. MaxRequests
  BY StorageAioAssumption DEF IInv, TypeOK
<1>3. n \in 0 .. Depth /\ cursor + n <= MaxRequests /\ cursor \in Nat
  BY <1>1, <1>2
<1>4. /\ batch.control \in [Slots -> 0 .. MaxRequests - 1]
      /\ batch.submissions \in [Slots -> Slots]
      /\ batch.cursor = cursor + n
  BY <1>2, <1>3, PrepareCompletedType
<1>5. control' = batch.control /\ cursor' = batch.cursor
      /\ Submit(slots, batch.control, cursor)
  BY DEF Resubmit
<1>6. /\ pc' = "loop" /\ completions' = <<>>
      /\ UNCHANGED <<direct, write, stop_requested, measuring, accepting, io, result>>
  BY DEF Resubmit, testVars
<1> HIDE DEF batch
<1>7. slots \in [1 .. n -> Slots]
  <2>1. DOMAIN completions = 1 .. n /\ \A i \in 1 .. n : i \in Slots
    BY <1>2, <1>3 DEF Slots
  <2>2. \A i \in 1 .. n : batch.submissions[i] \in Slots
    BY <1>4, <2>1
  <2>3. QED
    BY <2>1, <2>2
<1> HIDE DEF slots, n
<1>8. /\ requests' \subseteq [id : 1 .. MaxRequests, slot : Slots,
                              block : 0 .. MaxRequests - 1]
      /\ issued' \subseteq 0 .. MaxRequests - 1
      /\ outstanding' = outstanding + n
      /\ max_outstanding' \in 0 .. Depth
      /\ IsFiniteSet(requests') /\ Cardinality(requests') = outstanding'
      /\ \A r \in requests' : r.id <= cursor + n
      /\ measured_depth' = IF measuring
                             THEN IF measured_depth >= outstanding' THEN measured_depth
                                                                    ELSE outstanding'
                             ELSE measured_depth
  <2>1. pc # "returned" /\ cursor <= cursor
    BY <1>1, <1>2
  <2>2. QED
    BY <1>1, <1>3, <1>4, <1>5, <1>7, <2>1, SubmitStep
<1>9. cursor' = cursor + n /\ cursor' \in 0 .. MaxRequests /\ outstanding' \in 0 .. Depth
  BY <1>1, <1>2, <1>3, <1>4, <1>5, <1>8
<1>10. measured_depth' = measured_depth
  BY <1>1, <1>2, <1>8, <1>9
<1>11. TypeOK'
  BY <1>2, <1>4, <1>5, <1>6, <1>8, <1>9, <1>10 DEF IInv, TypeOK
<1>12. RequestsInv'
  BY <1>8, <1>9 DEF RequestsInv
<1>13. PhaseInv'
  BY <1>1, <1>6 DEF PhaseInv
<1>14. ResultInv'
  BY <1>1, <1>2, <1>3, <1>6, <1>8, <1>9, <1>10 DEF ResultInv
<1>15. QED
  BY <1>11, <1>12, <1>13, <1>14 DEF IInv

\* Events received: some requests in flight are done, in some order.
LEMMA GetEventsStep ==
  ASSUME IInv, NEW done \in SUBSET requests, NEW events \in SetToSeqs(done),
         GetEvents(events)
  PROVE  IInv'
<1> DEFINE n == Len(events)
<1>1. /\ IsFiniteSet(requests) /\ Cardinality(requests) = outstanding
      /\ \A r \in requests : r.id <= cursor
      /\ pc = "events" /\ ~result.valid
  BY DEF GetEvents, IInv, RequestsInv, ResultInv
<1>2. IsFiniteSet(done) /\ Cardinality(done) <= outstanding
  BY <1>1, FS_Subset
<1>3. events \in Seq(done) /\ n = Cardinality(done) /\ Range(events) = done
  BY <1>2, CompletionOrder
<1>4. IsFiniteSet(requests') /\ Cardinality(requests') = outstanding - n
  <2>1. requests' = requests \ done
    BY <1>3 DEF GetEvents
  <2>2. requests \cap done = done
    OBVIOUS
  <2>3. QED
    BY <1>1, <1>3, <2>1, <2>2, FS_Difference
<1>5. /\ outstanding' = outstanding - n
      /\ completions' = [i \in DOMAIN events |-> events[i].slot]
      /\ io' = IF measuring THEN io + n ELSE io
      /\ pc' = IF accepting /\ events # <<>> THEN "resubmit" ELSE "loop"
      /\ requests' \subseteq requests
      /\ UNCHANGED <<direct, write, stop_requested, measuring, control, cursor, issued,
                     accepting, max_outstanding, measured_depth, result>>
  BY DEF GetEvents, testVars
<1>6. completions' \in Seq(Slots) /\ Len(completions') = n
  <2>1. \A i \in 1 .. n : events[i] \in requests /\ events[i].slot \in Slots
    BY <1>3 DEF IInv, TypeOK
  <2>2. n \in Nat /\ DOMAIN events = 1 .. n
    BY <1>3
  <2>3. QED
    BY <1>5, <2>1, <2>2
<1>7. /\ n \in Nat /\ n <= outstanding /\ outstanding \in 0 .. Depth
      /\ io \in 0 .. MaxRequests /\ cursor \in 0 .. MaxRequests
      /\ Depth \in Nat /\ MaxRequests \in Nat
      /\ measuring => io + outstanding = cursor
  BY <1>1, <1>2, <1>3, StorageAioAssumption DEF IInv, TypeOK, ResultInv
<1> HIDE DEF n
<1>8. TypeOK'
  <2>1. io' \in 0 .. MaxRequests /\ outstanding' \in 0 .. Depth
    BY <1>5, <1>7
  <2>2. QED
    BY <1>5, <1>6, <2>1 DEF IInv, TypeOK
<1>9. RequestsInv'
  BY <1>1, <1>4, <1>5 DEF RequestsInv
<1>10. PhaseInv'
  BY <1>1, <1>5, <1>6, <1>7 DEF IInv, PhaseInv
<1>11. ResultInv'
  BY <1>1, <1>5, <1>7 DEF IInv, ResultInv
<1>12. QED
  BY <1>8, <1>9, <1>10, <1>11 DEF IInv

LEMMA InitIInv == Init => IInv
<1> SUFFICES ASSUME Init PROVE IInv
    OBVIOUS
<1>1. TypeOK
  <2>1. control \in [Slots -> 0 .. MaxRequests - 1]
    BY StorageAioAssumption DEF Init
  <2>2. completions \in Seq(Slots)
    BY DEF Init
  <2>3. result \in [valid : BOOLEAN, stopped : BOOLEAN, error : BOOLEAN]
    BY DEF Init, NoResult
  <2>4. /\ requests \subseteq [id : 1 .. MaxRequests, slot : Slots,
                               block : 0 .. MaxRequests - 1]
        /\ issued \subseteq 0 .. MaxRequests - 1
    BY DEF Init
  <2>5. /\ direct \in BOOLEAN /\ write \in BOOLEAN /\ stop_requested \in BOOLEAN
        /\ measuring \in BOOLEAN /\ accepting \in BOOLEAN
    BY DEF Init
  <2>6. /\ pc \in {"begin", "loop", "events", "resubmit", "ended", "flush", "returned"}
        /\ cursor \in 0 .. MaxRequests /\ outstanding \in 0 .. Depth
        /\ max_outstanding \in 0 .. Depth /\ measured_depth \in 0 .. Depth
        /\ io \in 0 .. MaxRequests
    BY StorageAioAssumption DEF Init
  <2>7. QED
    BY <2>1, <2>2, <2>3, <2>4, <2>5, <2>6 DEF TypeOK
<1>2. RequestsInv
  BY FS_EmptySet DEF Init, RequestsInv
<1>3. PhaseInv /\ ResultInv
  BY DEF Init, PhaseInv, ResultInv, NoResult
<1>4. QED
  BY <1>1, <1>2, <1>3 DEF IInv

\* An error ends the test wherever it is.
LEMMA FailStep ==
  ASSUME IInv, Fail, pc # "returned"
  PROVE  IInv'
<1>1. /\ pc' = "returned" /\ requests' = {}
      /\ result' = [valid |-> FALSE, stopped |-> FALSE, error |-> TRUE]
      /\ UNCHANGED <<direct, write, stop_requested, measuring, control, cursor, issued,
                     outstanding, accepting, completions, max_outstanding,
                     measured_depth, io>>
  BY DEF Fail, Return, AioDestroy, testVars
<1>2. TypeOK'
  BY <1>1 DEF IInv, TypeOK
<1>3. RequestsInv'
  BY <1>1, FS_EmptySet DEF RequestsInv
<1>4. PhaseInv' /\ ResultInv'
  BY <1>1 DEF IInv, PhaseInv, ResultInv
<1>5. QED
  BY <1>2, <1>3, <1>4 DEF IInv

\* Nothing is in flight when the count says so.
LEMMA NothingInFlight ==
  ASSUME IInv, pc # "returned", outstanding = 0
  PROVE  requests = {}
  BY FS_EmptySet DEF IInv, RequestsInv

\* The end of a phase, and what follows it.
LEMMA EndStep ==
  ASSUME IInv, EndPhase \/ EndWarmUp \/ EndMeasuring \/ \E synced \in BOOLEAN : Flush(synced)
  PROVE  IInv'
<1>1. CASE EndPhase
  <2>1. /\ requests' = {} /\ pc' = "ended" /\ outstanding = 0 /\ pc = "loop"
        /\ UNCHANGED <<direct, write, stop_requested, measuring, control, cursor, issued,
                       outstanding, accepting, completions, max_outstanding,
                       measured_depth, io, result>>
    BY <1>1 DEF EndPhase, AioDestroy, testVars
  <2>2. TypeOK'
    BY <2>1 DEF IInv, TypeOK
  <2>3. RequestsInv'
    BY <2>1, FS_EmptySet DEF RequestsInv
  <2>4. PhaseInv' /\ ResultInv'
    BY <2>1 DEF IInv, PhaseInv, ResultInv
  <2>5. QED
    BY <2>2, <2>3, <2>4 DEF IInv
<1>2. CASE EndWarmUp
  <2>1. /\ pc = "ended" /\ ~measuring /\ outstanding = 0
        /\ UNCHANGED <<direct, write, stop_requested, control, requests, outstanding,
                       completions, max_outstanding, measured_depth, io>>
    BY <1>2 DEF EndWarmUp, IInv, PhaseInv, testVars
  <2>2. CASE stop_requested
    <3>1. /\ pc' = "returned"
          /\ result' = [valid |-> FALSE, stopped |-> TRUE, error |-> FALSE]
          /\ UNCHANGED <<measuring, cursor, issued, accepting>>
      BY <1>2, <2>2 DEF EndWarmUp, Return
    <3>2. TypeOK'
      BY <2>1, <3>1 DEF IInv, TypeOK
    <3>3. QED
      BY <2>1, <3>1, <3>2 DEF IInv, RequestsInv, PhaseInv, ResultInv
  <2>3. CASE ~stop_requested
    <3>1. /\ pc' = "begin" /\ measuring' = TRUE /\ cursor' = 0 /\ issued' = {}
          /\ accepting' = TRUE /\ UNCHANGED result
      BY <1>2, <2>3 DEF EndWarmUp
    <3>2. TypeOK'
      <4>1. issued' \subseteq 0 .. MaxRequests - 1 /\ cursor' \in 0 .. MaxRequests
        BY <3>1, StorageAioAssumption
      <4>2. measuring' \in BOOLEAN /\ accepting' \in BOOLEAN
        BY <3>1, Zenon
      <4>3. QED
        BY <2>1, <3>1, <4>1, <4>2 DEF IInv, TypeOK
    <3>3. RequestsInv'
      <4>1. requests = {}
        BY <2>1, NothingInFlight
      <4>2. QED
        BY <2>1, <3>1, <4>1 DEF IInv, RequestsInv
    <3>4. PhaseInv' /\ ResultInv'
      BY <2>1, <3>1 DEF IInv, PhaseInv, ResultInv
    <3>5. QED
      BY <3>2, <3>3, <3>4 DEF IInv
  <2>4. QED
    BY <2>2, <2>3 DEF IInv, TypeOK
<1>3. ASSUME NEW valid \in BOOLEAN, NEW stopped \in BOOLEAN, NEW error \in BOOLEAN,
             pc \in {"ended", "flush"}, measuring, valid => measured_depth = Depth,
             Return(valid, stopped, error),
             UNCHANGED <<testVars, stop_requested, measuring, phaseVars, accepting,
                         completions, io>>
      PROVE  IInv'
  <2>1. /\ pc' = "returned"
        /\ result' = [valid |-> valid, stopped |-> stopped, error |-> error]
        /\ UNCHANGED <<direct, write, stop_requested, measuring, control, cursor, requests,
                       issued, outstanding, max_outstanding, measured_depth, accepting,
                       completions, io>>
    BY <1>3 DEF Return, testVars, phaseVars
  <2>2. TypeOK'
    BY <2>1 DEF IInv, TypeOK
  <2>3. RequestsInv' /\ PhaseInv' /\ ResultInv'
    BY <1>3, <2>1 DEF IInv, RequestsInv, PhaseInv, ResultInv
  <2>4. QED
    BY <2>2, <2>3 DEF IInv
<1>4. CASE EndMeasuring
  <2>1. /\ pc = "ended" /\ measuring /\ outstanding = 0 /\ measured_depth = Depth
        /\ stop_requested \in BOOLEAN
    BY <1>4 DEF EndMeasuring, IInv, TypeOK, PhaseInv, ResultInv
  <2>2. CASE ~write
    <3>1. Return(Valid, stop_requested, max_outstanding < Depth)
          /\ UNCHANGED <<testVars, stop_requested, measuring, phaseVars, accepting,
                         completions, io>>
      BY <1>4, <2>2 DEF EndMeasuring
    <3>2. Valid \in BOOLEAN /\ (max_outstanding < Depth) \in BOOLEAN
      BY DEF Valid
    <3>3. QED
      BY <1>3, <2>1, <3>1, <3>2
  <2>3. CASE write
    <3>1. /\ pc' = "flush"
          /\ result' = [valid |-> FALSE, stopped |-> stop_requested, error |-> FALSE]
          /\ UNCHANGED <<direct, write, stop_requested, measuring, control, cursor,
                         requests, issued, outstanding, max_outstanding, measured_depth,
                         accepting, completions, io>>
      BY <1>4, <2>3 DEF EndMeasuring, NoResult, testVars, phaseVars
    <3>2. TypeOK'
      BY <3>1 DEF IInv, TypeOK
    <3>3. RequestsInv' /\ PhaseInv' /\ ResultInv'
      BY <2>1, <3>1 DEF IInv, RequestsInv, PhaseInv, ResultInv
    <3>4. QED
      BY <3>2, <3>3 DEF IInv
  <2>4. QED
    BY <2>2, <2>3 DEF IInv, TypeOK
<1>5. ASSUME NEW synced \in BOOLEAN, Flush(synced)
      PROVE  IInv'
  <2>1. pc = "flush" /\ measuring /\ measured_depth = Depth /\ result.stopped \in BOOLEAN
    BY <1>5 DEF Flush, IInv, TypeOK, PhaseInv, ResultInv
  <2>2. Return(synced /\ Valid, result.stopped, ~synced \/ max_outstanding < Depth)
        /\ UNCHANGED <<testVars, stop_requested, measuring, phaseVars, accepting,
                       completions, io>>
    BY <1>5 DEF Flush
  <2>3. (synced /\ Valid) \in BOOLEAN /\ (~synced \/ max_outstanding < Depth) \in BOOLEAN
    OBVIOUS
  <2>4. QED
    BY <1>3, <2>1, <2>2, <2>3
<1>6. QED
  BY <1>1, <1>2, <1>4, <1>5

\* The head of the loop, and a stop of the client's.
LEMMA WaitStep ==
  ASSUME IInv, StopAccepting \/ KeepWaiting \/ RaiseStop \/ UNCHANGED vars
  PROVE  IInv'
<1> USE DEF IInv, TypeOK, RequestsInv, PhaseInv, ResultInv
<1>1. CASE StopAccepting
  <2>1. /\ pc = "loop" /\ pc' = "events" /\ accepting' = FALSE
        /\ UNCHANGED <<direct, write, stop_requested, measuring, control, cursor,
                       requests, issued, outstanding, max_outstanding, measured_depth,
                       completions, io, result>>
    BY <1>1 DEF StopAccepting, testVars, phaseVars
  <2>2. accepting' \in BOOLEAN
    BY <2>1, Zenon
  <2>3. QED
    BY <2>1, <2>2
<1>2. CASE KeepWaiting
  BY <1>2 DEF KeepWaiting, testVars, phaseVars
<1>3. CASE RaiseStop
  BY <1>3 DEF RaiseStop, testVars, phaseVars
<1>4. CASE UNCHANGED vars
  BY <1>4 DEF vars, testVars, phaseVars
<1>5. QED
  BY <1>1, <1>2, <1>3, <1>4

LEMMA IInvStep == IInv /\ [Next]_vars => IInv'
<1> SUFFICES ASSUME IInv, [Next]_vars PROVE IInv'
    OBVIOUS
<1>1. CASE BeginPhase
  BY <1>1, BeginPhaseStep
<1>2. CASE Resubmit
  BY <1>2, ResubmitStep
<1>3. CASE Complete
  BY <1>3, GetEventsStep DEF Complete
<1>4. CASE GetEvents(<<>>)
  <2>1. <<>> \in SetToSeqs({})
    BY FS_EmptySet DEF SetToSeqs
  <2>2. {} \in SUBSET requests
    OBVIOUS
  <2>3. QED
    BY <1>4, <2>1, <2>2, GetEventsStep
<1>5. CASE Refuse \/ BeginFails \/ EventsFail \/ ResubmitFails
  BY <1>5, FailStep DEF Refuse, BeginFails, EventsFail, ResubmitFails
<1>6. CASE EndPhase \/ EndWarmUp \/ EndMeasuring \/ \E synced \in BOOLEAN : Flush(synced)
  BY <1>6, EndStep
<1>7. CASE StopAccepting \/ KeepWaiting \/ RaiseStop \/ UNCHANGED vars
  BY <1>7, WaitStep
<1>8. QED
  BY <1>1, <1>2, <1>3, <1>4, <1>5, <1>6, <1>7 DEF Next, ThreadStep

LEMMA Inductive == Spec => []IInv
  BY InitIInv, IInvStep, PTL DEF Spec

------------------------------------------------------------------------------
(* Theorems *)

\* The state keeps its types: no index leaves its array, and no count its range.
THEOREM TypeCorrect == Spec => []TypeOK
<1>1. IInv => TypeOK
  BY DEF IInv
<1>2. QED
  BY Inductive, <1>1, PTL

\* A valid result was measured at the advertised depth, whatever the warm-up saw.
THEOREM ValidResultsReachedDepth == Spec => []ValidMeansDepth
<1>1. IInv => ValidMeansDepth
  BY DEF IInv, ResultInv, ValidMeansDepth
<1>2. QED
  BY Inductive, <1>1, PTL

\* Every request of the measuring phase is counted once, in whatever order and
\* batches the kernel completes them.
THEOREM EveryRequestIsCounted == Spec => []CountsEveryRequest
<1>1. IInv => CountsEveryRequest
  BY DEF IInv, TypeOK, PhaseInv, ResultInv, CountsEveryRequest
<1>2. QED
  BY Inductive, <1>1, PTL
=============================================================================
