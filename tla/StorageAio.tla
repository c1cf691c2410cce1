------------------------------ MODULE StorageAio ------------------------------
(***************************************************************************)
(* RunAioTest of the storage engine (native/benchmark_core/src/            *)
(* storage_engine.cpp): the sequential and queue-depth-8 tests on a file   *)
(* opened for direct I/O.  One thread keeps Depth requests in flight       *)
(* through Linux AIO, first in a warm-up phase, then in a measuring one,   *)
(* and drains them at the end of each.                                     *)
(*                                                                         *)
(* StorageEngine sees a raw test only through its outcomes; here is how    *)
(* those of this test come about.  The kernel completes requests in any    *)
(* order and any number at a time.  A block is its position in the order   *)
(* in which the phase wants blocks (shuffled or sequential).               *)
(***************************************************************************)
EXTENDS Integers, FiniteSets, SequencesExt

CONSTANTS
  Depth,        \* kRandomQueueDepth
  MaxRequests   \* bound: a deadline passes before a phase has issued more

ASSUME StorageAioAssumption ==
  /\ Depth \in Nat \ {0}
  /\ MaxRequests \in Nat
  /\ MaxRequests >= Depth

Slots == 1 .. Depth   \* the indices of control, buffers and submissions

VARIABLES
  direct,           \* file.mode is kDirect
  write,            \* IsWriteTest(test): measuring is followed by a flush
  stop_requested,   \* RunContext::StopRequested
  measuring,        \* the phase is the measuring one
  pc,               \* where the thread is inside the phase
  control,          \* the block each slot's iocb was prepared for
  cursor,           \* blocks handed out in this phase
  requests,         \* in flight: what the kernel copied at io_submit
  issued,           \* history: the blocks submitted in this phase
  outstanding,      \* the thread's own count of requests in flight
  accepting,        \* completed requests are replaced by new ones
  completions,      \* the slots of the events just received, in their order
  max_outstanding,  \* context.snapshot.max_outstanding
  measured_depth,   \* history: the most requests in flight while measuring
  io,               \* requests counted in the result
  result            \* the StorageResult returned

phaseVars == <<control, cursor, requests, issued, outstanding, max_outstanding,
               measured_depth>>
testVars == <<direct, write>>
vars == <<testVars, stop_requested, measuring, pc, phaseVars, accepting, completions,
          io, result>>

NoResult == [valid |-> FALSE, stopped |-> FALSE, error |-> FALSE]

TypeOK ==
  /\ direct \in BOOLEAN
  /\ write \in BOOLEAN
  /\ stop_requested \in BOOLEAN
  /\ measuring \in BOOLEAN
  /\ pc \in {"begin", "loop", "events", "resubmit", "ended", "flush", "returned"}
  /\ control \in [Slots -> 0 .. MaxRequests - 1]
  /\ cursor \in 0 .. MaxRequests
  /\ requests \subseteq [id : 1 .. MaxRequests, slot : Slots, block : 0 .. MaxRequests - 1]
  /\ issued \subseteq 0 .. MaxRequests - 1
  /\ outstanding \in 0 .. Depth
  /\ accepting \in BOOLEAN
  /\ completions \in Seq(Slots)
  /\ max_outstanding \in 0 .. Depth
  /\ measured_depth \in 0 .. Depth
  /\ io \in 0 .. MaxRequests
  /\ result \in [valid : BOOLEAN, stopped : BOOLEAN, error : BOOLEAN]

Init ==
  /\ direct \in BOOLEAN
  /\ write \in BOOLEAN
  /\ stop_requested \in BOOLEAN
  /\ measuring = FALSE
  /\ pc = "begin"
  /\ control = [s \in Slots |-> 0]
  /\ cursor = 0
  /\ requests = {}
  /\ issued = {}
  /\ outstanding = 0
  /\ accepting = TRUE
  /\ completions = <<>>
  /\ max_outstanding = 0
  /\ measured_depth = 0
  /\ io = 0
  /\ result = NoResult

------------------------------------------------------------------------------
(* Parts of the phase *)

Return(valid, stopped, error) ==
  /\ pc' = "returned"
  /\ result' = [valid |-> valid, stopped |-> stopped, error |-> error]

\* io_destroy cancels what it can and waits for the rest.
AioDestroy == requests' = {}

\* An error ends the phase and the test.
Fail ==
  /\ Return(FALSE, FALSE, TRUE)
  /\ AioDestroy
  /\ UNCHANGED <<testVars, stop_requested, measuring, control, cursor, issued,
                 outstanding, accepting, completions, max_outstanding,
                 measured_depth, io>>

\* io_submit of the slots named by a sequence: the kernel copies each iocb, so
\* that a slot named twice is two requests for one block.
Submit(slots, prepared, first) ==
  LET batch == {[id |-> first + i, slot |-> slots[i], block |-> prepared[slots[i]]]
                  : i \in DOMAIN slots}
  IN  /\ requests' = requests \cup batch
      /\ issued' = issued \cup {r.block : r \in batch}
      /\ outstanding' = outstanding + Len(slots)
      /\ max_outstanding' = Max({max_outstanding, outstanding'})
      /\ measured_depth' = IF measuring THEN Max({measured_depth, Cardinality(requests')})
                                        ELSE measured_depth

\* prepare(slot): the slot's iocb is set up for the next block and entered in
\* the submission array at the index of the slot.
Prepare(batch, slot) ==
  [control |-> [batch.control EXCEPT ![slot] = batch.cursor],
   submissions |-> [batch.submissions EXCEPT ![slot] = slot],
   cursor |-> batch.cursor + 1]

\* One turn of the loop over the events: the completed slot is prepared again and
\* then entered in the submission array at the index of its event.
PrepareEvent(batch, i, slot) ==
  [Prepare(batch, slot) EXCEPT !.submissions[i] = slot]

\* The loop, after each of its turns, and after the last.
PrepareEach(slots) ==
  LET batch[i \in 0 .. Len(slots)] ==
        IF i = 0 THEN [control |-> control, submissions |-> [s \in Slots |-> s],
                       cursor |-> cursor]
                 ELSE PrepareEvent(batch[i - 1], i, slots[i])
  IN  batch

PrepareCompleted(slots) == PrepareEach(slots)[Len(slots)]

------------------------------------------------------------------------------
(* Steps of the thread *)

\* A buffered file would not keep the requests in flight.
Refuse ==
  /\ pc = "begin"
  /\ ~direct
  /\ Fail

\* io_setup fails, or io_submit takes fewer requests than it was given.
BeginFails ==
  /\ pc = "begin"
  /\ direct
  /\ Fail

\* Faulty variant: a short first submission is good enough.
BeginPhaseShort ==
  /\ pc = "begin"
  /\ direct
  /\ control' = [s \in Slots |-> s - 1]
  /\ cursor' = Depth
  /\ \E n \in Slots : Submit([i \in 1 .. n |-> i], control', 0)
  /\ pc' = "loop"
  /\ UNCHANGED <<testVars, stop_requested, measuring, accepting, completions, io, result>>

\* Every slot is prepared for one of the first blocks and submitted.
BeginPhase ==
  /\ pc = "begin"
  /\ direct
  /\ control' = [s \in Slots |-> s - 1]
  /\ cursor' = Depth
  /\ Submit([s \in Slots |-> s], control', 0)
  /\ pc' = "loop"
  /\ UNCHANGED <<testVars, stop_requested, measuring, accepting, completions, io, result>>

\* The loop condition, with the deadline or a stop ...
StopAccepting ==
  /\ pc = "loop"
  /\ outstanding > 0
  /\ accepting
  /\ accepting' = FALSE
  /\ pc' = "events"
  /\ UNCHANGED <<testVars, stop_requested, measuring, phaseVars, completions, io, result>>

\* ... and without.
KeepWaiting ==
  /\ pc = "loop"
  /\ outstanding > 0
  /\ accepting => ~stop_requested /\ cursor + Depth <= MaxRequests
  /\ pc' = "events"
  /\ UNCHANGED <<testVars, stop_requested, measuring, phaseVars, accepting, completions,
                 io, result>>

\* Faulty variant: events received after the deadline are not subtracted.
GetEventsForgetful(events) ==
  /\ pc = "events"
  /\ requests' = requests \ Range(events)
  /\ outstanding' = IF accepting THEN outstanding - Len(events) ELSE outstanding
  /\ completions' = [i \in DOMAIN events |-> events[i].slot]
  /\ io' = IF measuring THEN io + Len(events) ELSE io
  /\ pc' = IF accepting /\ events # <<>> THEN "resubmit" ELSE "loop"
  /\ UNCHANGED <<testVars, stop_requested, measuring, control, cursor, issued, accepting,
                 max_outstanding, measured_depth, result>>

\* io_getevents: requests complete (none before its timeout), all in full.
GetEvents(events) ==
  /\ pc = "events"
  /\ requests' = requests \ Range(events)
  /\ outstanding' = outstanding - Len(events)
  /\ completions' = [i \in DOMAIN events |-> events[i].slot]
  /\ io' = IF measuring THEN io + Len(events) ELSE io
  /\ pc' = IF accepting /\ events # <<>> THEN "resubmit" ELSE "loop"
  /\ UNCHANGED <<testVars, stop_requested, measuring, control, cursor, issued, accepting,
                 max_outstanding, measured_depth, result>>

\* io_getevents fails, or a request was not completed in full.
EventsFail ==
  /\ pc = "events"
  /\ Fail

\* Faulty variant: the count is set as for a full submission.
ResubmitCountingDepth ==
  /\ pc = "resubmit"
  /\ LET batch == PrepareCompleted(completions) IN
       /\ control' = batch.control
       /\ cursor' = batch.cursor
  /\ outstanding' = outstanding + Depth
  /\ completions' = <<>>
  /\ pc' = "loop"
  /\ UNCHANGED <<testVars, stop_requested, measuring, accepting, io, result, requests,
                 issued, max_outstanding, measured_depth>>

\* The completed requests are replaced by as many new ones.
Resubmit ==
  /\ pc = "resubmit"
  /\ LET batch == PrepareCompleted(completions) IN
       /\ control' = batch.control
       /\ cursor' = batch.cursor
       /\ Submit([i \in DOMAIN completions |-> batch.submissions[i]],
                 batch.control, cursor)
  /\ completions' = <<>>
  /\ pc' = "loop"
  /\ UNCHANGED <<testVars, stop_requested, measuring, accepting, io, result>>

ResubmitFails ==
  /\ pc = "resubmit"
  /\ Fail

\* Faulty variant: the phase ends with its deadline.
EndPhaseUndrained ==
  /\ pc = "loop"
  /\ ~accepting
  /\ AioDestroy
  /\ pc' = "ended"
  /\ UNCHANGED <<testVars, stop_requested, measuring, control, cursor, issued, outstanding,
                 accepting, completions, max_outstanding, measured_depth, io, result>>

\* The loop condition fails: nothing is outstanding.
EndPhase ==
  /\ pc = "loop"
  /\ outstanding = 0
  /\ AioDestroy
  /\ pc' = "ended"
  /\ UNCHANGED <<testVars, stop_requested, measuring, control, cursor, issued, outstanding,
                 accepting, completions, max_outstanding, measured_depth, io, result>>

\* After the warm-up: a stop is the result, otherwise the measuring phase starts
\* over from the first block.
EndWarmUp ==
  /\ pc = "ended"
  /\ ~measuring
  /\ IF stop_requested
       THEN /\ Return(FALSE, TRUE, FALSE)
            /\ UNCHANGED <<measuring, cursor, issued, accepting>>
       ELSE /\ pc' = "begin"
            /\ measuring' = TRUE
            /\ cursor' = 0
            /\ issued' = {}
            /\ accepting' = TRUE
            /\ UNCHANGED result
  /\ UNCHANGED <<testVars, stop_requested, control, requests, outstanding, completions,
                 max_outstanding, measured_depth, io>>

\* The result is valid if anything was transferred and the depth was seen, in
\* either phase.
Valid == io > 0 /\ max_outstanding >= Depth

\* After measuring the stop flag is read for the result; a write is flushed.
EndMeasuring ==
  /\ pc = "ended"
  /\ measuring
  /\ IF write
       THEN pc' = "flush" /\ result' = [NoResult EXCEPT !.stopped = stop_requested]
       ELSE Return(Valid, stop_requested, max_outstanding < Depth)
  /\ UNCHANGED <<testVars, stop_requested, measuring, phaseVars, accepting, completions, io>>

Flush(synced) ==
  /\ pc = "flush"
  /\ Return(synced /\ Valid, result.stopped, ~synced \/ max_outstanding < Depth)
  /\ UNCHANGED <<testVars, stop_requested, measuring, phaseVars, accepting, completions, io>>

\* RequestStop and the destructor raise the flag at any moment.
RaiseStop ==
  /\ ~stop_requested
  /\ stop_requested' = TRUE
  /\ UNCHANGED <<testVars, measuring, pc, phaseVars, accepting, completions, io, result>>

------------------------------------------------------------------------------

Complete ==
  \E done \in SUBSET requests \ {{}} : \E events \in SetToSeqs(done) : GetEvents(events)

ThreadStep ==
  \/ Refuse
  \/ BeginPhase
  \/ StopAccepting
  \/ KeepWaiting
  \/ Resubmit
  \/ EndPhase
  \/ EndWarmUp
  \/ EndMeasuring
  \/ \E synced \in BOOLEAN : Flush(synced)

Next ==
  \/ ThreadStep
  \/ Complete
  \/ GetEvents(<<>>)
  \/ BeginFails
  \/ EventsFail
  \/ ResubmitFails
  \/ RaiseStop

Spec == Init /\ [][Next]_vars

\* The thread is scheduled, and the device completes requests: io_getevents does
\* not time out for ever.
FairSpec == Spec /\ WF_vars(ThreadStep) /\ SF_vars(Complete)

------------------------------------------------------------------------------
(* Properties *)

\* A valid result was measured at the advertised depth, although the code looks
\* at a maximum which the warm-up may have reached.
ValidMeansDepth == result.valid => measured_depth = Depth

\* The result counts every request of the measuring phase, those drained after
\* the deadline included, and none of the warm-up.
CountsEveryRequest == pc \in {"ended", "flush"} /\ measuring => io = cursor

\* The test returns, whenever it is stopped: the drain ends.
TestReturns == <>(pc = "returned")

\* Every block handed out is requested: the blocks come in the order of the
\* phase and none is passed over (README.md: "Random tests use 4 KiB blocks in
\* deterministic shuffled order").
BlocksAreRequestedInOrder == pc = "loop" => issued = 0 .. cursor - 1
=============================================================================
