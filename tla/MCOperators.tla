---------------------------- MODULE MCOperators ----------------------------
(***************************************************************************)
(* The antichains that every frontier is read from, and two parts of a     *)
(* dataflow whose promises need its workers to keep stepping: inputs with  *)
(* the exchange behind them, and the sequencer.  Each is checked by        *)
(* itself: in a behaviour the part `which' runs and the others stay as     *)
(* they start.  The variables of the two are those of their modules with a *)
(* prefix.                                                                 *)
(***************************************************************************)
EXTENDS MutableAntichain, FiniteSets, Sequences

CONSTANTS
  Parts,         \* those that may run
  Outer, Inner,  \* the two components of a time
  MaxCount,      \* bound on a count, and
  MaxDebt,       \* on how far below zero one may be
  MaxDirty,      \* bound on the number of unexamined entries
  Target, MaxTime, MaxRecords, Capacity, Kinds, StepsAnytime,
  Worker, Reading, MaxReading, MaxElements, MayDrop

\* A process has finitely many workers to exchange with, and buffers have room:
\* Message::default_length is 1024.
ASSUME StreamsAssumption ==
  /\ IsFiniteSet(Target)
  /\ MaxTime \in Nat
  /\ Capacity \in Nat \ {0}

\* Times: pairs with the product order of Product<usize, usize> and the lexicographic Ord
\* its derive gives it.
MCTime == Outer \X Inner

ProductLeq(s, t) == s[1] <= t[1] /\ s[2] <= t[2]

ProductBefore(s, t) == s[1] < t[1] \/ (s[1] = t[1] /\ s[2] < t[2])

\* Longer batches behave as update_dirty calls followed by a shorter batch.
MCBatchTimes == {S \in SUBSET MCTime : Cardinality(S) <= 2}

MCDelta == {-1, 1}

\* Counts and unexamined entries an antichain may come to.
Small ==
  /\ \A t \in Time : count[t] \in -MaxDebt .. MaxCount
  /\ Cardinality(dirty) <= MaxDirty

\* Timers of two workers: they may show the same, and one may show what the other never
\* does.
Overlapping == [w \in Worker |-> 1 .. IF w = 1 THEN 1 ELSE MaxReading - 1]

VARIABLES
  which,  \* the part that runs
  sm_kind, sm_now, sm_held, sm_session, sm_attached, sm_active, sm_buffer,
  sm_unsettled, sm_internal, sm_path, sm_caps, sm_messages, sm_sent,
  sq_pusher, sq_alive, sq_send, sq_recv, sq_cap, sq_counter, sq_active, sq_catchup,
  sq_flight, sq_arrived, sq_recvd, sq_frontier, sq_notified, sq_shown

SM ==
  INSTANCE Streams WITH
    Worker <- Target, kind <- sm_kind, now <- sm_now, held <- sm_held,
    session <- sm_session, attached <- sm_attached, active <- sm_active,
    buffer <- sm_buffer, unsettled <- sm_unsettled, internal <- sm_internal,
    path <- sm_path, caps <- sm_caps, messages <- sm_messages, sent <- sm_sent
sm_vars == <<sm_kind, sm_now, sm_held, sm_session, sm_attached, sm_active, sm_buffer,
             sm_unsettled, sm_internal, sm_path, sm_caps, sm_messages, sm_sent>>

SQ ==
  INSTANCE Sequencing WITH
    MaxTime <- MaxReading, pusher <- sq_pusher, alive <- sq_alive, send <- sq_send,
    recv <- sq_recv, cap <- sq_cap, counter <- sq_counter, active <- sq_active,
    catchup <- sq_catchup, flight <- sq_flight, arrived <- sq_arrived,
    recvd <- sq_recvd, frontier <- sq_frontier, notified <- sq_notified,
    shown <- sq_shown
sq_vars == <<sq_pusher, sq_alive, sq_send, sq_recv, sq_cap, sq_counter, sq_active,
             sq_catchup, sq_flight, sq_arrived, sq_recvd, sq_frontier, sq_notified,
             sq_shown>>

ASSUME TimersAssumption == SQ!TimersAssumption

-----------------------------------------------------------------------------
\* A part that does not run starts in one of its initial states.
AnyInit ==
  /\ which \in Parts
  /\ Init /\ (which = "frontiers" \/ frontier = {})
  /\ SM!Init /\ (which = "streams" \/ sm_kind = "handle")
  /\ SQ!Init

AnyNext ==
  \/ /\ which = "frontiers" /\ Next /\ Small'
     /\ UNCHANGED <<which, sm_vars, sq_vars>>
  \/ /\ which = "streams" /\ SM!Next
     /\ UNCHANGED <<which, vars, sq_vars>>
  \/ /\ which = "sequencing" /\ SQ!Next
     /\ UNCHANGED <<which, vars, sm_vars>>

any_vars == <<which, vars, sm_vars, sq_vars>>

\* The fairness of each module, for the part that runs.
Fairness ==
  /\ WF_sm_vars(which = "streams" /\ SM!Schedule)
  /\ \A w \in Target : WF_sm_vars(which = "streams" /\ SM!Receive(w))
  /\ \A w \in Worker :
       /\ WF_sq_vars(which = "sequencing" /\ (SQ!Sequence(w) \/ SQ!GiveUp(w)))
       /\ WF_sq_vars(which = "sequencing" /\ \E v \in Worker : SQ!Arrive(v, w))
       /\ WF_sq_vars(which = "sequencing" /\ SQ!Observe(w))
       /\ WF_sq_vars(which = "sequencing" /\ SQ!Sink(w))

AnySpec == AnyInit /\ [][AnyNext]_any_vars /\ Fairness

-----------------------------------------------------------------------------
\* See Streams: no frontier passes a record that an input or exchange still holds.
RecordsCovered == SM!RecordsCovered

\* See Streams: "closes the current epoch, flushing if needed" (input.rs).
ClosedEpochsFlushed == SM!ClosedEpochsFlushed

\* See Streams: a closed input leaves nothing behind.
InputsDrain == SM!InputsDrain

\* See Sequencing: "seen by all workers in the same order" (sequence.rs), but for
\* elements that nothing tells apart.
SameOrderButTies == SQ!SameOrderButTies

\* See Sequencing: what is pushed is handed to every worker.
ElementsSequenced == SQ!ElementsSequenced

=============================================================================
