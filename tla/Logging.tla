------------------------------- MODULE Logging -------------------------------
(***************************************************************************)
(* The log of a worker as an event stream (src/logging/src/lib.rs:         *)
(* Registry, Logger; timely/src/logging.rs: BatchLogger).                  *)
(*                                                                         *)
(* Under one name, the registry binds a destination after another; parts   *)
(* of the program hold clones of the loggers it had when they asked.  The  *)
(* clones of a logger share a buffer and an action.  The action is a       *)
(* BatchLogger's: it writes batches, and a lower bound on later events, as *)
(* the events that replay reads (see Capturing), and its stream ends when  *)
(* the last clone is dropped.                                              *)
(***************************************************************************)
EXTENDS Integers, Sequences, Functions

CONSTANTS
  Destination,  \* the loggers that may be made
  Capacity,     \* of a buffer, 1024 in the code; a BatchLogger drains it in place,
                \* so that it stays what it was
  MaxClock,     \* bound on the readings of the clock
  MaxEvents,    \* bound on the events logged
  MaxClones     \* bound on the clones of a logger outside the registry

\* The clock can read 0.
ClockAssumption == MaxClock \in Nat

VARIABLES
  clock,   \* time.elapsed() + offset
  made,    \* the loggers that have been made
  bound,   \* the one in the registry's map, if any
  clones,  \* [Destination -> Nat]: clones outside of it
  buffer,  \* [Destination -> sequence of <<time, n>>]
  time,    \* [Destination -> Nat]: BatchLogger.time
  stream,  \* [Destination -> sequence of events]
  logged   \* [Destination -> sequence of <<time, n>>]: all that was ever logged

vars == <<clock, made, bound, clones, buffer, time, stream, logged>>

Messages(t, data) == [kind |-> "messages", time |-> t, data |-> data]
Progress(changes) == [kind |-> "progress", changes |-> changes]

-----------------------------------------------------------------------------
(* A log is a record of a logger's buffer, and its action's time and stream. *)

Log(d) == [buffer |-> buffer[d], time |-> time[d], stream |-> stream[d]]

MutantPublished(l, t) ==
  [buffer |-> <<>>, time |-> t,
   stream |-> l.stream
     \o (IF l.time < t THEN <<Progress({<<t, 1>>, <<l.time, -1>>})>> ELSE <<>>)
     \o (IF l.buffer = <<>> THEN <<>> ELSE <<Messages(t, l.buffer)>>)]

\* publish_batch, of the buffer, which is cleared: the events under the capability there
\* was, then the new one, if it is later.
Published(l, t) ==
  [buffer |-> <<>>, time |-> t,
   stream |-> l.stream
     \o (IF l.buffer = <<>> THEN <<>> ELSE <<Messages(l.time, l.buffer)>>)
     \o (IF l.time < t THEN <<Progress({<<t, 1>>, <<l.time, -1>>})>> ELSE <<>>)]

\* One event of log_many: it may fill the buffer.
Buffered(l, event) ==
  LET longer == [buffer |-> Append(l.buffer, event), time |-> l.time, stream |-> l.stream]
  IN  IF Len(longer.buffer) = Capacity THEN Published(longer, event[1]) ELSE longer

Filled(l, events) ==
  LET upTo[n \in 0 .. Len(events)] ==
        IF n = 0 THEN l ELSE Buffered(upTo[n - 1], events[n])
  IN  upTo[Len(events)]

\* Logger::drop, with others left, and with the last one the action is dropped too.
Dropped(l, last) ==
  LET flushed == IF l.buffer = <<>> THEN l ELSE Published(l, clock)
  IN  IF last
      THEN [buffer |-> flushed.buffer, time |-> flushed.time,
            stream |-> Append(flushed.stream, Progress({<<flushed.time, -1>>}))]
      ELSE flushed

Becomes(d, l) ==
  /\ buffer' = [buffer EXCEPT ![d] = l.buffer]
  /\ time' = [time EXCEPT ![d] = l.time]
  /\ stream' = [stream EXCEPT ![d] = l.stream]

-----------------------------------------------------------------------------
Tick ==
  /\ clock < MaxClock
  /\ clock' = clock + 1
  /\ UNCHANGED <<made, bound, clones, buffer, time, stream, logged>>

\* Registry::insert replaces what was bound, remove only takes it away; either way the
\* caller is given a clone of that, and drops it or keeps it.
Rebind(to) ==
  /\ bound # {} \/ to # {}
  /\ bound' = to
  /\ made' = made \cup to
  /\ \/ \E d \in bound :
          \/ /\ clones[d] < MaxClones
             /\ clones' = [clones EXCEPT ![d] = @ + 1]
             /\ Becomes(d, Dropped(Log(d), FALSE))
          \/ Becomes(d, Dropped(Log(d), clones[d] = 0)) /\ UNCHANGED clones
     \/ bound = {} /\ UNCHANGED <<clones, buffer, time, stream>>
  /\ UNCHANGED <<clock, logged>>

\* Registry::get, or Logger::clone.
Clone(d) ==
  /\ d \in bound \/ clones[d] > 0
  /\ clones[d] < MaxClones
  /\ clones' = [clones EXCEPT ![d] = @ + 1]
  /\ UNCHANGED <<clock, made, bound, buffer, time, stream, logged>>

\* log_many, of n events at one reading of the clock.
LogMany(d, n) ==
  /\ clones[d] > 0
  /\ SumFunction([e \in Destination |-> Len(logged[e])]) + n <= MaxEvents
  /\ LET events == [k \in 1 .. n |-> <<clock, Len(logged[d]) + k>>]
     IN  /\ Becomes(d, Filled(Log(d), events))
         /\ logged' = [logged EXCEPT ![d] = @ \o events]
  /\ UNCHANGED <<clock, made, bound, clones>>

\* Registry::flush before a worker parks, or a clone's flush, also of an empty buffer.
Flush(d) ==
  /\ d \in bound \/ clones[d] > 0
  /\ Becomes(d, Published(Log(d), clock))
  /\ UNCHANGED <<clock, made, bound, clones, logged>>

DropClone(d) ==
  /\ clones[d] > 0
  /\ clones' = [clones EXCEPT ![d] = @ - 1]
  /\ Becomes(d, Dropped(Log(d), clones[d] = 1 /\ d \notin bound))
  /\ UNCHANGED <<clock, made, bound, logged>>

-----------------------------------------------------------------------------
Init ==
  /\ clock = 0
  /\ made = {} /\ bound = {}
  /\ clones = [d \in Destination |-> 0]
  /\ buffer = [d \in Destination |-> <<>>]
  /\ time = [d \in Destination |-> 0]
  /\ stream = [d \in Destination |-> <<>>]
  /\ logged = [d \in Destination |-> <<>>]

Next ==
  \/ Tick
  \/ Rebind({})
  \/ \E d \in Destination \ made : Rebind({d})
  \/ \E d \in Destination : Clone(d) \/ LogMany(d, 1) \/ LogMany(d, 2) \/ Flush(d) \/ DropClone(d)

Spec == Init /\ [][Next]_vars

-----------------------------------------------------------------------------
\* What an event changes at t; and the capabilities at t that a replay of the first k
\* events of a stream has left.  It begins with one for the minimum.
Changed(e, t) ==
  IF e.kind = "progress"
  THEN (IF <<t, 1>> \in e.changes THEN 1 ELSE 0) - (IF <<t, -1>> \in e.changes THEN 1 ELSE 0)
  ELSE 0

HeldAfter(events, k, t) ==
  LET upTo[n \in 0 .. k] ==
        IF n = 0 THEN (IF t = 0 THEN 1 ELSE 0) ELSE upTo[n - 1] + Changed(events[n], t)
  IN  upTo[k]

Contents(events) ==
  LET upTo[n \in 0 .. Len(events)] ==
        IF n = 0 THEN <<>>
        ELSE upTo[n - 1] \o (IF events[n].kind = "messages" THEN events[n].data ELSE <<>>)
  IN  upTo[Len(events)]

\* Whatever parts of the program log, clone, drop, and however destinations are bound in
\* between: events are in the streams in the order in which they were logged, none is
\* lost, and each is sent under a capability that is held, with none held that is later
\* than the event; and a stream is closed, and holds back nothing, exactly when nobody
\* can log to it any more.
LogsFaithful ==
  \A d \in Destination :
    /\ Contents(stream[d]) \o buffer[d] = logged[d]
    /\ \A k \in DOMAIN stream[d] :
         stream[d][k].kind = "messages" =>
           /\ HeldAfter(stream[d], k, stream[d][k].time) > 0
           /\ \A i \in DOMAIN stream[d][k].data :
                \A t \in 0 .. MaxClock :
                  HeldAfter(stream[d], k, t) > 0 => t <= stream[d][k].data[i][1]
    /\ (d \in made /\ d \notin bound /\ clones[d] = 0) <=>
         \A t \in 0 .. MaxClock : HeldAfter(stream[d], Len(stream[d]), t) = 0

=============================================================================
