------------------------------ MODULE Capturing ------------------------------
(***************************************************************************)
(* Instances captured as events and replayed in another dataflow             *)
(* (dataflow/operators/capture/capture.rs, event.rs, replay.rs).           *)
(*                                                                         *)
(* Several instances of capture_into, as the workers of one dataflow run   *)
(* them, each write what they see, changes of the input frontier and       *)
(* messages, to an event stream of their own.  One instance of replay_core *)
(* reads them all, takes the changes as its own capabilities and sends the *)
(* messages again.  An event stream is a linked list on one thread, or     *)
(* bytes through a reader that may see any part of what was written.       *)
(*                                                                         *)
(* What is captured is any stream the progress protocol admits.            *)
(***************************************************************************)
EXTENDS Integers, Sequences

CONSTANTS
  Instances,    \* how many instances of capture_into, and event streams, there are
  Medium,       \* what they may be: a subset of {"link", "bytes"}
  Time,         \* the timestamps
  Leq(_, _),    \* PartialOrder::less_equal
  Minimum,      \* Timestamp::minimum
  Antichain,    \* the frontiers an input may have
  MaxMessages,  \* bound on the messages captured
  Parts         \* how many parts the bytes of an event may be read in

Capturer == 1 .. Instances

TimeAssumption ==
  /\ Minimum \in Time /\ Antichain \subseteq SUBSET Time
  /\ \A t \in Time : Leq(t, t) /\ Leq(Minimum, t)
  /\ \A s, t, u \in Time : Leq(s, t) /\ Leq(t, u) => Leq(s, u)

SizeAssumption == Instances \in Nat /\ Parts \in Nat \ {0}

VARIABLES
  medium,    \* what the event streams are in this behaviour
  frontier,  \* [Capturer -> antichain]: of the captured stream at each instance
  changes,   \* [Capturer -> [Time -> Int]]: its changes not yet seen by the operator
  queue,     \* [Capturer -> sequence of times]: messages waiting at the operator
  sent,      \* [Capturer -> sequence of times]: all the messages there have been
  captured,  \* [Capturer -> BOOLEAN]: capture's `started'
  stream,    \* [Capturer -> sequence of events]: written, and not yet returned by `next'
  buff1,     \* [Capturer -> Nat]: how many parts of their bytes the reader holds
  started,   \* replay's `started'
  held,      \* [Time -> Int]: the capabilities replay has reported
  replayed   \* [Capturer -> sequence of times]: messages sent again

source == <<frontier, changes, queue, sent>>
replay == <<started, held, replayed>>
vars   == <<medium, source, captured, stream, buff1, replay>>

Zero == [t \in Time |-> 0]
At(t, n) == [s \in Time |-> IF s = t THEN n ELSE 0]
Plus(f, g) == [t \in Time |-> f[t] + g[t]]
Count(A, t) == IF t \in A THEN 1 ELSE 0

Total(f) ==
  LET upTo[n \in 0 .. Instances] == IF n = 0 THEN 0 ELSE upTo[n - 1] + f[n]
  IN  upTo[Instances]

-----------------------------------------------------------------------------
(* The captured stream *)

\* A message comes for an instance, at a time its frontier allows.
Send(c) ==
  /\ Total([d \in Capturer |-> Len(sent[d])]) < MaxMessages
  /\ \E t \in Time :
       /\ \E f \in frontier[c] : Leq(f, t)
       /\ queue' = [queue EXCEPT ![c] = Append(@, t)]
       /\ sent' = [sent EXCEPT ![c] = Append(@, t)]
  /\ UNCHANGED <<medium, frontier, changes, captured, stream, buff1, replay>>

\* Progress tracking tells an instance of a later frontier, which passes no message
\* that the operator has not reported as consumed.
Advance(c) ==
  /\ \E A \in Antichain \ {frontier[c]} :
       /\ \A t \in A : \E f \in frontier[c] : Leq(f, t)
       /\ \A k \in 1 .. Len(queue[c]) : \E f \in A : Leq(f, queue[c][k])
       /\ frontier' = [frontier EXCEPT ![c] = A]
       /\ changes' = [changes EXCEPT ![c] =
                        [t \in Time |-> @[t] + Count(A, t) - Count(frontier[c], t)]]
  /\ UNCHANGED <<medium, queue, sent, captured, stream, buff1, replay>>

-----------------------------------------------------------------------------
(* capture_into *)

\* "discard initial capability."
Seen(c) == IF captured[c] THEN changes[c] ELSE Plus(changes[c], At(Minimum, -1))

\* One schedule of the operator: the changes of its frontier, if there are any, and
\* then each message.
Capture(c) ==
  LET progress == IF Seen(c) = Zero THEN <<>>
                  ELSE <<[kind |-> "progress", changes |-> Seen(c)]>>
      messages == [k \in 1 .. Len(queue[c]) |-> [kind |-> "messages", time |-> queue[c][k]]]
  IN  /\ ~captured[c] \/ changes[c] # Zero \/ queue[c] # <<>>
      /\ captured' = [captured EXCEPT ![c] = TRUE]
      /\ changes' = [changes EXCEPT ![c] = Zero]
      /\ queue' = [queue EXCEPT ![c] = <<>>]
      /\ stream' = [stream EXCEPT ![c] = @ \o progress \o messages]
      /\ UNCHANGED <<medium, frontier, sent, buff1, replay>>

-----------------------------------------------------------------------------
(* EventIterator *)

\* How many events abomonation::decode finds at the front of the bytes.
Decodable(c) == buff1[c] \div Parts

\* What next returns until it returns None.  A link is followed to its end; bytes are
\* decoded from what is held.
Next_(c) == IF medium = "link" THEN stream[c] ELSE SubSeq(stream[c], 1, Decodable(c))

\* More bytes are read only then: any part of those there are.
MayRead(c) == IF medium = "link" THEN {0} ELSE 0 .. Len(stream[c]) * Parts - buff1[c]

\* "we should shift back (if any shifting to do)".
Rest(c) == IF medium = "link" THEN 0 ELSE buff1[c] - Decodable(c) * Parts

-----------------------------------------------------------------------------
(* replay_core *)

TimesOf(events) ==
  LET upTo[n \in 0 .. Len(events)] ==
        IF n = 0 THEN <<>>
        ELSE upTo[n - 1] \o (IF events[n].kind = "messages" THEN <<events[n].time>> ELSE <<>>)
  IN  upTo[Len(events)]

ChangesAt(events, t) ==
  LET upTo[n \in 0 .. Len(events)] ==
        IF n = 0 THEN 0
        ELSE upTo[n - 1] + (IF events[n].kind = "progress" THEN events[n].changes[t] ELSE 0)
  IN  upTo[Len(events)]

MutantStart == Zero

\* "modify our capabilities to match the number of streams we manage".
Start == IF started THEN Zero ELSE At(Minimum, Instances - 1)

\* One schedule of the operator, which reads what every event stream has.
Replay ==
  \E r \in [Capturer -> 0 .. Parts * Total([c \in Capturer |-> Len(stream[c])])] :
    /\ \A c \in Capturer : r[c] \in MayRead(c)
    /\ started' = TRUE
    /\ held' = [t \in Time |->
         held[t] + Start[t] + Total([c \in Capturer |-> ChangesAt(Next_(c), t)])]
    /\ replayed' = [c \in Capturer |-> replayed[c] \o TimesOf(Next_(c))]
    /\ buff1' = [c \in Capturer |-> Rest(c) + r[c]]
    /\ stream' = [c \in Capturer |->
         SubSeq(stream[c], Len(Next_(c)) + 1, Len(stream[c]))]
    /\ UNCHANGED <<medium, source, captured>>

-----------------------------------------------------------------------------
\* A worker is told of its initial frontier before it first schedules the operator.
Init ==
  /\ medium \in Medium
  /\ frontier = [c \in Capturer |-> {Minimum}]
  /\ changes = [c \in Capturer |-> At(Minimum, 1)]
  /\ queue = [c \in Capturer |-> <<>>]
  /\ sent = [c \in Capturer |-> <<>>]
  /\ captured = [c \in Capturer |-> FALSE]
  /\ stream = [c \in Capturer |-> <<>>]
  /\ buff1 = [c \in Capturer |-> 0]
  /\ started = FALSE
  /\ held = At(Minimum, 1)
  /\ replayed = [c \in Capturer |-> <<>>]

Next ==
  \/ \E c \in Capturer : Send(c) \/ Advance(c) \/ Capture(c)
  \/ Replay

Spec == Init /\ [][Next]_vars

-----------------------------------------------------------------------------
\* The times of the messages that replay has not sent again, in order.
Waiting(c) == TimesOf(stream[c]) \o queue[c]

\* Whatever can still come out of a captured stream, a message on its way through the
\* event stream or one yet to be sent, is at or after a capability the replaying
\* operator holds: who watches the replayed stream is never told too early that a
\* time is over, although the streams run at paces of their own.
ReplayNeverEarly ==
  \A c \in Capturer :
    \A t \in {Waiting(c)[k] : k \in DOMAIN Waiting(c)} \cup frontier[c] : \E s \in Time : held[s] > 0 /\ Leq(s, t)

\* Once every captured stream has ended and every event was read, each message has
\* been sent again, once and in its stream's order, and no capability is left.
ReplayComplete ==
  (\A c \in Capturer : /\ frontier[c] = {} /\ changes[c] = Zero /\ captured[c]
                       /\ queue[c] = <<>> /\ stream[c] = <<>>)
    /\ started
    => replayed = sent /\ held = Zero

=============================================================================
