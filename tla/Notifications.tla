----------------------------- MODULE Notifications -----------------------------
(***************************************************************************)
(* One worker's instance of an operator built with unary_notify or         *)
(* binary_notify: dataflow/operators/generic/notificator.rs (requests for  *)
(* notification, pending and available), capability.rs (every capability   *)
(* counted in the operator's `internal' changes), generic/builder_rc.rs    *)
(* and handles.rs (one schedule, and what it reports at its end).          *)
(*                                                                         *)
(* The operator's logic is one of those the library builds this way, state *)
(* machine, aggregate, delay and reclock, or a user's that asks for more   *)
(* notifications while it is being notified.                               *)
(*                                                                         *)
(* What is upstream is any sender the progress protocol admits: it sends   *)
(* at times its frontier still allows, and the frontier the operator is    *)
(* told never passes a message not yet reported as consumed.               *)
(***************************************************************************)
EXTENDS Integers, Sequences

CONSTANTS
  Time,         \* the timestamps
  Leq(_, _),    \* PartialOrder::less_equal
  Before(_, _), \* Ord: strictly less, what sort_by and the heap use
  Minimum,      \* Timestamp::minimum
  Antichain,    \* the frontiers an input may have
  Logic,        \* the operators to choose from
  MaxRecords,   \* bound on the messages upstream sends
  MaxRequests   \* bound on what the user's logic requests while notified

\* What the implementations of PartialOrder and Ord promise of each other.
OrderAssumption ==
  /\ Minimum \in Time
  /\ Antichain \subseteq SUBSET Time
  /\ \A s, t \in Time : Leq(s, t) \in BOOLEAN /\ Before(s, t) \in BOOLEAN
  /\ \A s \in Time : Leq(s, s)
  /\ \A s, t \in Time : Leq(s, t) /\ Leq(t, s) => s = t
  /\ \A r, s, t \in Time : Leq(r, s) /\ Leq(s, t) => Leq(r, t)
  /\ \A s, t \in Time : Leq(s, t) /\ s # t => Before(s, t)
  /\ \A s, t \in Time : ~(Before(s, t) /\ Before(t, s))

\* Timestamp::minimum.
MinimumAssumption == \A t \in Time : Leq(Minimum, t)

BoundsAssumption == MaxRecords \in Nat

LogicAssumption == Logic \subseteq {"state_machine", "aggregate", "delay", "reclock", "user"}

Less(s, t) == Leq(s, t) /\ s # t

VARIABLES
  logic,     \* which operator this is
  upstream,  \* [input -> antichain]: the frontier progress tracking has found
  queue,     \* [input -> sequence]: messages to be pulled, one record each
  sentUp,    \* messages sent so far
  step,      \* where the operator is in its schedule
  frontier,  \* [input -> antichain]: the MutableAntichains of this schedule
  consumed,  \* [input -> set]: messages pulled in this schedule
  pending,   \* [Time -> Nat]: FrontierNotificator.pending
  available, \* [Time -> Nat]: FrontierNotificator.available
  internal,  \* [Time -> Int]: changes to this output's capabilities, unreported
  reported,  \* [Time -> Int]: the capabilities progress tracking believes in
  stash,     \* pairs <<time, record>> the logic holds back
  buffer,    \* pairs <<time, record>> in the output's Buffer, of one time
  produced,  \* pairs <<time, record>> pushed in this schedule
  emitted,   \* pairs <<time, record>> ever given to sessions
  session,   \* sequence of the times notified in this schedule
  notified,  \* the times ever notified
  asked      \* requests the user's logic made while being notified

vars == <<logic, upstream, queue, sentUp, step, frontier, consumed, pending,
          available, internal, reported, stash, buffer, produced, emitted,
          session, notified, asked>>

world    == <<upstream, queue, sentUp>>
requests == <<pending, available, internal>>
history  == <<session, notified, asked>>
output   == <<buffer, produced, emitted>>

Input == {"input1", "input2"}

\* The order in which each operator's closure does its parts.
Steps(l) ==
  CASE l = "state_machine" -> <<"notify", "input1", "report">>
    [] l = "reclock"       -> <<"input1", "input2", "notify", "report">>
    [] OTHER               -> <<"input1", "notify", "report">>

NextPart == LET p == Steps(logic)
                i == CHOOSE j \in 1 .. Len(p) : p[j] = step
            IN  p[i + 1]

Plus(f, t, n) == [f EXCEPT ![t] = @ + n]

-----------------------------------------------------------------------------
(* Notifications *)

MutantReady(fs, t) == \E i \in Input : ~ \E f \in fs[i] : Leq(f, t)

\* frontiers.iter().all(|f| !f.less_equal(time)).
Ready(fs, t) == \A i \in Input : ~ \E f \in fs[i] : Leq(f, t)

\* make_available: sort, merge requests for one time (the merged ones are
\* dropped), and move those no frontier is less or equal to.
Moved(fs) == {t \in Time : pending[t] > 0 /\ Ready(fs, t)}

MutantMerged == internal

Merged ==  \* what dropping the merged requests does to `internal'
  [t \in Time |-> internal[t] - (IF pending[t] > 1 THEN pending[t] - 1 ELSE 0)]

MadeAvailable(fs) ==
  [pending   |-> [t \in Time |-> IF pending[t] > 0 /\ t \notin Moved(fs) THEN 1 ELSE 0],
   available |-> [t \in Time |-> available[t] + (IF t \in Moved(fs) THEN 1 ELSE 0)],
   internal  |-> Merged]

MakeAvailable(fs) ==
  LET m == MadeAvailable(fs) IN
  /\ pending' = m.pending
  /\ available' = m.available
  /\ internal' = m.internal

\* Notificator::notify_at, through notify_at_frontiered: the new capability waits
\* in `available' already when the frontiers have passed it.  p, a and i are the
\* notificator and the counts before the request.
Requested(t, p, a, i) ==
  /\ internal' = Plus(i, t, 1)
  /\ \/ Ready(frontier, t) /\ available' = Plus(a, t, 1) /\ pending' = p
     \/ ~Ready(frontier, t) /\ pending' = Plus(p, t, 1) /\ available' = a

NotifyAt(t) == Requested(t, pending, available, internal)

-----------------------------------------------------------------------------
(* Output sessions *)

\* Session::give_iterator at one time: Buffer::session flushes what was buffered
\* for another time.  (A full buffer flushes early, which is not seen outside the
\* schedule: the report takes what was flushed and what is flushed at its end.)
Give(t, records) ==
  LET other == {b \in buffer : b[1] # t}
  IN  /\ produced' = produced \cup other
      /\ buffer' = (buffer \ other) \cup ({t} \X records)
      /\ emitted' = emitted \cup ({t} \X records)

StashedAt(t) == {r \in 1 .. MaxRecords : <<t, r>> \in stash}

-----------------------------------------------------------------------------
(* What is upstream *)

\* Times of messages this input still has to account for.
Unaccounted(i) == {queue[i][k][1] : k \in 1 .. Len(queue[i])} \cup {c[1] : c \in consumed[i]}

\* Upstream sends a message at a time it may still use.
Send(i) ==
  /\ i = "input2" => logic = "reclock"
  /\ sentUp < MaxRecords
  /\ \E t \in Time :
       /\ \E u \in upstream[i] : Leq(u, t)
       /\ queue' = [queue EXCEPT ![i] = Append(@, <<t, sentUp + 1>>)]
  /\ sentUp' = sentUp + 1
  /\ UNCHANGED <<logic, upstream, step, frontier, consumed, requests, reported,
                 stash, output, history>>

\* Progress tracking moves an input's frontier on, never past a message.
MoveUp(i) ==
  /\ \E f \in Antichain :
       /\ f # upstream[i]
       /\ \A t \in f : \E u \in upstream[i] : Leq(u, t)
       /\ \A t \in Unaccounted(i) : \E u \in f : Leq(u, t)
       /\ upstream' = [upstream EXCEPT ![i] = f]
  /\ UNCHANGED <<logic, queue, sentUp, step, frontier, consumed, requests, reported,
                 stash, output, history>>

-----------------------------------------------------------------------------
(* One schedule of the operator *)

\* The closure of build_reschedule drains the frontier changes; that of
\* unary_notify or binary_notify makes a Notificator, which makes available.
Start ==
  /\ step = "idle"
  /\ frontier' = upstream
  /\ MakeAvailable(upstream)
  /\ session' = <<>>
  /\ step' = Steps(logic)[1]
  /\ UNCHANGED <<logic, world, consumed, reported, stash, output, notified, asked>>

\* state_machine: fold at once, with the message's CapabilityRef, what is at the
\* frontier; hold back the rest.
PullStateMachine(t, r) ==
  \/ /\ \E f \in frontier["input1"] : Less(f, t)
     /\ stash' = stash \cup {<<t, r>>}
     /\ NotifyAt(t)
     /\ UNCHANGED output
  \/ /\ ~ \E f \in frontier["input1"] : Less(f, t)
     /\ Give(t, {r})
     /\ UNCHANGED <<stash, requests>>

\* aggregate, accumulate: one request for every batch.
PullAggregate(t, r) ==
  /\ stash' = stash \cup {<<t, r>>}
  /\ NotifyAt(t)
  /\ UNCHANGED output

\* delay, delay_batch: one request for every new time that has nothing stashed.
PullDelay(t, r) ==
  /\ \E later \in {u \in Time : Leq(t, u)} :
       /\ stash' = stash \cup {<<later, r>>}
       /\ IF StashedAt(later) = {} THEN NotifyAt(later) ELSE UNCHANGED requests
  /\ UNCHANGED output

\* reclock: data waits, the clock asks.
PullReclock(i, t, r) ==
  \/ i = "input1" /\ stash' = stash \cup {<<t, r>>} /\ UNCHANGED <<requests, output>>
  \/ i = "input2" /\ NotifyAt(t) /\ UNCHANGED <<stash, output>>

\* A user's closure asks at any time the message allows.
PullUser(t, r) ==
  /\ \E later \in {u \in Time : Leq(t, u)} : NotifyAt(later)
  /\ UNCHANGED <<stash, output>>

\* InputHandle::for_each: the next message, counted as consumed.
Pull(i) ==
  /\ step = i
  /\ queue[i] # <<>>
  /\ LET t == Head(queue[i])[1]
         r == Head(queue[i])[2]
     IN  /\ queue' = [queue EXCEPT ![i] = Tail(@)]
         /\ consumed' = [consumed EXCEPT ![i] = @ \cup {<<t, r>>}]
         /\ \/ logic = "state_machine" /\ PullStateMachine(t, r)
            \/ logic = "aggregate" /\ PullAggregate(t, r)
            \/ logic = "delay" /\ PullDelay(t, r)
            \/ logic = "reclock" /\ PullReclock(i, t, r)
            \/ logic = "user" /\ PullUser(t, r)
  /\ UNCHANGED <<logic, upstream, sentUp, step, frontier, reported, history>>

\* The pull that returns nothing ends the for_each.
Drained(i) ==
  /\ step = i
  /\ queue[i] = <<>>
  /\ step' = NextPart
  /\ UNCHANGED <<logic, world, frontier, consumed, requests, reported, stash,
                 output, history>>

\* FrontierNotificator::next looks again only when nothing is available.
Looked ==
  IF \A t \in Time : available[t] = 0
  THEN MadeAvailable(frontier)
  ELSE [pending |-> pending, available |-> available, internal |-> internal]

\* The heap's order: the one on top is the least in the total order.
Earliest(t, times) == \A u \in times \ {t} : Before(t, u)

\* The closure handed to Notificator::for_each, notified at t.
NotifiedRecords(t) ==
  IF logic = "reclock" THEN {r \in 1 .. MaxRecords : \E s \in Time : <<s, r>> \in stash /\ Leq(s, t)}
                       ELSE StashedAt(t)

\* Notificator::for_each: the least available time, its duplicates dropped; the
\* closure gives what was stashed, a user's may ask again; then the capability
\* is dropped.
Notify ==
  /\ step = "notify"
  /\ LET found == Looked
         times == {t \in Time : found.available[t] > 0}
     IN  \E t \in times :
           LET popped == [found.available EXCEPT ![t] = 0]
               counts == Plus(found.internal, t, -found.available[t])
           IN  /\ Earliest(t, times)
               /\ IF NotifiedRecords(t) = {} THEN UNCHANGED output
                                             ELSE Give(t, NotifiedRecords(t))
               /\ stash' = {s \in stash : s[2] \notin NotifiedRecords(t)}
               /\ session' = Append(session, t)
               /\ notified' = notified \cup {t}
               /\ \/ /\ pending' = found.pending
                     /\ available' = popped
                     /\ internal' = counts
                     /\ UNCHANGED asked
                  \/ /\ logic = "user"
                     /\ asked < MaxRequests
                     /\ asked' = asked + 1
                     /\ \E u \in Time : Leq(t, u) /\ Requested(u, found.pending, popped, counts)
  /\ UNCHANGED <<logic, world, step, frontier, consumed, reported>>

NotifiedAll ==
  /\ step = "notify"
  /\ \A t \in Time : Looked.available[t] = 0
  /\ MakeAvailable(frontier)
  /\ step' = NextPart
  /\ UNCHANGED <<logic, world, frontier, consumed, reported, stash, output, history>>

\* A drop that does not flush.
MutantReport ==
  /\ step = "report"
  /\ buffer' = buffer
  /\ produced' = {}
  /\ reported' = [t \in Time |-> reported[t] + internal[t]]
  /\ internal' = [t \in Time |-> 0]
  /\ consumed' = [i \in Input |-> {}]
  /\ step' = "idle"
  /\ UNCHANGED <<logic, world, frontier, pending, available, stash, emitted, history>>

\* The OutputHandle is dropped, which ceases the buffer; the closure moves the
\* consumed, internal and produced changes where progress tracking reads them.
Report ==
  /\ step = "report"
  /\ buffer' = {}
  /\ produced' = {}
  /\ reported' = [t \in Time |-> reported[t] + internal[t]]
  /\ internal' = [t \in Time |-> 0]
  /\ consumed' = [i \in Input |-> {}]
  /\ step' = "idle"
  /\ UNCHANGED <<logic, world, frontier, pending, available, stash, emitted, history>>

-----------------------------------------------------------------------------
\* The builder mints the initial capability and clears the evidence, as progress
\* tracking starts with one; the constructor asks for the initial notifications,
\* none in the library's operators, and drops that capability.
Init ==
  /\ logic \in Logic
  /\ \E initial \in SUBSET Time :
       /\ initial # {} => logic = "user"
       /\ pending = [t \in Time |-> IF t \in initial THEN 1 ELSE 0]
       /\ internal = [t \in Time |-> (IF t \in initial THEN 1 ELSE 0)
                                     - (IF t = Minimum THEN 1 ELSE 0)]
  /\ reported = [t \in Time |-> IF t = Minimum THEN 1 ELSE 0]
  /\ available = [t \in Time |-> 0]
  /\ upstream = [i \in Input |-> IF i = "input2" /\ logic # "reclock" THEN {} ELSE {Minimum}]
  /\ frontier = upstream
  /\ queue = [i \in Input |-> <<>>]
  /\ consumed = [i \in Input |-> {}]
  /\ step = "idle"
  /\ stash = {} /\ buffer = {} /\ produced = {} /\ emitted = {}
  /\ session = <<>> /\ notified = {}
  /\ sentUp = 0 /\ asked = 0

Next ==
  \/ \E i \in Input : Send(i) \/ MoveUp(i) \/ Pull(i) \/ Drained(i)
  \/ Start
  \/ Notify
  \/ NotifiedAll
  \/ Report

Spec == Init /\ [][Next]_vars

-----------------------------------------------------------------------------
\* Every capability in existence is one that progress tracking knows of or will
\* learn of in the next report, and it knows of no other: requests are merged,
\* cloned into the heap, popped and dropped, each with its own change of count,
\* and one missed either way loses records or stops the computation for good.
CapabilitiesCounted ==
  \A t \in Time : reported[t] + internal[t] = pending[t] + available[t]

\* Whatever a schedule reports as produced or as newly held is justified, time by
\* time, by a capability reported before or a message consumed in it: no record
\* stays in the output's buffer when the capability it was given under is reported
\* as dropped.
ReportsJustified ==
  [][step = "report" /\ step' = "idle" =>
       /\ buffer' = {}
       /\ \A t \in {p[1] : p \in produced \cup buffer} \cup {u \in Time : internal[u] > 0} :
            \/ \E s \in Time : Leq(s, t) /\ reported[s] > 0
            \/ \E i \in Input : \E c \in consumed[i] : Leq(c[1], t)]_vars

\* A notification means the time is complete: no message at it or before it is
\* queued at any input or can still be sent, whichever of the inputs lagged.
NotifiedOnlyWhenComplete ==
  \A t \in notified : \A i \in Input :
     /\ ~ \E u \in upstream[i] : Leq(u, t)
     /\ ~ \E k \in 1 .. Len(queue[i]) : Leq(queue[i][k][1], t)

\* Within one schedule a Notificator never goes back in the partial order of
\* times, although its heap follows the total order and requests keep arriving
\* while it hands out what it has.
NotifiedInOrder ==
  \A j, k \in 1 .. Len(session) : j < k => ~Less(session[k], session[j])

\* A state machine folds no record at a time after one of a later time, over all
\* its schedules, although it folds some records at once and holds others back.
FoldedInOrder ==
  [][logic = "state_machine" =>
       \A e \in emitted' \ emitted, d \in emitted : ~Less(e[1], d[1])]_vars

\* Nothing is held back that no notification will release: a stashed record has a
\* request pending at its time, and a record to be reclocked is not already
\* covered by a clock that has ticked.
NothingStranded ==
  \A s \in stash :
     IF logic = "reclock" THEN \A t \in notified : ~Leq(s[1], t)
                          ELSE pending[s[1]] + available[s[1]] > 0

\* What an operator gives out, at the end of each schedule and over all of them: at times
\* it may, and in their order.
OutputJustified == ReportsJustified /\ FoldedInOrder

\* What an operator may rely on when it is notified: nothing at or before the time is
\* still to come, and one session goes forward in time.
NotificationsSound == NotifiedOnlyWhenComplete /\ NotifiedInOrder

\* What is requested stays requested until it is notified: there is a capability for each
\* request and no other, and what is held back for one will be released.
RequestsKept == CapabilitiesCounted /\ NothingStranded

=============================================================================
