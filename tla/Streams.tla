-------------------------------- MODULE Streams --------------------------------
(***************************************************************************)
(* From a program's input to the workers its records are exchanged to:     *)
(* dataflow/operators/input.rs (Handle), unordered_input.rs (a session     *)
(* under a capability the program keeps), channels/pushers/counter.rs,     *)
(* tee.rs, exchange.rs and buffer.rs, and the counts the input's operator  *)
(* reports when it is scheduled.                                           *)
(*                                                                         *)
(* Records wait in two places, the input's own buffer and the exchange's   *)
(* buffers, one for each target, and are counted between the two.  Only    *)
(* one worker sends; what it reports and what the receivers report is      *)
(* accumulated at once, the order in which others learn of it being the    *)
(* subject of ProgressTracking.                                            *)
(***************************************************************************)
EXTENDS Integers, Sequences, FiniteSets

CONSTANTS
  Worker,      \* the targets of the exchange
  MaxTime,     \* bound on the epochs
  MaxRecords,  \* bound on the records sent
  Capacity,    \* Message::default_length, the capacity of every buffer
  Kinds,       \* "handle", "unordered": the inputs to choose from
  StepsAnytime \* may the program step the worker at any moment?

Epoch == 0 .. MaxTime

VARIABLES
  kind,      \* which input the program uses
  now,       \* Handle.now_at
  held,      \* [Epoch -> Nat]: capabilities the program holds
  session,   \* the times of the open AutoflushSession, at most one
  attached,  \* has the input been registered with its dataflow?
  active,    \* is the input's operator in the worker's activations?
  buffer,    \* records in Handle.buffer1, or in the unordered input's Buffer
  unsettled, \* has anything been sent since the last close?
  internal,  \* [Epoch -> Int]: changes to capabilities, unreported
  path,      \* what the pushers hold, a record:
             \*   produced: [Epoch -> Nat], counted by the Counter, unreported
             \*   current:  the times of Exchange.current, at most one
             \*   held:     [Worker -> set of records], Exchange.buffers
             \*   channel:  [Worker -> sequence of messages <<time, records>>]
  caps,      \* [Epoch -> Int]: capabilities reported
  messages,  \* [Epoch -> Int]: records reported produced and not consumed
  sent       \* records sent so far

vars == <<kind, now, held, session, attached, active, buffer, unsettled, internal,
          path, caps, messages, sent>>

reports == <<caps, messages>>

Zero == [t \in Epoch |-> 0]
Plus(f, t, n) == [f EXCEPT ![t] = @ + n]

-----------------------------------------------------------------------------
(* The path of a message: Counter, Tee, Exchange.  Each operator takes what *)
(* the pushers hold and returns what they hold afterwards.                  *)

\* What fills whole buffers of the records waiting for one target.
Sendable(records) ==
  LET n == Cardinality(records)
  IN  CHOOSE S \in SUBSET records : Cardinality(S) = n - (n % Capacity)

\* Exchange::flush for every target w, of the records going[w].
ExchangeFlush(p, going) ==
  [p EXCEPT !.channel = [w \in Worker |->
                           IF going[w] = {} THEN @[w]
                           ELSE Append(@[w], <<CHOOSE t \in p.current : TRUE, going[w]>>)],
            !.held = [w \in Worker |-> @[w] \ going[w]]]

\* Exchange::push of a message: records of another time go first, then each record
\* joins those of its target, which go when they fill a buffer.  With a single
\* target nothing is held.
ExchangePush(p, time, records) ==
  LET before == IF p.current \in {{}, {time}} THEN p ELSE ExchangeFlush(p, p.held)
      joined == [before EXCEPT !.current = {time},
                               !.held = [w \in Worker |-> @[w] \cup {r \in records : r[2] = w}]]
  IN  IF Cardinality(Worker) = 1 THEN ExchangeFlush(joined, joined.held)
                                 ELSE ExchangeFlush(joined, [w \in Worker |-> Sendable(joined.held[w])])

MutantCounted(p, time, n) == p

\* Counter::push of a message: counted, then passed on.
Counted(p, time, n) == [p EXCEPT !.produced = Plus(@, time, n)]

PushMessage(p, time, records) ==
  ExchangePush(Counted(p, time, Cardinality(records)), time, records)

MutantPushNone(p) == p

\* Counter::push of None: passed on only if something is counted and not reported.
PushNone(p) ==
  IF p.produced = Zero \/ p.current = {} THEN p ELSE ExchangeFlush(p, p.held)

\* Handle::flush and Buffer::flush; with no dataflow registered it goes nowhere.
Flushed(p, time, records) ==
  IF records = {} \/ ~attached THEN p ELSE PushMessage(p, time, records)

\* Handle::flush, then done; Buffer::cease.
Ceased(p, time, records) ==
  IF attached THEN PushNone(Flushed(p, time, records)) ELSE p

-----------------------------------------------------------------------------
(* Sending *)

\* The time at which a record given now would be sent, if there is one.
OpenTimes == IF kind = "handle" THEN {t \in {now} : held[t] > 0} ELSE session

\* Handle::send, and Buffer::give in a session: the buffer goes when it is full.
Send(to) ==
  /\ sent < MaxRecords
  /\ \E time \in OpenTimes :
       LET filled == buffer \cup {<<sent + 1, to>>}
       IN  IF Cardinality(filled) < Capacity
           THEN buffer' = filled /\ UNCHANGED path
           ELSE buffer' = {} /\ path' = Flushed(path, time, filled)
  /\ sent' = sent + 1
  /\ unsettled' = TRUE
  /\ UNCHANGED <<kind, now, held, session, attached, active, internal, reports>>

\* Handle::send_batch, AutoflushSession::give_content: what is buffered goes, and
\* the batch after it.
SendBatch(first, second) ==
  /\ sent + 2 <= MaxRecords
  /\ \E time \in OpenTimes :
       path' = Flushed(Flushed(path, time, buffer), time,
                       {<<sent + 1, first>>, <<sent + 2, second>>})
  /\ buffer' = {}
  /\ sent' = sent + 2
  /\ unsettled' = TRUE
  /\ UNCHANGED <<kind, now, held, session, attached, active, internal, reports>>

-----------------------------------------------------------------------------
(* input.rs: Handle *)

\* input_from adds an operator to the dataflow, with a capability for the minimum.
WithOperator ==
  /\ attached' = TRUE
  /\ caps' = Plus(caps, 0, 1)

\* register: what was sent before is not for the new dataflow, whose count of the
\* minimum time moves to where the handle already is.
Register ==
  /\ kind = "handle" /\ ~attached /\ held[now] > 0
  /\ WithOperator
  /\ buffer' = {}
  /\ unsettled' = FALSE
  /\ internal' = Plus(Plus(internal, 0, -1), now, 1)
  /\ UNCHANGED <<kind, active, now, held, session, path, messages, sent>>

\* close_epoch, but for the count of the epoch it closes.
CloseEpoch ==
  /\ path' = Ceased(path, now, buffer)
  /\ buffer' = {}
  /\ unsettled' = FALSE

\* advance_to a later time.
AdvanceTo(next) ==
  /\ kind = "handle" /\ held[now] > 0 /\ now < next
  /\ CloseEpoch
  /\ now' = next
  /\ held' = Plus(Plus(held, now, -1), next, 1)
  /\ internal' = IF attached THEN Plus(Plus(internal, now, -1), next, 1) ELSE internal
  /\ active' = attached
  /\ UNCHANGED <<kind, session, attached, reports, sent>>

\* close, or dropping the handle.
Close ==
  /\ kind = "handle" /\ held[now] > 0
  /\ CloseEpoch
  /\ held' = Plus(held, now, -1)
  /\ internal' = IF attached THEN Plus(internal, now, -1) ELSE internal
  /\ active' = attached
  /\ UNCHANGED <<kind, now, session, attached, reports, sent>>

-----------------------------------------------------------------------------
(* unordered_input.rs: sessions and capabilities in the program's hands *)

\* Dropping an ActivateOnDrop or an ActivateCapability.
Activated == active' = TRUE

\* UnorderedHandle::session clones the capability into the session, and drops the
\* one it was passed, a clone of the program's, which activates the operator.
OpenSession(t) ==
  /\ kind = "unordered" /\ session = {} /\ held[t] > 0
  /\ session' = {t}
  /\ internal' = Plus(internal, t, 1)
  /\ path' = IF buffer = {} THEN path ELSE Flushed(path, t, buffer)
  /\ buffer' = {}
  /\ Activated
  /\ UNCHANGED <<kind, now, held, attached, unsettled, reports, sent>>

\* Dropping the session ceases the buffer, then drops its capability.
CloseSession ==
  /\ kind = "unordered"
  /\ \E t \in session :
       /\ path' = Ceased(path, t, buffer)
       /\ internal' = Plus(internal, t, -1)
  /\ buffer' = {}
  /\ session' = {}
  /\ unsettled' = FALSE
  /\ Activated
  /\ UNCHANGED <<kind, now, held, attached, reports, sent>>

\* ActivateCapability::delayed, downgrade and drop.
Delayed(t, u) ==
  /\ kind = "unordered" /\ held[t] > 0 /\ t < u /\ held[u] = 0
  /\ held' = Plus(held, u, 1)
  /\ internal' = Plus(internal, u, 1)
  /\ UNCHANGED <<kind, now, session, attached, active, buffer, unsettled, path, reports, sent>>

Downgrade(t, u) ==
  /\ kind = "unordered" /\ held[t] > 0 /\ t < u /\ held[u] = 0
  /\ held' = Plus(Plus(held, u, 1), t, -1)
  /\ internal' = Plus(Plus(internal, u, 1), t, -1)
  /\ Activated
  /\ UNCHANGED <<kind, now, session, attached, buffer, unsettled, path, reports, sent>>

DropCapability(t) ==
  /\ kind = "unordered" /\ held[t] > 0
  /\ held' = Plus(held, t, -1)
  /\ internal' = Plus(internal, t, -1)
  /\ Activated
  /\ UNCHANGED <<kind, now, session, attached, buffer, unsettled, path, reports, sent>>

-----------------------------------------------------------------------------
(* The worker *)

\* When the program lets its worker take a step.  One that steps after its sends
\* have left nothing in the buffer, and before it ends their epoch or session, is
\* allowed where StepsAnytime says so.
MaySchedule == StepsAnytime \/ ~unsettled \/ buffer # {}

\* Schedule::schedule of the input's operator: both changes in one report.
Schedule ==
  /\ active /\ MaySchedule
  /\ caps' = [t \in Epoch |-> caps[t] + internal[t]]
  /\ messages' = [t \in Epoch |-> messages[t] + path.produced[t]]
  /\ internal' = Zero
  /\ path' = [path EXCEPT !.produced = Zero]
  /\ active' = FALSE
  /\ UNCHANGED <<kind, now, held, session, attached, buffer, unsettled, sent>>

\* A receiver pulls a message, and what it consumed is reported.
Receive(w) ==
  /\ path.channel[w] # <<>>
  /\ LET m == Head(path.channel[w])
     IN  messages' = Plus(messages, m[1], -Cardinality(m[2]))
  /\ path' = [path EXCEPT !.channel[w] = Tail(@)]
  /\ UNCHANGED <<kind, now, held, session, attached, active, buffer, unsettled, internal, caps, sent>>

-----------------------------------------------------------------------------
\* A Handle starts with no dataflow; an unordered input starts within one, with a
\* capability for the minimum time that progress tracking already counts.
Detached == attached = FALSE /\ caps = Zero
Built == attached = TRUE /\ caps = Plus(Zero, 0, 1)

Init ==
  /\ kind \in Kinds
  /\ now = 0
  /\ held = Plus(Zero, 0, 1)
  /\ session = {}
  /\ \/ kind = "handle" /\ Detached
     \/ kind = "unordered" /\ Built
  /\ active = FALSE
  /\ buffer = {} /\ unsettled = FALSE
  /\ internal = Zero
  /\ path = [produced |-> Zero, current |-> {}, held |-> [w \in Worker |-> {}],
             channel |-> [w \in Worker |-> <<>>]]
  /\ messages = Zero
  /\ sent = 0

Next ==
  \/ \E to \in Worker : Send(to)
  \/ \E first, second \in Worker : SendBatch(first, second)
  \/ Register
  \/ \E t \in Epoch : AdvanceTo(t) \/ OpenSession(t) \/ DropCapability(t)
  \/ Close
  \/ CloseSession
  \/ \E t, u \in Epoch : Delayed(t, u) \/ Downgrade(t, u)
  \/ Schedule
  \/ \E w \in Worker : Receive(w)

\* Closing and dropping activate the input's operator, and workers keep stepping
\* while their dataflows are incomplete; nothing obliges the program to send.
Fairness == WF_vars(Schedule) /\ \A w \in Worker : WF_vars(Receive(w))

Spec == Init /\ [][Next]_vars /\ Fairness

-----------------------------------------------------------------------------
\* Times at which a record waits somewhere.
Waiting ==
  (IF buffer # {} /\ attached THEN OpenTimes ELSE {})
  \cup (IF \E w \in Worker : path.held[w] # {} THEN path.current ELSE {})
  \cup UNION {{path.channel[w][k][1] : k \in 1 .. Len(path.channel[w])} : w \in Worker}

\* No frontier passes a record that has not arrived: at every moment what has been
\* reported holds back the time of each record waiting in the input, in the
\* exchange or in a channel, although the record and the end of its epoch are
\* reported by one schedule that may come at any time.
RecordsCovered ==
  \A t \in Waiting : \E s \in 0 .. t : caps[s] > 0 \/ messages[s] > 0

\* "closes the current epoch, flushing if needed": once the time under which they
\* were sent is given up, no records are left behind in the exchange.
ClosedEpochsFlushed ==
  (\E w \in Worker : path.held[w] # {}) =>
     path.current \cap OpenTimes # {} \/ unsettled

\* When the program has closed its input every record arrives and nothing is
\* counted any more, so whoever waits on a probe of the stream is released.
InputsDrain ==
  []<>(held = Zero /\ session = {} =>
         /\ caps = Zero /\ messages = Zero
         /\ \A w \in Worker : path.held[w] = {} /\ path.channel[w] = <<>>)

=============================================================================
