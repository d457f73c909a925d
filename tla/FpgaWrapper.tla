----------------------------- MODULE FpgaWrapper -----------------------------
(***************************************************************************)
(* Operators that run on a device (dataflow/operators/fpga_wrapper.rs;     *)
(* progress/subgraph.rs: reorganize_edges, propagate_pointstamps,          *)
(* schedule, extract_progress).                                            *)
(*                                                                         *)
(* A chain of ghosts stands for what the device does: filter, map, ... and *)
(* a last one that keeps a window per time.  The graph that is tracked     *)
(* leads through the ghosts; what is scheduled is a wrapper, which takes   *)
(* the ghosts' frontiers and the messages of the first, asks the device,   *)
(* and reports the counts of its answer in the ghosts' names.              *)
(*                                                                         *)
(* One worker, and the program of examples/hello.rs: an input handle sends *)
(* a message at a time and advances, and waits until a probe behind the    *)
(* wrapper has passed it.  The device is external: a request with a        *)
(* message makes it process the message, one without lets it emit the      *)
(* earliest window that its frontier has passed; each call takes the       *)
(* oldest answer, or none if the device is late.                           *)
(***************************************************************************)
EXTENDS Integers, Sequences

CONSTANTS
  Ghosts,    \* how many ghosts there are
  MaxTime,   \* bound on the times at which messages are sent
  MaxAhead   \* how many times the program goes on to before it waits

\* Children of the scope by index, in the order in which they are made.
Input == 1
Ghost == 2 .. Ghosts + 1
FirstGhost == 2
Window == Ghosts + 1
Wrapper == Ghosts + 2
Inspect == Ghosts + 3
Probe == Ghosts + 4

Child == Input .. Probe

Idle == -1

Epochs == 0 .. MaxTime + 1

Never == MaxTime + 2  \* stands for the empty frontier

\* What `first' is before the wrapper has made a request, and after one without message.
None == -1
NoMessage == -2

VARIABLES
  epoch,       \* the time of the input handle; Never once it is closed
  pending,     \* counts it has made that its operator has not reported
  queue,       \* times of the messages waiting at the wrapper
  outbox,      \* times of the results waiting at inspect
  windows,     \* times for which the device keeps a window
  answers,     \* answers of the device that have not been taken
  received,    \* times of the messages the device was given
  known,       \* counts of the tracker
  batch,       \* counts sent since the tracker last took them in
  shared,      \* counts in the wrapper's shared progress
  produceds,   \* [Ghost -> sequence]: wrapper_produceds, the changes not yet reported
  stale,       \* ghosts whose own shared progress was not extracted
  activations, \* children to be scheduled by the next call
  temp_active, \* children to be scheduled by this call
  cursor,      \* the child last scheduled by this call
  calling,     \* inside the wrapper's logic
  first,       \* the message at the front of its input_vector
  probe        \* the frontier the probe handle shows

device == <<windows, answers, received>>
handle == <<epoch, pending>>
counts == <<known, batch, shared, produceds, stale>>
scheduling == <<activations, temp_active, cursor>>
vars == <<handle, queue, outbox, device, counts, scheduling, calling, first, probe>>

-----------------------------------------------------------------------------
(* Counts, as they are tracked *)

Place == Child \X {"in", "out"}

Pointstamp == Place \X Epochs

Zero == [p \in Pointstamp |-> 0]

Plus(a, b) == [p \in Pointstamp |-> a[p] + b[p]]

Indicator(P) == [p \in Pointstamp |-> IF p \in P THEN 1 ELSE 0]

\* reorganize_edges: the tracked edges go round the wrapper.
Follows(n) == CASE n = Input -> FirstGhost
                [] n = Window -> Inspect
                [] n \in Ghost \ {Window} -> n + 1

Tracked == {Input, Inspect} \cup Ghost

\* What the tracker makes of counts, with every summary the identity: the earliest
\* time at or before the input of n along the edges.
Frontier(c, n) ==
  LET before == {t \in Epochs : \E p \in Pointstamp :
                    c[p] > 0 /\ p[2] = t /\ (p[1][1] < n \/ p[1] = <<n, "in">>)}
  IN  IF before = {} THEN Never ELSE CHOOSE t \in before : \A s \in before : t <= s

Least(S) == CHOOSE t \in S : \A s \in S : t <= s

-----------------------------------------------------------------------------
(* The program *)

\* send and advance_to: the message is flushed, the epoch closed, the operator alerted.
Send ==
  /\ cursor = Idle
  /\ epoch <= MaxTime
  /\ epoch < probe + MaxAhead
  /\ queue' = queue \cup {epoch}
  /\ pending' = Plus(pending, [p \in Pointstamp |->
                  IF p \in {<<<<FirstGhost, "in">>, epoch>>, <<<<Input, "out">>, epoch + 1>>}
                  THEN 1 ELSE IF p = <<<<Input, "out">>, epoch>> THEN -1 ELSE 0])
  /\ epoch' = epoch + 1
  /\ activations' = activations \cup {Input, Wrapper}
  /\ UNCHANGED <<outbox, device, counts, temp_active, cursor, calling, first, probe>>

\* The handle is dropped.
Close ==
  /\ cursor = Idle
  /\ epoch # Never
  /\ epoch <= probe
  /\ pending' = Plus(pending, [p \in Pointstamp |->
                                IF p = <<<<Input, "out">>, epoch>> THEN -1 ELSE 0])
  /\ epoch' = Never
  /\ activations' = activations \cup {Input}
  /\ UNCHANGED <<queue, outbox, device, counts, temp_active, cursor, calling, first, probe>>

-----------------------------------------------------------------------------
(* The device *)

NoCounts == [g \in Ghost |-> 0]

\* What it answers to a message of time t, of which it keeps nothing or all, ...
Processed(t, survives) ==
  [data |-> FALSE, time |-> t,
   consumed |-> [g \in Ghost |-> IF g = FirstGhost \/ survives THEN 1 ELSE 0],
   produced |-> [g \in Ghost |-> IF g # Window /\ survives THEN 1 ELSE 0],
   internal |-> IF survives /\ t \notin windows THEN 1 ELSE 0]

\* ... when it emits the window of time t, ...
Emitted(t) ==
  [data |-> TRUE, time |-> t, consumed |-> NoCounts,
   produced |-> [g \in Ghost |-> IF g = Window THEN 1 ELSE 0], internal |-> -1]

\* ... and when there is none to emit.
Nothing ==
  [data |-> FALSE, time |-> 0, consumed |-> NoCounts, produced |-> NoCounts, internal |-> 0]

-----------------------------------------------------------------------------
(* The wrapper's logic *)

\* Mutant: the internal change of the last ghost is not reported.
MutantReported(a, time) ==
  [p \in Pointstamp |->
     LET n == p[1][1]
     IN  CASE ~a.data /\ p[1][2] = "in" /\ p[2] = time ->
                (IF \E g \in Ghost : Follows(g) = n /\ a.produced[g] = 1 THEN 1 ELSE 0)
                  - (IF n \in Ghost THEN a.consumed[n] ELSE 0)
           [] a.data /\ p = <<<<Inspect, "in">>, a.time>> -> a.produced[Window]
           [] OTHER -> 0]

\* The changes an answer brings to the wrapper's shared progress, as extract_progress
\* will read them: with data, only what the last ghost produced and its internal change
\* are reported; without, all, at the time the wrapper took for it.
Reported(a, time) ==
  [p \in Pointstamp |->
     LET n == p[1][1]
     IN  CASE p = <<<<Window, "out">>, a.time>> -> a.internal
           [] ~a.data /\ p[1][2] = "in" /\ p[2] = time ->
                (IF \E g \in Ghost : Follows(g) = n /\ a.produced[g] = 1 THEN 1 ELSE 0)
                  - (IF n \in Ghost THEN a.consumed[n] ELSE 0)
           [] a.data /\ p = <<<<Inspect, "in">>, a.time>> -> a.produced[Window]
           [] OTHER -> 0]

\* send_input_and_check: the oldest of the answers, unless the device is late, in which
\* case the logic goes on without.
Take(all, time, late) ==
  IF late THEN answers' = all /\ UNCHANGED <<shared, produceds, outbox>>
  ELSE LET a == Head(all)
       IN  /\ answers' = Tail(all)
           /\ shared' = Plus(shared, Reported(a, IF time = NoMessage THEN a.time ELSE time))
           /\ produceds' = [g \in Ghost |-> IF a.data /\ g # Window THEN produceds[g]
                                            ELSE Append(produceds[g], a.produced[g])]
           /\ outbox' = IF a.data THEN outbox \cup {a.time} ELSE outbox

\* The logic takes the next message and writes it behind what is in `input_vector', of
\* which the device reads the front.
ExchangeMessage(survives, late) ==
  LET m     == Least(queue)
      front == IF first = None THEN m ELSE first
  IN  /\ calling /\ queue # {}
      /\ queue' = queue \ {m}
      /\ first' = front
      /\ received' = received \cup {front}
      /\ windows' = IF survives THEN windows \cup {front} ELSE windows
      /\ Take(Append(answers, Processed(front, survives)), m, late)
      /\ activations' = activations \cup {Wrapper} \cup (IF outbox' # {} THEN {Inspect} ELSE {})
      /\ UNCHANGED <<handle, known, batch, stale, temp_active, cursor, calling, probe>>

\* `if !has_data': a request that only brings the frontiers.
ExchangeNothing(late) ==
  LET due == {t \in windows : t < Frontier(known, Window)}
  IN  /\ calling /\ queue = {} /\ first = None
      /\ first' = NoMessage
      /\ windows' = IF due = {} THEN windows ELSE windows \ {Least(due)}
      /\ Take(Append(answers, IF due = {} THEN Nothing ELSE Emitted(Least(due))),
              NoMessage, late)
      /\ activations' = activations \cup (IF outbox' # {} THEN {Inspect} ELSE {})
      /\ UNCHANGED <<handle, queue, received, known, batch, stale, temp_active, cursor,
                     calling, probe>>

\* Changes of zero are dropped when a batch is drained, but for one that is alone.
Drained(changes) == Len(changes) = 1 \/ \E k \in DOMAIN changes : changes[k] # 0

\* The logic returns false, and extract_progress turns what it shared into counts and
\* has those scheduled that follow a ghost with a change.
WrapperReturns ==
  /\ calling /\ queue = {} /\ first # None
  /\ calling' = FALSE
  /\ first' = None
  /\ batch' = Plus(batch, shared)
  /\ shared' = Zero
  /\ temp_active' = temp_active \cup {Follows(g) : g \in {h \in Ghost : Drained(produceds[h])}}
  /\ produceds' = [g \in Ghost |-> <<>>]
  /\ UNCHANGED <<handle, queue, outbox, device, known, stale, activations, cursor, probe>>

-----------------------------------------------------------------------------
(* Subgraph::schedule *)

Moved(before, after) == {n \in Tracked : Frontier(before, n) # Frontier(after, n)}

\* Mutant: the drain ends once the wrapper is pushed.
MutantNotified(moved) ==
  IF moved \cap Ghost # {} THEN {Wrapper} ELSE IF Inspect \in moved THEN {Probe} ELSE {}

\* propagate_pointstamps: a ghost's new frontier is one of the wrapper, whichever of the
\* ghosts it is for; the probe is told of that of the last stream.
Notified(moved) ==
  (IF moved \cap Ghost # {} THEN {Wrapper} ELSE {})
    \cup (IF Inspect \in moved THEN {Probe} ELSE {})

\* recv, propagate_pointstamps and for_extensions.
BeginSchedule ==
  LET after == Plus(known, batch)
  IN  /\ cursor = Idle
      /\ activations # {} \/ batch # Zero
      /\ known' = after
      /\ batch' = Zero
      /\ temp_active' = activations \cup Notified(Moved(known, after))
      /\ activations' = {}
      /\ cursor' = 0
      /\ UNCHANGED <<handle, queue, outbox, device, shared, produceds, stale, calling, first,
                     probe>>

\* Mutant: whatever comes up is scheduled.
MutantRevisited(n) == FALSE

\* "De-duplicate, and don't revisit."
Revisited(n) == n <= cursor

Skip(n) ==
  /\ Revisited(n)
  /\ UNCHANGED <<handle, queue, outbox, device, counts, activations, cursor, calling, first,
                 probe>>

\* Operators that do their work at once: the input's reports what the handle has done;
\* inspect takes the results (and passes them on to the probe, whose counts cancel
\* within the call); a ghost would report the capabilities it was made with.
Operate(n) ==
  /\ ~Revisited(n) /\ n \notin {Wrapper, Probe}
  /\ cursor' = n
  /\ batch' = Plus(batch,
       IF n = Input THEN pending
       ELSE IF n = Inspect
       THEN [p \in Pointstamp |-> IF p[1] = <<Inspect, "in">> /\ p[2] \in outbox THEN -1 ELSE 0]
       ELSE Indicator(IF n \in stale THEN {<<<<n, "out">>, 0>>} ELSE {}))
  /\ pending' = IF n = Input THEN Zero ELSE pending
  /\ outbox' = IF n = Inspect THEN {} ELSE outbox
  /\ stale' = stale \ {n}
  /\ activations' = activations \cup (IF n = Inspect /\ outbox # {} THEN {Inspect} ELSE {})
  /\ UNCHANGED <<epoch, queue, device, known, shared, produceds, calling, first, probe>>

CallWrapper(n) ==
  /\ ~Revisited(n) /\ n = Wrapper
  /\ cursor' = n
  /\ calling' = TRUE
  /\ UNCHANGED <<handle, queue, outbox, device, counts, activations, first, probe>>

ShowProbe(n) ==
  /\ ~Revisited(n) /\ n = Probe
  /\ cursor' = n
  /\ probe' = Frontier(known, Inspect)
  /\ UNCHANGED <<handle, queue, outbox, device, counts, activations, calling, first>>

\* One round of the loop over temp_active, least index first.
ActivateChild ==
  /\ cursor # Idle /\ ~calling
  /\ \E n \in temp_active :
       /\ \A m \in temp_active : n <= m
       /\ temp_active' = temp_active \ {n}
       /\ Skip(n) \/ Operate(n) \/ CallWrapper(n) \/ ShowProbe(n)

\* The batch has been sent.
EndSchedule ==
  /\ cursor # Idle /\ ~calling /\ temp_active = {}
  /\ cursor' = Idle
  /\ UNCHANGED <<handle, queue, outbox, device, counts, activations, temp_active, calling,
                 first, probe>>

-----------------------------------------------------------------------------
\* After the dataflow is built.  The wrapper has expressed the ghosts' capabilities and,
\* called by set_external_summary, has given them up again and made a first request;
\* the ghosts have expressed the same in a place nobody reads.
Init ==
  /\ epoch = 0 /\ pending = Zero
  /\ queue = {} /\ outbox = {} /\ windows = {} /\ received = {}
  /\ \/ answers = <<>> /\ produceds = [g \in Ghost |-> <<0>>]
     \/ answers = <<Nothing>> /\ produceds = [g \in Ghost |-> <<>>]
  /\ known = Indicator({<<<<n, "out">>, 0>> : n \in {Input} \cup Ghost})
  /\ shared = [p \in Pointstamp |-> IF p \in {<<<<g, "out">>, 0>> : g \in Ghost} THEN -1 ELSE 0]
  /\ batch = Zero /\ stale = Ghost
  /\ activations = {Wrapper, Inspect, Probe}
  /\ temp_active = {} /\ cursor = Idle
  /\ calling = FALSE /\ first = None /\ probe = 0

Step ==
  \/ BeginSchedule \/ ActivateChild \/ EndSchedule
  \/ \E survives, late \in BOOLEAN : ExchangeMessage(survives, late)
  \/ \E late \in BOOLEAN : ExchangeNothing(late)
  \/ WrapperReturns

Next == Send \/ Close \/ Step

\* The program steps its worker for as long as there is something to do.
Spec == Init /\ [][Next]_vars /\ WF_vars(Step)

-----------------------------------------------------------------------------
Answer ==
  [data : BOOLEAN, time : Epochs, consumed : [Ghost -> {0, 1}], produced : [Ghost -> {0, 1}],
   internal : {-1, 0, 1}]

TypeOK ==
  /\ epoch \in Epochs \cup {Never} /\ probe \in Epochs \cup {Never}
  /\ \A c \in {pending, known, batch, shared} : c \in [Pointstamp -> Int]
  /\ \A S \in {queue, outbox, windows, received} : S \subseteq Epochs
  /\ answers \in Seq(Answer)
  /\ stale \subseteq Ghost
  /\ produceds \in [Ghost -> Seq({0, 1})]
  /\ \A S \in {activations, temp_active} : S \subseteq Child
  /\ cursor \in {Idle, 0} \cup Child
  /\ calling \in BOOLEAN
  /\ first \in {None, NoMessage} \cup Epochs

\* The capabilities and unprocessed messages there are.
Held ==
  {<<<<Input, "out">>, t>> : t \in {epoch} \cap Epochs}
    \cup {<<<<FirstGhost, "in">>, t>> : t \in queue}
    \cup {<<<<Window, "out">>, t>> : t \in windows}
    \cup {<<<<Inspect, "in">>, t>> : t \in outbox}

\* As long as the device keeps up, what has been reported in the ghosts' names, on the
\* way or not, adds up to what the handle, the queues and the device hold.
CountsConserved ==
  answers = <<>> => Plus(Plus(known, batch), Plus(shared, pending)) = Indicator(Held)

\* Also when it does not: the probe never passes a time of which a message waits, the
\* device keeps a window or has a result, or a result waits.
ProbeSafe ==
  LET emitted == {answers[i].time : i \in {j \in DOMAIN answers : answers[j].data}}
  IN  \A t \in {epoch} \cup queue \cup windows \cup emitted \cup outbox : probe <= t

\* No ghost is ever scheduled, although the wrapper has those it produced for put on the
\* list: the second set of initial capabilities the ghosts keep would be reported then,
\* and never given up.
GhostsNeverRun == stale = Ghost

\* What is reported in the ghosts' names is what the device does, and the ghosts do
\* nothing themselves.
GhostsStandIn == TypeOK /\ CountsConserved /\ GhostsNeverRun

\* Every epoch that is closed is eventually passed by the probe, unless the device was
\* late once: with finitely many epochs and a probe that never goes back, there are
\* always later moments when the probe has passed all that are closed.
EpochsComplete == []<>(answers # <<>> \/ \A t \in Epochs : epoch > t => probe > t)

\* "I should call my fpga function here with vector as an input": every message that is
\* taken is given to the device.
MessagesReachDevice ==
  epoch # Never => \A t \in Epochs : t < epoch => t \in queue \cup received

=============================================================================
