------------------------------ MODULE Sequencing ------------------------------
(***************************************************************************)
(* synchronization/sequence.rs: the Sequencer, through which workers push  *)
(* elements that every worker is to see in the same order.  On each worker *)
(* a source stamps what was pushed with the time its timer shows and sends *)
(* it to every worker, and a sink sorts what it receives and releases what *)
(* its frontier has passed.  The frontier is what ProgressSpec promises:   *)
(* it may reach, at any moment, the least time that is still outstanding.  *)
(***************************************************************************)
EXTENDS Integers, Sequences, SequencesExt, FiniteSets

CONSTANTS
  Worker,
  MaxTime,     \* stands for all later readings; nothing is sent at it
  Reading,     \* [Worker -> sets of times]: what each worker's timer can show
               \* before MaxTime
  MaxElements, \* bound on the elements pushed
  MayDrop      \* the workers that may drop their Sequencer

\* Nothing keeps the timers of two workers from showing the same.
TimersAssumption ==
  /\ MaxTime \in Nat
  /\ Reading \in [Worker -> SUBSET (0 .. MaxTime - 1)]

VARIABLES
  pusher,    \* sequence: who pushed each element
  alive,     \* the workers whose Sequencer has not been dropped
  send,      \* [Worker -> sequence of elements]: Sequencer.send
  recv,      \* [Worker -> sequence of elements]: all that Sequencer.recv was given
  cap,       \* [Worker -> times]: the source's capability, at most one
  counter,   \* [Worker -> Nat]: the source's counter
  active,    \* workers whose source is activated
  catchup,   \* [Worker -> times]: CatchupActivator.catchup_until, at most one
  flight,    \* [sender -> [receiver -> sequence of messages]]
  arrived,   \* [Worker -> sequence of messages]: what the sink can pull
  recvd,     \* [Worker -> sequence of messages]: the sink's sorted vector
  frontier,  \* [Worker -> Nat]: the sink's frontier; MaxTime + 1 if empty
  notified,  \* workers whose sink is activated
  shown      \* history: what the timer showed when each element was sent

vars == <<pusher, alive, send, recv, cap, counter, active, catchup, flight,
          arrived, recvd, frontier, notified, shown>>

\* A message as the sink keeps it: the vector is sorted by the first two.
Message(t, n, e) == [time |-> t, counter |-> n, element |-> e]

-----------------------------------------------------------------------------
\* Nothing before t may still reach w's sink, from a capability or on its way.
NothingBefore(t, w) ==
  /\ \A v \in Worker : \A u \in cap[v] : t <= u
  /\ \A v \in Worker : \A k \in 1 .. Len(flight[v][w]) : t <= flight[v][w][k].time
  /\ \A k \in 1 .. Len(arrived[w]) : t <= arrived[w][k].time

-----------------------------------------------------------------------------
\* Sequencer::push, while the timer has readings left to send at.
Push(w) ==
  /\ w \in alive /\ Len(pusher) < MaxElements
  /\ \A c \in cap[w] : \E t \in Reading[w] : c < t
  /\ pusher' = Append(pusher, w)
  /\ send' = [send EXCEPT ![w] = Append(@, Len(pusher) + 1)]
  /\ active' = active \cup {w}
  /\ UNCHANGED <<alive, recv, cap, counter, catchup, flight, arrived, recvd, frontier, notified,
                 shown>>

\* Sequencer::drop.
Drop(w) ==
  /\ w \in alive \cap MayDrop
  /\ alive' = alive \ {w}
  /\ send' = [send EXCEPT ![w] = <<>>]
  /\ active' = active \cup {w}
  /\ UNCHANGED <<pusher, recv, cap, counter, catchup, flight, arrived, recvd, frontier, notified,
                 shown>>

\* The source of a live Sequencer: bring the capability to the timer's reading,
\* send everything pushed to every worker, and ask to run again while behind what
\* the sink has seen.
Sequence(w) ==
  /\ w \in active /\ w \in alive
  /\ \E t \in Reading[w] \cup (IF send[w] = <<>> THEN {MaxTime} ELSE {}) :
       /\ \A c \in cap[w] : c < t \/ (c = MaxTime /\ t = MaxTime)
       /\ cap' = [cap EXCEPT ![w] = {t}]
       /\ flight' = [flight EXCEPT ![w] = [v \in Worker |->
                       @[v] \o [k \in 1 .. Len(send[w]) |-> Message(t, counter[w] + k, send[w][k])]]]
       /\ IF \E c \in catchup[w] : t < c
          THEN active' = active /\ catchup' = catchup
          ELSE active' = active \ {w} /\ catchup' = [catchup EXCEPT ![w] = {}]
       /\ shown' = [e \in DOMAIN shown \cup ToSet(send[w]) |->
                      IF e \in ToSet(send[w]) THEN t ELSE shown[e]]
  /\ counter' = [counter EXCEPT ![w] = @ + Len(send[w])]
  /\ send' = [send EXCEPT ![w] = <<>>]
  /\ UNCHANGED <<pusher, alive, recv, arrived, recvd, frontier, notified>>

\* The source of a dropped Sequencer gives up its capability.
GiveUp(w) ==
  /\ w \in active \ alive
  /\ active' = active \ {w}
  /\ cap' = [cap EXCEPT ![w] = {}]
  /\ UNCHANGED <<pusher, alive, send, recv, counter, catchup, flight, arrived, recvd, frontier,
                 notified, shown>>

\* A message reaches the worker, whose sink is activated.
Arrive(v, w) ==
  /\ flight[v][w] # <<>>
  /\ arrived' = [arrived EXCEPT ![w] = Append(@, Head(flight[v][w]))]
  /\ flight' = [flight EXCEPT ![v][w] = Tail(@)]
  /\ notified' = notified \cup {w}
  /\ UNCHANGED <<pusher, alive, send, recv, cap, counter, active, catchup, recvd, frontier,
                 shown>>

\* The worker's frontier moves, which also activates the sink.
Observe(w) ==
  /\ \E t \in frontier[w] + 1 .. MaxTime + 1 :
       /\ NothingBefore(t, w)
       /\ t <= MaxTime => ~NothingBefore(t + 1, w)
       /\ frontier' = [frontier EXCEPT ![w] = t]
  /\ notified' = notified \cup {w}
  /\ UNCHANGED <<pusher, alive, send, recv, cap, counter, active, catchup, flight, arrived,
                 recvd, shown>>

\* sort_by is stable: of what compares equal, the earlier of two positions goes first.
\* The key is (time, worker, counter), but the worker in a message is the one it
\* is sent to, the same for all that a sink sees.
NotAfter(m, n) == m.time < n.time \/ (m.time = n.time /\ m.counter <= n.counter)

Precedes(s, j, k) == IF j <= k THEN NotAfter(s[j], s[k]) ELSE ~NotAfter(s[k], s[j])

MutantSorted(s, ms) == s \o ms

\* What is received is put behind what is kept, and then all of it sorted.
Sorted(s, ms) ==
  LET all     == s \o ms
      rank(k) == Cardinality({j \in DOMAIN all : Precedes(all, j, k)})
  IN  [i \in 1 .. Len(all) |-> all[CHOOSE k \in DOMAIN all : rank(k) = i]]

\* The elements whose times the frontier has passed are counted, not looked for.
Released(s, f) == Cardinality({k \in 1 .. Len(s) : s[k].time < f})

\* A sink that trusts the sources to move by themselves.
MutantSink(w) ==
  /\ w \in notified
  /\ LET sorted == Sorted(recvd[w], arrived[w])
         n      == Released(sorted, frontier[w])
     IN  /\ recvd' = [recvd EXCEPT ![w] = SubSeq(sorted, n + 1, Len(sorted))]
         /\ recv' = [recv EXCEPT ![w] =
                       IF w \notin alive THEN @
                       ELSE @ \o [k \in 1 .. n |-> sorted[k].element]]
  /\ arrived' = [arrived EXCEPT ![w] = <<>>]
  /\ notified' = notified \ {w}
  /\ UNCHANGED <<pusher, alive, send, cap, counter, active, catchup, flight, frontier, shown>>

\* The sink: take in every message, make the source catch up with the last, and
\* release as many of the first as the frontier has passed.
Sink(w) ==
  /\ w \in notified
  /\ LET sorted == Sorted(recvd[w], arrived[w])
         n      == Released(sorted, frontier[w])
     IN  /\ IF sorted = <<>> THEN UNCHANGED <<active, catchup>>
            ELSE /\ catchup' = [catchup EXCEPT ![w] = {Last(sorted).time}]
                 /\ active' = active \cup {w}
         /\ recvd' = [recvd EXCEPT ![w] = SubSeq(sorted, n + 1, Len(sorted))]
         /\ recv' = [recv EXCEPT ![w] =
                       IF w \notin alive THEN @
                       ELSE @ \o [k \in 1 .. n |-> sorted[k].element]]
  /\ arrived' = [arrived EXCEPT ![w] = <<>>]
  /\ notified' = notified \ {w}
  /\ UNCHANGED <<pusher, alive, send, cap, counter, flight, frontier, shown>>

-----------------------------------------------------------------------------
\* Every operator is scheduled once when it is built.
Init ==
  /\ pusher = <<>>
  /\ alive = Worker
  /\ send = [w \in Worker |-> <<>>]
  /\ recv = [w \in Worker |-> <<>>]
  /\ cap = [w \in Worker |-> {0}]
  /\ counter = [w \in Worker |-> 0]
  /\ active = Worker
  /\ catchup = [w \in Worker |-> {}]
  /\ flight = [v \in Worker |-> [w \in Worker |-> <<>>]]
  /\ arrived = [w \in Worker |-> <<>>]
  /\ recvd = [w \in Worker |-> <<>>]
  /\ frontier = [w \in Worker |-> 0]
  /\ notified = Worker
  /\ shown = <<>>

Next ==
  \E w \in Worker :
    \/ Push(w) \/ Drop(w)
    \/ Sequence(w) \/ GiveUp(w)
    \/ Observe(w) \/ Sink(w)
    \/ \E v \in Worker : Arrive(v, w)

\* Workers keep stepping, messages arrive, and progress tracking makes progress;
\* nobody is obliged to push or to drop.
Fairness ==
  \A w \in Worker :
    /\ WF_vars(Sequence(w) \/ GiveUp(w))
    /\ WF_vars(\E v \in Worker : Arrive(v, w))
    /\ WF_vars(Observe(w))
    /\ WF_vars(Sink(w))

Spec == Init /\ [][Next]_vars /\ Fairness

-----------------------------------------------------------------------------
\* Each worker's own elements are handed out in the order it pushed them, and once.
OwnOrder(w) ==
  \A j, k \in 1 .. Len(recv[w]) :
    j < k /\ pusher[recv[w][j]] = pusher[recv[w][k]] => recv[w][j] < recv[w][k]

\* How many elements e's worker had pushed with e: the counter of its source at e.
Number(e) == Cardinality({d \in 1 .. e : pusher[d] = pusher[e]})

\* Nothing tells d from e: their workers sent them at one time, each as its n-th.
Tie(d, e) == shown[d] = shown[e] /\ Number(d) = Number(e)

\* "a consistent ordered sequence that is seen by all workers in the same order" comes to
\* this: the sort's second key, the worker, is the receiving one for all of them.  Of what
\* two workers have been handed, one is all among the other; and if one was handed d and
\* then e, another that was handed e was handed d as well, and before e unless they tie.
SameOrderButTies ==
  \A v, w \in Worker :
    /\ ToSet(recv[v]) \subseteq ToSet(recv[w]) \/ ToSet(recv[w]) \subseteq ToSet(recv[v])
    /\ \A i, j \in 1 .. Len(recv[w]), k \in 1 .. Len(recv[v]) :
         i < j /\ recv[v][k] = recv[w][j] =>
           \E l \in 1 .. Len(recv[v]) :
             recv[v][l] = recv[w][i] /\ (l < k \/ Tie(recv[w][i], recv[w][j]))
    /\ OwnOrder(w)

\* Whatever is pushed is handed to every worker that still listens, although the other
\* sources run only when something makes them and hold everyone back until they do:
\* with finitely many pushes, there are always later moments when none is waited for.
ElementsSequenced ==
  []<>(\A e \in 1 .. Len(pusher) :
         pusher[e] \in alive => \A w \in alive : e \in ToSet(recv[w]))

=============================================================================
