--------------------------- MODULE ProgressTracking ---------------------------
(***************************************************************************)
(* The progress-tracking protocol of one dataflow scope, run by several    *)
(* workers (progress/subgraph.rs, progress/broadcast.rs, and the operators *)
(* as far as progress sees them).                                          *)
(*                                                                         *)
(* Each worker runs its own copy of the scope.  Running an operator sends  *)
(* and receives records and changes the capabilities held; these changes   *)
(* gather in the worker's local_pointstamp, are broadcast as one batch at  *)
(* the end of Subgraph::schedule, and reach every worker's tracker, the    *)
(* sender's own included, when that worker next receives.  Records travel  *)
(* on channels of their own and overtake the batches that announce them.   *)
(*                                                                         *)
(* The tracker's propagation is represented by its result, the minimal     *)
(* times that could still reach each port.                                 *)
(***************************************************************************)
EXTENDS Integers, Sequences, Functions, FiniteSets

CONSTANTS
  Worker,
  Node,             \* the operators of the scope, by index
  InputNode,        \* the operators driven by an input handle
  Source, Target,   \* output and input ports
  Reserving,        \* the outputs whose initial capability is not given up while the
                    \* dataflow is built (the model starts when all workers know that
                    \* the others are)
  NodeOf(_),        \* the operator a port belongs to
  Edge,             \* the channels, pairs <<source, target>>
  Time,             \* the timestamps
  Leq(_, _),        \* PartialOrder::less_equal
  Minimum,          \* Timestamp::minimum()
  Internal(_, _, _),\* Internal(target, source, t): the results_in of t under each
                    \* summary of internal_summary[target][source]
  EagerModes,       \* the values DEFAULT_PROGRESS_MODE may give eager_progress_send
  MaxRecords        \* bound on the records sent in all

Port == Source \cup Target

Pointstamp == {<<port, t>> : port \in Port, t \in Time}

Less(s, t) == Leq(s, t) /\ s # t

Idle == -1  \* no schedule call is running

ASSUME GraphAssumption ==
  /\ Edge \subseteq Source \X Target
  /\ Source \cap Target = {}
  /\ InputNode \subseteq Node
  /\ Reserving \subseteq Source
  /\ Node \subseteq Nat \ {0}
  /\ \A p \in Port : NodeOf(p) \in Node
  /\ Minimum \in Time /\ \A t \in Time : Leq(Minimum, t)
  /\ EagerModes \subseteq BOOLEAN
  /\ \A g \in Target, s \in Source, t \in Time :
       /\ Internal(g, s, t) \subseteq Time
       /\ Internal(g, s, t) # {} => NodeOf(g) = NodeOf(s)
  /\ MaxRecords \in Nat
  /\ IsFiniteSet(Worker) /\ IsFiniteSet(InputNode)

\* less_equal is an order, and results_in keeps it: a summary takes an earlier time to
\* an earlier one, and one that yields a time yields one for every earlier time too
\* (checked_add overflows last at the latest).
ASSUME OrderAssumption ==
  /\ \A s \in Time : Leq(s, s)
  /\ \A r, s, t \in Time : Leq(r, s) /\ Leq(s, t) => Leq(r, t)
  /\ \A g \in Target, p \in Source, s, t \in Time :
       Leq(s, t) => \A t2 \in Internal(g, p, t) : \E s2 \in Internal(g, p, s) : Leq(s2, t2)

VARIABLES
  eager,     \* eager[w]: eager_progress_send of w's process
  caps,      \* caps[w][p]: capabilities worker w holds at <<source, time>>
  queue,     \* queue[w][p]: records waiting at <<target, time>> for worker w
  sent,      \* the number of records sent so far (bounds the model)
  pending,   \* pending[w][n]: pointstamp changes of input handle n of w that its
             \* operator has not yet reported
  local,     \* local[w]: local_pointstamp
  net,       \* net[w][v]: batches broadcast by w that v has not yet received
  known,     \* known[w]: pointstamp counts of w's tracker
  cursor     \* cursor[w]: Idle, 0 once schedule started, or the running operator

vars == <<eager, caps, queue, sent, pending, local, net, known, cursor>>

-----------------------------------------------------------------------------
(* Pointstamp counts: ChangeBatch as the sum it represents *)

Zero == [p \in Pointstamp |-> 0]

Plus(a, b) == [p \in Pointstamp |-> a[p] + b[p]]

Sum(batches) ==
  [p \in Pointstamp |-> SumFunction([i \in 1 .. Len(batches) |-> batches[i][p]])]

Change(p, delta) == [Zero EXCEPT ![p] = delta]

-----------------------------------------------------------------------------
(* What the tracker makes of a set of counts *)

\* One step of a pointstamp through the scope: along an edge, or across an
\* operator by one of its summaries.
Step(p) ==
  {q \in Pointstamp :
     \/ <<p[1], q[1]>> \in Edge /\ q[2] = p[2]
     \/ p[1] \in Target /\ q[1] \in Source /\ q[2] \in Internal(p[1], q[1], p[2])}

\* The pointstamps p leads to in some number of steps: what is in every set that
\* holds p and the steps from its members.
ReachedFrom(p) ==
  {q \in Pointstamp :
     \A S \in SUBSET Pointstamp :
       p \in S /\ (\A r \in S : Step(r) \subseteq S) => q \in S}

\* Pairs <<p, Q>>: Q is what p could result in, what it leads to and later times at
\* those ports.
CouldResultIn ==
  {<<p, {q \in Pointstamp : \E e \in ReachedFrom(p) : e[1] = q[1] /\ Leq(e[2], q[2])}>> :
     p \in Pointstamp}

LeadsTo(p, q) == \E c \in CouldResultIn : c[1] = p /\ q \in c[2]

\* The builder refuses a scope with a cycle whose summaries do not advance the time,
\* and times do not decrease for ever: among any pointstamps there is one that no
\* other leads to.
ASSUME AcyclicAssumption ==
  \A S \in SUBSET Pointstamp :
    S # {} => \E first \in S : \A p \in S : LeadsTo(p, first) => p = first

MinimalTimes(S) == {t \in S : \A s \in S : Leq(s, t) => s = t}

\* PortInformation.pointstamps: the frontier of the positive counts at a port.
PointstampFrontier(counts, port) ==
  MinimalTimes({t \in Time : counts[<<port, t>>] > 0})

\* PortInformation.implications, what the worklist of propagate_all converges to
\* (a time above the pointstamp frontier implies nothing its lower ones do not).
Implications(counts) ==
  LET implied == UNION {c[2] : c \in {d \in CouldResultIn : counts[d[1]] > 0}}
  IN  [port \in Port |-> MinimalTimes({t \in Time : <<port, t>> \in implied})]

\* implications.count_for: one for the port's own pointstamp frontier and one for
\* each implied time of a predecessor that steps here.
ImplicationCount(counts, implied, p) ==
  LET preds == {q \in Pointstamp : q[2] \in implied[q[1]] /\ p \in Step(q)}
      own   == IF p[2] \in PointstampFrontier(counts, p[1]) THEN 1 ELSE 0
  IN  own + Cardinality(preds)

MutantIsGlobal(counts, p) ==
  LET implied   == Implications(counts)
      dominated == \E t \in implied[p[1]] : Less(t, p[2])
      redundant == ImplicationCount(counts, implied, p) >= 1
  IN  ~dominated /\ ~redundant

\* is_global: the pointstamp is minimal among the implications and no other
\* implication backs it.
IsGlobal(counts, p) ==
  LET implied   == Implications(counts)
      dominated == \E t \in implied[p[1]] : Less(t, p[2])
      redundant == ImplicationCount(counts, implied, p) > 1
  IN  ~dominated /\ ~redundant

-----------------------------------------------------------------------------
(* Initial state *)

MutantInitialCount ==
  [p \in Pointstamp |-> IF p \in Reserving \X {Minimum} THEN 1 ELSE 0]

\* Every operator reports, on every worker, `peers' capabilities at the minimum time
\* for each of its outputs, one for each worker's copy, and these are committed
\* without being sent.
InitialCount ==
  [p \in Pointstamp |->
     IF p \in Reserving \X {Minimum} THEN Cardinality(Worker) ELSE 0]

Init ==
  /\ eager \in [Worker -> EagerModes]
  /\ caps = [w \in Worker |-> [p \in Source \X Time |->
               IF p \in Reserving \X {Minimum} THEN 1 ELSE 0]]
  /\ queue = [w \in Worker |-> [p \in Target \X Time |-> 0]]
  /\ sent = 0
  /\ pending = [w \in Worker |-> [n \in InputNode |-> Zero]]
  /\ local = [w \in Worker |-> Zero]
  /\ net = [w \in Worker |-> [v \in Worker |-> << >>]]
  /\ known = [w \in Worker |-> InitialCount]
  /\ cursor = [w \in Worker |-> Idle]

-----------------------------------------------------------------------------
(* Records and capabilities *)

\* Whether the code of operator n on worker w may run now: input handles between
\* schedule calls, other operators inside their own activation.
MayRun(w, n) == cursor[w] = IF n \in InputNode THEN Idle ELSE n

\* Account for a change of operator n: input handles hand theirs to the operator,
\* running operators have theirs extracted by this schedule call.
Account(w, n, change) ==
  IF n \in InputNode
  THEN /\ pending' = [pending EXCEPT ![w][n] = Plus(@, change)]
       /\ UNCHANGED local
  ELSE /\ local' = [local EXCEPT ![w] = Plus(@, change)]
       /\ UNCHANGED pending

\* A record is sent at a held capability.  The tee gives a copy to each channel of
\* the source and the channel picks the worker; each copy counts as produced at its
\* target.
SendRecord(w, s, t) ==
  LET targets == {g \in Target : <<s, g>> \in Edge}
  IN  /\ MayRun(w, NodeOf(s))
      /\ caps[w][<<s, t>>] > 0
      /\ targets # {}
      /\ sent < MaxRecords
      /\ \E route \in [targets -> Worker] :
           queue' = [v \in Worker |-> [p \in Target \X Time |->
                       IF p[1] \in targets /\ p[2] = t /\ route[p[1]] = v
                       THEN queue[v][p] + 1 ELSE queue[v][p]]]
      /\ sent' = sent + 1
      /\ Account(w, NodeOf(s), [p \in Pointstamp |->
                                  IF p \in targets \X {t} THEN 1 ELSE 0])
      /\ UNCHANGED <<eager, caps, net, known, cursor>>

\* A running operator takes a record; the record's time lets it keep, for each of
\* its outputs in `kept', a capability its summaries allow from that time.
ReceiveRecord(w, g, t) ==
  /\ MayRun(w, NodeOf(g))
  /\ queue[w][<<g, t>>] > 0
  /\ queue' = [queue EXCEPT ![w][<<g, t>>] = @ - 1]
  /\ \E kept \in SUBSET {p \in Source \X Time : p[2] \in Internal(g, p[1], t)} :
       /\ caps' = [caps EXCEPT ![w] = [p \in Source \X Time |->
                     IF p \in kept THEN @[p] + 1 ELSE @[p]]]
       /\ Account(w, NodeOf(g),
            [p \in Pointstamp |-> IF p = <<g, t>> THEN -1
                                  ELSE IF p \in kept THEN 1 ELSE 0])
  /\ UNCHANGED <<eager, sent, net, known, cursor>>

\* Capability::downgrade, Handle::advance_to: only to a time not before the held one.
Downgrade(w, s, t, later) ==
  /\ MayRun(w, NodeOf(s))
  /\ caps[w][<<s, t>>] > 0
  /\ Less(t, later)
  /\ caps' = [caps EXCEPT ![w][<<s, t>>] = @ - 1, ![w][<<s, later>>] = @ + 1]
  /\ Account(w, NodeOf(s), Plus(Change(<<s, t>>, -1), Change(<<s, later>>, 1)))
  /\ UNCHANGED <<eager, queue, sent, net, known, cursor>>

\* Dropping a capability; closing an input handle.
Drop(w, s, t) ==
  /\ MayRun(w, NodeOf(s))
  /\ caps[w][<<s, t>>] > 0
  /\ caps' = [caps EXCEPT ![w][<<s, t>>] = @ - 1]
  /\ Account(w, NodeOf(s), Change(<<s, t>>, -1))
  /\ UNCHANGED <<eager, queue, sent, net, known, cursor>>

-----------------------------------------------------------------------------
(* Subgraph::schedule *)

\* Whether running operator n on worker w could change anything tracked here.
HasWork(w, n) ==
  \/ \E p \in Target \X Time : NodeOf(p[1]) = n /\ queue[w][p] > 0
  \/ \E p \in Source \X Time : NodeOf(p[1]) = n /\ n \notin InputNode /\ caps[w][p] > 0
  \/ n \in InputNode /\ pending[w][n] # Zero

\* The first half of schedule: progcaster.recv takes the batches that have arrived
\* (take[v] of those from v) and propagate_pointstamps commits them to the tracker.
\* The worker calls schedule when an operator of the scope was activated or a batch
\* has arrived.  Its own batches have always arrived: the worker flushes what it sent
\* (release) at the end of a step and takes in what reached it (receive) at the start
\* of the next.
BeginSchedule(w, take) ==
  /\ cursor[w] = Idle
  /\ \/ \E n \in Node : HasWork(w, n)
     \/ \E v \in Worker : take[v] > 0
  /\ take[w] = Len(net[w][w])
  /\ \A v \in Worker : take[v] <= Len(net[v][w])
  /\ known' = [known EXCEPT ![w] =
       [p \in Pointstamp |-> @[p] +
          SumFunction([v \in Worker |-> Sum(SubSeq(net[v][w], 1, take[v]))[p]])]]
  /\ net' = [v \in Worker |-> [net[v] EXCEPT ![w] = SubSeq(@, take[v] + 1, Len(@))]]
  /\ cursor' = [cursor EXCEPT ![w] = 0]
  /\ UNCHANGED <<eager, caps, queue, sent, pending, local>>

\* activate_child, in index order and each operator at most once; which ones is left
\* open ("We should be able to schedule arbitrary subsets of children, as long as we
\* eventually schedule all children that need to do work").  An input operator does
\* no more than report what its handle gathered.
ActivateChild(w, n) ==
  /\ cursor[w] # Idle
  /\ cursor[w] < n
  /\ HasWork(w, n)
  /\ IF n \in InputNode
     THEN /\ local' = [local EXCEPT ![w] = Plus(@, pending[w][n])]
          /\ pending' = [pending EXCEPT ![w][n] = Zero]
     ELSE UNCHANGED <<local, pending>>
  /\ cursor' = [cursor EXCEPT ![w] = n]
  /\ UNCHANGED <<eager, caps, queue, sent, net, known>>

\* send_progress: everything or nothing.  All updates go in one batch to every
\* worker when the mode is eager or some subtraction is visible scope-wide.
MustSend(w) ==
  \/ eager[w]
  \/ \E p \in Pointstamp : local[w][p] < 0 /\ IsGlobal(known[w], p)

Broadcast(w, batch) ==
  net' = [net EXCEPT ![w] =
            IF batch = Zero THEN @ ELSE [v \in Worker |-> Append(@[v], batch)]]

\* Sending only the subtractions and keeping the additions for later.
MutantSendProgress(w) ==
  LET negative == [p \in Pointstamp |-> IF local[w][p] < 0 THEN local[w][p] ELSE 0]
      positive == [p \in Pointstamp |-> IF local[w][p] > 0 THEN local[w][p] ELSE 0]
  IN  IF eager[w]
      THEN Broadcast(w, local[w]) /\ local' = [local EXCEPT ![w] = Zero]
      ELSE Broadcast(w, negative) /\ local' = [local EXCEPT ![w] = positive]

SendProgress(w) ==
  IF MustSend(w)
  THEN Broadcast(w, local[w]) /\ local' = [local EXCEPT ![w] = Zero]
  ELSE UNCHANGED <<net, local>>

\* The end of schedule.
EndSchedule(w) ==
  /\ cursor[w] # Idle
  /\ SendProgress(w)
  /\ cursor' = [cursor EXCEPT ![w] = Idle]
  /\ UNCHANGED <<eager, caps, queue, sent, pending, known>>

-----------------------------------------------------------------------------
Takes(w) == {take \in [Worker -> UNION {0 .. Len(net[v][w]) : v \in Worker}] :
               \A v \in Worker : take[v] <= Len(net[v][w])}

Next ==
  \E w \in Worker :
    \/ \E s \in Source, t \in Time : SendRecord(w, s, t) \/ Drop(w, s, t)
    \/ \E s \in Source, t, later \in Time : Downgrade(w, s, t, later)
    \/ \E g \in Target, t \in Time : ReceiveRecord(w, g, t)
    \/ \E take \in Takes(w) : BeginSchedule(w, take)
    \/ \E n \in Node : ActivateChild(w, n)
    \/ EndSchedule(w)

ReportEpoch(w, n) ==
  (\E p \in Pointstamp : pending[w][n][p] < 0) /\ ActivateChild(w, n)

Receive(w, v) == \E take \in Takes(w) : take[v] > 0 /\ BeginSchedule(w, take)

\* Workers keep stepping while a dataflow is live, a schedule call finishes, a batch
\* that was sent is among those some later call receives, and a handle that gives
\* up a time activates its operator (close_epoch).  Nothing obliges user code to
\* send, receive, downgrade or drop.
Fairness ==
  \A w \in Worker :
    /\ WF_vars(\E take \in Takes(w) : BeginSchedule(w, take))
    /\ \A v \in Worker : SF_vars(Receive(w, v))
    /\ \A n \in InputNode : SF_vars(ReportEpoch(w, n))
    /\ WF_vars(EndSchedule(w))

Spec == Init /\ [][Next]_vars /\ Fairness

-----------------------------------------------------------------------------
(* Properties *)

Batch == [Pointstamp -> Int]

TypeOK ==
  /\ eager \in [Worker -> BOOLEAN]
  /\ caps \in [Worker -> [Source \X Time -> Nat]]
  /\ queue \in [Worker -> [Target \X Time -> Nat]]
  /\ sent \in 0 .. MaxRecords
  /\ pending \in [Worker -> [InputNode -> Batch]]
  /\ local \in [Worker -> Batch]
  /\ net \in [Worker -> [Worker -> Seq(Batch)]]
  /\ known \in [Worker -> Batch]
  /\ cursor \in [Worker -> {Idle, 0} \cup Node]

\* How many capabilities or unprocessed records there really are at a pointstamp,
\* over all workers.
Held ==
  [p \in Pointstamp |->
     SumFunction([w \in Worker |-> IF p[1] \in Source THEN caps[w][p] ELSE queue[w][p]])]

Outstanding ==
  {p \in Pointstamp :
     \E w \in Worker : (IF p[1] \in Source THEN caps[w][p] ELSE queue[w][p]) > 0}

\* What could still happen.
Open ==
  LET P == Outstanding IN UNION {c[2] : c \in {d \in CouldResultIn : d[1] \in P}}

Unreported(w) ==
  [p \in Pointstamp |-> SumFunction([n \in InputNode |-> pending[w][n][p]])]

Unsent(w) == Plus(local[w], Unreported(w))

\* Nothing is lost and nothing counted twice: for every worker, what its tracker
\* knows, what is on its way to it, and what any worker has yet to broadcast add up
\* to the capabilities and records that exist.
CountsConserved ==
  \A v \in Worker, p \in Pointstamp :
    Held[p] = known[v][p] +
                SumFunction([w \in Worker |-> Sum(net[w][v])[p] + Unsent(w)[p]])

\* The state of all workers together is one in which nothing was dropped or made up.
Consistent == TypeOK /\ CountsConserved

\* What worker w's frontiers have passed: the times not at or after an implication.
Passed(w) ==
  Pointstamp \ UNION {c[2] : c \in {d \in CouldResultIn : known[w][d[1]] > 0}}

\* The promise of a frontier: no worker's frontier at any port has passed a time at
\* which some record or capability, anywhere, could still produce something.  It
\* holds although trackers lag, batches arrive in any interleaving, records overtake
\* their batches and counts turn negative on the way.
FrontiersSafe == LET open == Open IN \A w \in Worker : open \cap Passed(w) = {}

\* Once nothing outstanding could reach a port at a time, every worker's frontier
\* there eventually passes it, also when updates are withheld until they are visible
\* scope-wide (DEFAULT_PROGRESS_MODE=DEMAND).  (What is closed stays closed.)
FrontiersProgress ==
  []<>(LET closed == Pointstamp \ Open IN \A w \in Worker : closed \subseteq Passed(w))

\* The protocol implements the promise: whatever the trackers of the workers know
\* at any moment, no step of any worker can be told from one of an observer who sees
\* the whole computation at once.
Promise ==
  INSTANCE ProgressSpec WITH
    outstanding <- Outstanding,
    passed <- [w \in Worker |-> Passed(w)]

ImplementsPromise == Promise!Spec

=============================================================================
