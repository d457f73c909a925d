------------------------------ MODULE Scheduling ------------------------------
(***************************************************************************)
(* How one worker finds out what to run, and when it may sleep             *)
(* (worker.rs: step_or_park; scheduling/activate.rs; subgraph.rs:          *)
(* schedule; communication/src/allocator/{thread,process,counters}.rs).    *)
(*                                                                         *)
(* A message pushed by another thread is put in its channel, announced in  *)
(* the worker's event queue, and the worker's thread is unparked, in three *)
(* steps.  Events become activations of the channel's operator.  Threads   *)
(* with a SyncActivator send paths and unpark.  Delayed activations wait   *)
(* for the clock.  The worker turns all these into a set of operators to   *)
(* run, or, if there is none, parks.                                       *)
(*                                                                         *)
(* One dataflow: its scope, and the operators in it.                       *)
(***************************************************************************)
EXTENDS Integers, FiniteSets, Sequences

CONSTANTS
  Operator,        \* the operators of the scope, by index
  Peer,            \* the other threads of the process, which push messages
  Waker,           \* the threads that hold a SyncActivator
  WakerTarget(_),  \* the operator it is for
  HandleTarget,    \* the operators that have an input handle or an Activator
  TimerTarget,     \* those whose Activator is used with a delay
  RemoteChannel,   \* the channels that peers push to
  LocalChannel,    \* the channels that this worker's own operators push to
  LoggedChannel,   \* the local channels that a registered log action feeds
  TargetOf(_),     \* the operator that reads a channel; the scope for progress
  SourceOf(_),     \* the operator that pushes to a local channel
  MaxQueue         \* bound on the messages waiting in a channel

Scope == 0

Task == Operator \cup {Scope}

Channel == RemoteChannel \cup LocalChannel

ASSUME ShapeAssumption ==
  /\ Operator \subseteq Nat \ {0}
  /\ RemoteChannel \cap LocalChannel = {}
  /\ LoggedChannel \subseteq LocalChannel
  /\ HandleTarget \cup TimerTarget \cup {WakerTarget(a) : a \in Waker} \subseteq Operator
  /\ \A c \in Channel : TargetOf(c) \in Task
  /\ \A c \in LocalChannel : SourceOf(c) \in Operator

VARIABLES
  built,      \* the dataflow exists: its channels have paths
  queue,      \* queue[c]: messages waiting in channel c
  counters,   \* channels announced by other threads (counters_recv)
  events,     \* channels with an event in the worker's own queue
  rx,         \* tasks sent by SyncActivators
  clean,      \* the activations presented by the last `advance'
  fresh,      \* those made since
  delayed,    \* the tasks of delayed activations
  due,        \* those of them whose moment has come
  temp_active,\* the operators this schedule call has yet to run
  pc,         \* where the worker is in step_or_park
  timed,      \* whether it parked with a timeout
  token,      \* the thread's park token
  pushing,    \* pushing[p]: the channel a peer is pushing to and the step it is at
  waking      \* the wakers that have sent a path and not yet unparked

inbox == <<queue, counters, events, rx>>
active == <<clean, fresh, delayed, due, temp_active>>
worker == <<built, pc, timed>>
threads == <<pushing, waking>>

vars == <<inbox, active, worker, token, threads>>

Nowhere == <<>>

-----------------------------------------------------------------------------
(* Messages *)

Full(c) == queue[c] >= MaxQueue

\* The channels of `fed' have each received a message.
Fed(fed) == [c \in Channel |-> IF c \in fed THEN queue[c] + 1 ELSE queue[c]]

\* What an operator leaves of a channel it reads: it pulls until there is no more.
Drained(c) == 0

\* Channel c was not empty when `tasks' read their channels; Puller::pull then
\* pushes an event of its own.
Read(tasks) == {c \in Channel : TargetOf(c) \in tasks /\ queue[c] > 0}

-----------------------------------------------------------------------------
(* Other threads *)

MutantPushOrder == <<"announce", "push", "buzz">>

\* "These three calls should happen in this order, to ensure that we first enqueue
\* data, second enqueue interest in the channel, and finally awaken the thread."
PushOrder == <<"push", "announce", "buzz">>

\* ArcPusher::push, its next call.
ArcPush(p, c) ==
  LET at   == IF pushing[p] = Nowhere THEN <<c, 1>> ELSE pushing[p]
      call == PushOrder[at[2]]
  IN  /\ at[1] = c
      /\ at[2] = 1 => ~Full(c)
      /\ queue' = IF call = "push" THEN Fed({c}) ELSE queue
      /\ counters' = IF call = "announce" THEN counters \cup {c} ELSE counters
      /\ token' = (token \/ call = "buzz")
      /\ pushing' = [pushing EXCEPT ![p] = IF at[2] = Len(PushOrder) THEN Nowhere
                                           ELSE <<c, at[2] + 1>>]
      /\ UNCHANGED <<events, rx, active, worker, waking>>

\* SyncActivations::activate_batch, its two calls.
SyncActivate(a) ==
  /\ built
  /\ a \notin waking
  /\ rx' = rx \cup {WakerTarget(a)}
  /\ waking' = waking \cup {a}
  /\ UNCHANGED <<queue, counters, events, active, worker, token, pushing>>

Unpark(a) ==
  /\ a \in waking
  /\ token' = TRUE
  /\ waking' = waking \ {a}
  /\ UNCHANGED <<inbox, active, worker, pushing>>

\* The clock reaches the moment of a delayed activation.
Elapse(n) ==
  /\ n \in delayed \ due
  /\ due' = due \cup {n}
  /\ UNCHANGED <<inbox, clean, fresh, delayed, temp_active, worker, token, threads>>

-----------------------------------------------------------------------------
(* The program between steps *)

\* dataflow_core: every operator is activated and scheduled once, the scope is
\* activated; operators read what other workers have sent already and may produce.
Build(fed) ==
  LET read == Read(Operator)
  IN  /\ pc = "idle" /\ ~built
      /\ \A c \in fed : ~Full(c)
      /\ built' = TRUE
      /\ queue' = [c \in Channel |-> (IF c \in fed THEN 1 ELSE 0) +
                     (IF TargetOf(c) \in Operator THEN Drained(c) ELSE queue[c])]
      /\ events' = events \cup read \cup fed
      /\ fresh' = fresh \cup Task
      /\ UNCHANGED <<counters, rx, clean, delayed, due, temp_active, pc, timed, token,
                     threads>>

\* An input handle or an Activator activates an operator, now or after a delay.
Activate(n) ==
  /\ pc = "idle" /\ built
  /\ n \in HandleTarget \ fresh
  /\ fresh' = fresh \cup {n}
  /\ UNCHANGED <<inbox, clean, delayed, due, temp_active, worker, token, threads>>

ActivateAfter(n) ==
  /\ pc = "idle" /\ built
  /\ n \in TimerTarget \ delayed
  /\ delayed' = delayed \cup {n}
  /\ UNCHANGED <<inbox, clean, fresh, due, temp_active, worker, token, threads>>

-----------------------------------------------------------------------------
(* step_or_park *)

\* allocator.receive moves the announcements to the worker's events; each event
\* activates the path of its channel, if the channel has been allocated.
Receive ==
  LET all == events \cup counters
      activated == {TargetOf(c) : c \in IF built THEN all ELSE {}}
  IN  /\ pc = "idle"
      /\ counters' = {}
      /\ events' = {}
      /\ fresh' = fresh \cup activated
      /\ pc' = "advance"
      /\ UNCHANGED <<queue, rx, clean, delayed, due, temp_active, built, timed, token,
                     threads>>

MutantAdvance ==
  /\ pc = "advance"
  /\ clean' = rx \cup due
  /\ fresh' = {}
  /\ rx' = {}
  /\ delayed' = delayed \ due
  /\ due' = {}
  /\ pc' = "decide"
  /\ UNCHANGED <<queue, counters, events, temp_active, built, timed, token, threads>>

\* Activations::advance: what was presented before is discarded, everything since,
\* from other threads and from the clock is presented.
Advance ==
  /\ pc = "advance"
  /\ clean' = fresh \cup rx \cup due
  /\ fresh' = {}
  /\ rx' = {}
  /\ delayed' = delayed \ due
  /\ due' = {}
  /\ pc' = "decide"
  /\ UNCHANGED <<queue, counters, events, temp_active, built, timed, token, threads>>

MutantMaySleep == built

\* empty_for is not zero.
MaySleep == built /\ clean = {} /\ due = {}

\* The caller's duration allows to park: flush the log, whose actions may feed local
\* channels, then wait for events.
DecideToPark(fed) ==
  /\ pc = "decide"
  /\ MaySleep
  /\ \A c \in fed : ~Full(c)
  /\ queue' = Fed(fed)
  /\ events' = events \cup fed
  /\ timed' \in IF delayed = {} THEN BOOLEAN ELSE {TRUE}
  /\ pc' = "await"
  /\ UNCHANGED <<counters, rx, active, built, token, threads>>

\* There is something to run, or the caller's duration is zero: step the dataflow if
\* it or something in it is active.
DecideToRun ==
  /\ pc = "decide"
  /\ pc' = IF built /\ clean # {} THEN "step" ELSE "idle"
  /\ UNCHANGED <<inbox, active, built, timed, token, threads>>

\* await_events: park unless there are events.
AwaitEvents ==
  /\ pc = "await"
  /\ pc' = IF events = {} THEN "parked" ELSE "idle"
  /\ timed' = (timed /\ events = {})
  /\ UNCHANGED <<inbox, active, built, token, threads>>

\* park returns when there is a token, and takes it, or when the timeout expires.
Unparked ==
  /\ pc = "parked"
  /\ token \/ timed
  /\ token' = FALSE
  /\ timed' = FALSE
  /\ pc' = "idle"
  /\ UNCHANGED <<inbox, active, built, threads>>

\* The first half of Subgraph::schedule: receive progress, which may move the frontiers
\* of some operators, and take the active operators.  for_extensions searches what was
\* presented; what has been activated since follows it in the list and may be included.
\* (Nothing looks at what was presented after that, until `advance' discards it; the
\* model discards it here.)
BeginSchedule(moved, since) ==
  LET read == Read({Scope})
  IN  /\ pc = "step"
      /\ moved # {} => read # {}
      /\ since \subseteq fresh
      /\ queue' = [c \in Channel |-> IF c \in read THEN Drained(c) ELSE queue[c]]
      /\ events' = events \cup read
      /\ temp_active' = (clean \cup moved \cup since) \ {Scope}
      /\ pc' = "schedule"
      /\ clean' = {}
      /\ UNCHANGED <<counters, rx, fresh, delayed, due, built, timed, token, threads>>

\* The operator of least index runs: it reads its channels, may produce messages and
\* may activate itself.  Those it has produced for are scheduled in this call too
\* unless their index has gone by ("De-duplicate, and don't revisit").
RunOperator(n, fed, again) ==
  LET mine == {c \in Channel : TargetOf(c) = n}
      targets == {TargetOf(c) : c \in fed}
  IN  /\ pc = "schedule"
      /\ n \in temp_active /\ \A m \in temp_active : n <= m
      /\ \A c \in fed : SourceOf(c) = n /\ ~Full(c)
      /\ queue' = [c \in Channel |-> (IF c \in fed THEN 1 ELSE 0) +
                                     (IF c \in mine THEN Drained(c) ELSE queue[c])]
      /\ events' = events \cup Read({n}) \cup fed
      /\ temp_active' = {m \in temp_active \cup targets : m > n}
      /\ fresh' = IF again THEN fresh \cup {n} ELSE fresh
      /\ UNCHANGED <<counters, rx, clean, delayed, due, worker, token, threads>>

\* The end of schedule.  final_pointstamp is not empty when the children are scopes with
\* changes of their own: the scope then activates itself.
EndSchedule(again) ==
  /\ pc = "schedule" /\ temp_active = {}
  /\ fresh' = IF again THEN fresh \cup {Scope} ELSE fresh
  /\ pc' = "idle"
  /\ UNCHANGED <<inbox, clean, delayed, due, temp_active, built, timed, token, threads>>

-----------------------------------------------------------------------------
Init ==
  /\ built = FALSE
  /\ queue = [c \in Channel |-> 0]
  /\ counters = {} /\ events = {} /\ rx = {}
  /\ clean = {} /\ fresh = {} /\ delayed = {} /\ due = {} /\ temp_active = {}
  /\ pc = "idle" /\ timed = FALSE /\ token = FALSE
  /\ pushing = [p \in Peer |-> Nowhere]
  /\ waking = {}

WorkerStep ==
  \/ Receive \/ Advance
  \/ \E fed \in SUBSET LoggedChannel : DecideToPark(fed)
  \/ DecideToRun \/ AwaitEvents \/ Unparked
  \/ \E moved, since \in SUBSET Operator : BeginSchedule(moved, since)
  \/ \E n \in Operator, fed \in SUBSET LocalChannel, again \in BOOLEAN :
       RunOperator(n, fed, again)
  \/ \E again \in BOOLEAN : EndSchedule(again)

Next ==
  \/ WorkerStep
  \/ \E fed \in SUBSET LocalChannel : Build(fed)
  \/ \E n \in Operator : Activate(n) \/ ActivateAfter(n)
  \/ \E p \in Peer, c \in RemoteChannel : ArcPush(p, c)
  \/ \E a \in Waker : SyncActivate(a) \/ Unpark(a)
  \/ \E n \in Operator : Elapse(n)

\* The program keeps calling step_or_park, with whatever durations; a thread that has
\* begun to push or to activate finishes; time passes.
Fairness ==
  /\ WF_vars(WorkerStep)
  /\ \A p \in Peer : WF_vars(pushing[p] # Nowhere /\ \E c \in RemoteChannel : ArcPush(p, c))
  /\ \A a \in Waker : WF_vars(Unpark(a))
  /\ \A n \in Operator : WF_vars(Elapse(n))

Spec == Init /\ [][Next]_vars /\ Fairness

-----------------------------------------------------------------------------
TypeOK ==
  /\ built \in BOOLEAN /\ timed \in BOOLEAN /\ token \in BOOLEAN
  /\ queue \in [Channel -> Nat]
  /\ counters \subseteq RemoteChannel
  /\ events \subseteq Channel
  /\ rx \subseteq Operator
  /\ clean \subseteq Task /\ fresh \subseteq Task
  /\ delayed \subseteq Operator /\ due \subseteq delayed
  /\ temp_active \subseteq Operator
  /\ pc \in {"idle", "advance", "decide", "await", "parked", "step", "schedule"}
  /\ pushing \in [Peer -> {Nowhere} \cup (RemoteChannel \X (1 .. Len(PushOrder)))]
  /\ waking \subseteq Waker

\* No lost wakeup: a worker that sleeps with no timeout and no token has nothing left
\* to do, unless the thread that gave it something has yet to make its last call, the
\* one that wakes it; and with delayed activations it never sleeps without timeout.
SleepsOnlyWhenIdle ==
  pc = "parked" /\ ~token =>
    /\ events = {} /\ clean = {} /\ fresh = {}
    /\ rx # {} => waking # {}
    /\ \A c \in Channel : queue[c] > 0 => \E p \in Peer : pushing[p] # Nowhere
    /\ delayed # {} => timed

\* A message in a channel of the dataflow is eventually read, whoever sent it and when:
\* before the dataflow was built, while its reader ran, or as the worker was about to
\* sleep; also along a channel to an operator of lower index.
MessagesRead ==
  \A c \in Channel : built /\ queue[c] > 0 ~> queue[c] = 0

\* Whoever asks for a task: an operator that runs, a handle, another thread, the clock,
\* or a channel of the built dataflow that was announced.
Requested(n) ==
  \/ n \in fresh \cup rx \cup delayed
  \/ built /\ \E c \in events \cup counters : TargetOf(c) = n

\* A request is never forgotten: a schedule call that has yet to run the operator comes
\* after it, whether it was made between steps, by another thread at any moment, or by
\* an operator while the worker was going through its list.
ActivationsHonoured ==
  /\ \A n \in Operator : Requested(n) ~> n \in temp_active
  /\ Requested(Scope) ~> pc = "step"

=============================================================================
