--------------------------- MODULE ComponentsProofs ---------------------------
(***************************************************************************)
(* Proofs about the components that MCComponents checks.                   *)
(*                                                                         *)
(* Notifications: for every partial order of times, every total order that *)
(* extends it, any number of messages and requests, and each operator.     *)
(* Startup: for every number of processes and of workers in each.          *)
(* ChangeBatch: for every total order of times, any changes, and any       *)
(* length at which a list is compacted.                                    *)
(* Logging: for any destinations, events, and length of a buffer.          *)
(* Capturing: for any number of captured streams, of times and messages.   *)
(***************************************************************************)
EXTENDS MCComponents, SequenceTheorems, FiniteSetTheorems, TLAPS


-----------------------------------------------------------------------------
(* Counts of capabilities *)

CountTypes ==
  /\ pending \in [Time -> Nat] /\ available \in [Time -> Nat]
  /\ internal \in [Time -> Int] /\ reported \in [Time -> Int]

Counted == CountTypes /\ CapabilitiesCounted

\* Merging the requests for a time, or moving them to the heap, drops as many
\* capabilities as it forgets requests.
LEMMA MergingCounts ==
  ASSUME Counted, NEW fs, NEW m, m = MadeAvailable(fs)
  PROVE  /\ m.pending \in [Time -> Nat] /\ m.available \in [Time -> Nat]
         /\ m.internal \in [Time -> Int]
         /\ \A t \in Time : reported[t] + m.internal[t] = m.pending[t] + m.available[t]
<1>1. /\ m.pending = [t \in Time |-> IF pending[t] > 0 /\ t \notin Moved(fs) THEN 1 ELSE 0]
      /\ m.available = [t \in Time |-> available[t] + (IF t \in Moved(fs) THEN 1 ELSE 0)]
      /\ m.internal = [t \in Time |-> internal[t]
                                        - (IF pending[t] > 1 THEN pending[t] - 1 ELSE 0)]
  BY DEF MadeAvailable, Merged
<1>2. \A t \in Moved(fs) : pending[t] > 0
  BY DEF Moved
<1> QED
  BY <1>1, <1>2 DEF Counted, CountTypes, CapabilitiesCounted

\* A request adds a capability and a place where it is kept.
LEMMA RequestCounts ==
  ASSUME NEW p \in [Time -> Nat], NEW a \in [Time -> Nat], NEW c \in [Time -> Int],
         reported \in [Time -> Int], UNCHANGED reported,
         \A t \in Time : reported[t] + c[t] = p[t] + a[t],
         NEW u \in Time, Requested(u, p, a, c)
  PROVE  Counted'
BY DEF Requested, Plus, Counted, CountTypes, CapabilitiesCounted

\* One schedule, action by action, counts each capability once.
LEMMA CountedKept ==
  ASSUME OrderAssumption, Counted, queue \in [Input -> Seq(Time \X Nat)], [Next]_vars
  PROVE  Counted'
<1> USE DEF requests
<1>1. ASSUME UNCHANGED <<requests, reported>> PROVE Counted'
  BY <1>1 DEF Counted, CountTypes, CapabilitiesCounted
<1>2. ASSUME NEW fs, MakeAvailable(fs), UNCHANGED reported PROVE Counted'
  BY <1>2, MergingCounts DEF MakeAvailable, Counted, CountTypes, CapabilitiesCounted
<1>3. ASSUME NEW u \in Time, NotifyAt(u), UNCHANGED reported PROVE Counted'
  BY <1>3, RequestCounts DEF NotifyAt, Counted, CountTypes, CapabilitiesCounted
<1>4. ASSUME NEW i \in Input, Pull(i) PROVE Counted'
  <2> DEFINE t == Head(queue[i])[1]
             r == Head(queue[i])[2]
  <2>1. t \in Time
    BY <1>4 DEF Pull
  <2>2. UNCHANGED reported
    BY <1>4 DEF Pull
  <2>3. UNCHANGED requests \/ \E u \in Time : NotifyAt(u)
    BY <1>4, <2>1 DEF Pull, PullStateMachine, PullAggregate, PullDelay, PullReclock, PullUser
  <2> QED
    BY <1>1, <1>3, <2>2, <2>3
<1>5. ASSUME Notify PROVE Counted'
  <2> DEFINE found == Looked
  <2>1. /\ found.pending \in [Time -> Nat] /\ found.available \in [Time -> Nat]
        /\ found.internal \in [Time -> Int]
        /\ \A t \in Time : reported[t] + found.internal[t] = found.pending[t] + found.available[t]
    BY MergingCounts DEF Looked, Counted, CountTypes, CapabilitiesCounted
  <2>2. PICK p \in [Time -> Nat], a \in [Time -> Nat], c \in [Time -> Int] :
          /\ p = found.pending /\ a = found.available /\ c = found.internal
          /\ \A t \in Time : reported[t] + c[t] = p[t] + a[t]
    BY <2>1
  <2>3. PICK t \in Time :
          \/ pending' = p /\ available' = [a EXCEPT ![t] = 0] /\ internal' = Plus(c, t, -a[t])
          \/ \E u \in Time : Requested(u, p, [a EXCEPT ![t] = 0], Plus(c, t, -a[t]))
    BY <1>5, <2>2 DEF Notify
  <2>4. UNCHANGED reported /\ reported \in [Time -> Int]
    BY <1>5 DEF Notify, Counted, CountTypes
  <2>5. /\ [a EXCEPT ![t] = 0] \in [Time -> Nat]
        /\ Plus(c, t, -a[t]) \in [Time -> Int]
        /\ \A s \in Time : reported[s] + Plus(c, t, -a[t])[s] = p[s] + [a EXCEPT ![t] = 0][s]
    <3>1. reported \in [Time -> Int] /\ \A s \in Time : reported[s] + c[s] = p[s] + a[s]
      BY <2>2, <2>4
    <3> QED
      BY <3>1 DEF Plus
  <2>6. CASE pending' = p /\ available' = [a EXCEPT ![t] = 0] /\ internal' = Plus(c, t, -a[t])
    BY <2>4, <2>5, <2>6 DEF Counted, CountTypes, CapabilitiesCounted
  <2>7. CASE \E u \in Time : Requested(u, p, [a EXCEPT ![t] = 0], Plus(c, t, -a[t]))
    BY <2>4, <2>5, <2>7, RequestCounts
  <2> QED
    BY <2>3, <2>6, <2>7
<1>6. ASSUME Report PROVE Counted'
  BY <1>6 DEF Report, Counted, CountTypes, CapabilitiesCounted
<1>7. ASSUME Start \/ NotifiedAll PROVE Counted'
  BY <1>2, <1>7 DEF Start, NotifiedAll
<1>8. ASSUME (\E i \in Input : Send(i) \/ MoveUp(i) \/ Drained(i)) \/ UNCHANGED vars PROVE Counted'
  BY <1>1, <1>8 DEF Send, MoveUp, Drained, vars
<1> QED
  BY <1>4, <1>5, <1>6, <1>7, <1>8 DEF Next

-----------------------------------------------------------------------------
(* Frontiers and messages *)

WorldTypes ==
  /\ upstream \in [Input -> SUBSET Time] /\ frontier \in [Input -> SUBSET Time]
  /\ queue \in [Input -> Seq(Time \X Nat)] /\ sentUp \in Nat
  /\ notified \subseteq Time

\* The frontier a schedule was started with is behind what progress tracking has found.
Behind == \A i \in Input : \A u \in upstream[i] : \E f \in frontier[i] : Leq(f, u)

\* A message is one the frontier of its input does not exclude.
Admitted ==
  \A i \in Input : \A k \in 1 .. Len(queue[i]) : \E u \in upstream[i] : Leq(u, queue[i][k][1])

\* Times that were notified, or wait to be, have been passed on every input.
HandedOut == \A t \in Time : t \in notified \/ available[t] > 0 => Ready(upstream, t)

World == WorldTypes /\ Behind /\ Admitted /\ HandedOut

\* What is ready by an earlier frontier is ready by a later one.
LEMMA ReadyStays ==
  ASSUME OrderAssumption, NEW f \in [Input -> SUBSET Time], NEW g \in [Input -> SUBSET Time],
         \A i \in Input : \A u \in g[i] : \E v \in f[i] : Leq(v, u),
         NEW t \in Time, Ready(f, t)
  PROVE  Ready(g, t)
BY DEF Ready, OrderAssumption

\* Only what is ready by the frontiers given becomes available.
LEMMA OnlyReadyAvailable ==
  ASSUME CountTypes, NEW fs, NEW t \in Time, MadeAvailable(fs).available[t] > 0
  PROVE  available[t] > 0 \/ Ready(fs, t)
BY DEF MadeAvailable, Moved, CountTypes

\* A time is complete when it is notified, and stays so.
LEMMA CompleteFollows == ASSUME OrderAssumption, World PROVE NotifiedOnlyWhenComplete
<1> SUFFICES ASSUME NEW t \in notified, NEW i \in Input
             PROVE  /\ ~ \E u \in upstream[i] : Leq(u, t)
                    /\ ~ \E k \in 1 .. Len(queue[i]) : Leq(queue[i][k][1], t)
  BY DEF NotifiedOnlyWhenComplete
<1>1. t \in Time /\ ~ \E u \in upstream[i] : Leq(u, t)
  BY DEF World, WorldTypes, HandedOut, Ready
<1>2. ASSUME NEW k \in 1 .. Len(queue[i]), Leq(queue[i][k][1], t) PROVE FALSE
  <2>1. queue[i][k][1] \in Time
    BY DEF World, WorldTypes
  <2>2. PICK u \in upstream[i] : Leq(u, queue[i][k][1])
    BY DEF World, Admitted
  <2>3. u \in Time
    BY DEF World, WorldTypes
  <2> QED
    BY <1>1, <1>2, <2>1, <2>2, <2>3 DEF OrderAssumption
<1> QED
  BY <1>1, <1>2

-----------------------------------------------------------------------------
(* Upstream *)

\* A record is sent at a time that upstream still covers.
LEMMA SendKeepsWorld ==
  ASSUME OrderAssumption, World, NEW i \in Input, Send(i)
  PROVE  World'
<1>1. PICK t \in Time : /\ \E u \in upstream[i] : Leq(u, t)
                        /\ queue' = [queue EXCEPT ![i] = Append(@, <<t, sentUp + 1>>)]
  BY DEF Send
<1>2. UNCHANGED <<upstream, frontier, notified, available>> /\ sentUp' = sentUp + 1
  BY DEF Send, requests, history
<1>3. WorldTypes'
  BY <1>1, <1>2 DEF World, WorldTypes
<1>4. ASSUME NEW j \in Input, NEW k \in 1 .. Len(queue'[j])
      PROVE  \E u \in upstream'[j] : Leq(u, queue'[j][k][1])
  <2>1. queue \in [Input -> Seq(Time \X Nat)]
    BY DEF World, WorldTypes
  <2>2. CASE j = i /\ k = Len(queue[i]) + 1
    BY <1>1, <1>2, <2>1, <2>2
  <2>3. CASE ~(j = i /\ k = Len(queue[i]) + 1)
    <3>1. k \in 1 .. Len(queue[j]) /\ queue'[j][k] = queue[j][k]
      BY <1>1, <2>1, <2>3
    <3> QED
      BY <1>2, <3>1 DEF World, Admitted
  <2> QED
    BY <2>2, <2>3
<1> QED
  BY <1>2, <1>3, <1>4 DEF World, Behind, Admitted, HandedOut, Ready

\* Upstream gives up a time only when no record of it is left behind.
LEMMA MoveUpKeepsWorld ==
  ASSUME OrderAssumption, World, NEW i \in Input, MoveUp(i)
  PROVE  World'
<1>1. PICK f \in Antichain : /\ \A t \in f : \E u \in upstream[i] : Leq(u, t)
                             /\ \A t \in Unaccounted(i) : \E u \in f : Leq(u, t)
                             /\ upstream' = [upstream EXCEPT ![i] = f]
  BY DEF MoveUp
<1>2. UNCHANGED <<queue, sentUp, frontier, notified, available>>
  BY DEF MoveUp, requests, history
<1>3. WorldTypes'
  BY <1>1, <1>2 DEF World, WorldTypes, OrderAssumption
<1>4. \A j \in Input : \A u \in upstream'[j] : \E v \in upstream[j] : Leq(v, u)
  BY <1>1 DEF World, WorldTypes, OrderAssumption
<1>5. Behind'
  <2> SUFFICES ASSUME NEW j \in Input, NEW u \in upstream'[j]
               PROVE  \E f1 \in frontier[j] : Leq(f1, u)
    BY <1>2 DEF Behind
  <2>1. PICK v \in upstream[j] : Leq(v, u)
    BY <1>4
  <2>2. PICK f1 \in frontier[j] : Leq(f1, v)
    BY DEF World, Behind
  <2>3. u \in Time /\ v \in Time /\ f1 \in Time
    BY <1>2, <1>3 DEF World, WorldTypes
  <2> QED
    BY <2>1, <2>2, <2>3 DEF OrderAssumption
<1>6. Admitted'
  <2> SUFFICES ASSUME NEW j \in Input, NEW k \in 1 .. Len(queue[j])
               PROVE  \E u \in upstream'[j] : Leq(u, queue[j][k][1])
    BY <1>2 DEF Admitted
  <2>1. CASE j = i
    BY <1>1, <2>1 DEF Unaccounted, World, WorldTypes
  <2>2. CASE j # i
    BY <1>1, <2>2 DEF World, WorldTypes, Admitted
  <2> QED
    BY <2>1, <2>2
<1>7. HandedOut'
  BY <1>2, <1>3, <1>4, ReadyStays DEF World, WorldTypes, HandedOut
<1> QED
  BY <1>3, <1>5, <1>6, <1>7 DEF World

-----------------------------------------------------------------------------
(* The operator *)

\* Whatever the closures ask for when they are given a message, a request enters the heap
\* only if its time is ready, and nobody is notified.
LEMMA PullRequests ==
  ASSUME CountTypes, WorldTypes, NEW i \in Input, Pull(i)
  PROVE  /\ UNCHANGED requests \/ \E u \in Time : NotifyAt(u)
         /\ queue' = [queue EXCEPT ![i] = Tail(@)] /\ queue[i] # <<>>
         /\ UNCHANGED <<logic, step, upstream, frontier, sentUp, history>>
<1>1. Head(queue[i])[1] \in Time
  BY DEF WorldTypes, Pull
<1> QED
  BY <1>1 DEF Pull, PullStateMachine, PullAggregate, PullDelay, PullReclock, PullUser

\* Pulling a record takes from a queue and notifies of nothing.
LEMMA PullKeepsWorld ==
  ASSUME OrderAssumption, CountTypes, World, NEW i \in Input, Pull(i)
  PROVE  World'
<1> USE DEF World
<1>1. /\ queue' = [queue EXCEPT ![i] = Tail(@)] /\ queue[i] # <<>>
      /\ UNCHANGED <<upstream, frontier, sentUp, notified>>
  BY PullRequests DEF history
<1>2. WorldTypes'
  BY <1>1 DEF WorldTypes
<1>3. Behind'
  BY <1>1 DEF Behind
<1>4. Admitted'
  <2> SUFFICES ASSUME NEW j \in Input, NEW k \in 1 .. Len(queue'[j])
               PROVE  \E u \in upstream[j] : Leq(u, queue'[j][k][1])
    BY <1>1 DEF Admitted
  <2>1. queue[j] \in Seq(Time \X Nat) /\ queue[i] \in Seq(Time \X Nat)
    BY DEF WorldTypes
  <2>2. \E n \in 1 .. Len(queue[j]) : queue'[j][k] = queue[j][n]
    <3>1. CASE j = i
      <4>1. queue'[j] = Tail(queue[i]) /\ k + 1 \in 1 .. Len(queue[i])
        BY <1>1, <2>1, <3>1 DEF WorldTypes
      <4> QED
        BY <1>1, <2>1, <3>1, <4>1
    <3>2. CASE j # i
      BY <1>1, <3>2 DEF WorldTypes
    <3> QED
      BY <3>1, <3>2
  <2> QED
    BY <2>2 DEF Admitted
<1>5. ASSUME NEW u \in Time, NotifyAt(u) PROVE HandedOut'
  <2>1. \A t \in Time : available'[t] > 0 => available[t] > 0 \/ Ready(frontier, t)
    BY <1>5 DEF NotifyAt, Requested, Plus, CountTypes
  <2>2. \A t \in Time : Ready(frontier, t) => Ready(upstream, t)
    BY ReadyStays DEF WorldTypes, Behind
  <2> QED
    BY <1>1, <2>1, <2>2 DEF HandedOut, Ready
<1>6. ASSUME UNCHANGED requests PROVE HandedOut'
  BY <1>1, <1>6 DEF requests, HandedOut, Ready
<1> QED
  BY <1>2, <1>3, <1>4, <1>5, <1>6, PullRequests

\* What is handed out was available, or is found to be ready in the same step.
LEMMA NotifyHandsOut ==
  ASSUME CountTypes, Notify
  PROVE  \E t \in Time :
           /\ Looked.available[t] > 0 /\ Earliest(t, {u \in Time : Looked.available[u] > 0})
           /\ session' = Append(session, t) /\ notified' = notified \cup {t}
           /\ \A u \in Time : pending'[u] > 0 =>
                Looked.pending[u] > 0 \/ ~Ready(frontier, u)
           /\ \A u \in Time : available'[u] > 0 =>
                \/ Looked.available[u] > 0 /\ u # t
                \/ Ready(frontier, u) /\ Leq(t, u)
<1>1. Looked.pending \in [Time -> Nat] /\ Looked.available \in [Time -> Nat]
  BY DEF Looked, MadeAvailable, CountTypes
<1> DEFINE p == Looked.pending
           a == Looked.available
<1>2. PICK t \in Time :
        /\ a[t] > 0 /\ Earliest(t, {u \in Time : a[u] > 0})
        /\ session' = Append(session, t) /\ notified' = notified \cup {t}
        /\ \/ pending' = p /\ available' = [a EXCEPT ![t] = 0]
           \/ \E u \in Time : /\ Leq(t, u)
                              /\ Requested(u, p, [a EXCEPT ![t] = 0],
                                           Plus(Looked.internal, t, -a[t]))
  BY DEF Notify
<1>3. ASSUME pending' = p, available' = [a EXCEPT ![t] = 0]
      PROVE  /\ \A v \in Time : pending'[v] > 0 => p[v] > 0
             /\ \A v \in Time : available'[v] > 0 => a[v] > 0 /\ v # t
  <2>1. p \in [Time -> Nat] /\ a \in [Time -> Nat]
    BY <1>1
  <2> HIDE DEF p, a
  <2> QED
    BY <2>1, <1>3
<1>4. ASSUME NEW u \in Time, Leq(t, u),
             Requested(u, p, [a EXCEPT ![t] = 0], Plus(Looked.internal, t, -a[t]))
      PROVE  /\ \A v \in Time : pending'[v] > 0 => p[v] > 0 \/ ~Ready(frontier, v)
             /\ \A v \in Time : available'[v] > 0 =>
                  (a[v] > 0 /\ v # t) \/ (Ready(frontier, v) /\ Leq(t, v))
  <2>1. p \in [Time -> Nat] /\ a \in [Time -> Nat]
    BY <1>1
  <2> HIDE DEF p, a
  <2> QED
    BY <2>1, <1>4 DEF Requested, Plus
<1> QED
  BY <1>2, <1>3, <1>4

\* What notifying looks at was available, or is ready by this schedule's frontiers.
LEMMA LookedReady ==
  ASSUME CountTypes, NEW t \in Time, Looked.available[t] > 0
  PROVE  available[t] > 0 \/ Ready(frontier, t)
BY OnlyReadyAvailable DEF Looked

\* A time that is notified is ready by the frontiers of the schedule.
LEMMA NotifyKeepsWorld ==
  ASSUME OrderAssumption, CountTypes, World, Notify
  PROVE  World'
<1> USE DEF World
<1>1. UNCHANGED <<upstream, frontier, queue, sentUp>>
  BY DEF Notify, world
<1>2. \A t \in Time : Ready(frontier, t) => Ready(upstream, t)
  BY ReadyStays DEF WorldTypes, Behind
<1>3. \A t \in Time : Looked.available[t] > 0 => Ready(upstream, t)
  BY <1>2, LookedReady DEF HandedOut
<1>4. PICK t \in Time :
        /\ Looked.available[t] > 0 /\ notified' = notified \cup {t}
        /\ \A u \in Time : available'[u] > 0 =>
             (Looked.available[u] > 0 /\ u # t) \/ (Ready(frontier, u) /\ Leq(t, u))
  BY NotifyHandsOut
<1>5. HandedOut'
  BY <1>1, <1>2, <1>3, <1>4 DEF HandedOut, Ready
<1> QED
  BY <1>1, <1>4, <1>5 DEF WorldTypes, Behind, Admitted

\* A schedule starts with the frontiers as they are and ends with its report; in between,
\* making available leaves the world alone.
LEMMA ScheduleKeepsWorld ==
  ASSUME OrderAssumption, CountTypes, World,
         Start \/ NotifiedAll \/ Report \/ (\E i \in Input : Drained(i)) \/ UNCHANGED vars
  PROVE  World'
<1> USE DEF World
<1>1. ASSUME Start PROVE World'
  <2>1. /\ UNCHANGED <<upstream, queue, sentUp, notified>> /\ frontier' = upstream
        /\ available' = MadeAvailable(upstream).available
    BY <1>1 DEF Start, world, MakeAvailable
  <2>2. WorldTypes'
    BY <2>1 DEF WorldTypes
  <2>3. Behind'
    BY <2>1 DEF Behind, WorldTypes, OrderAssumption
  <2>4. HandedOut'
    BY <2>1, OnlyReadyAvailable DEF HandedOut, Ready
  <2> QED
    BY <2>1, <2>2, <2>3, <2>4 DEF Admitted
<1>2. ASSUME NotifiedAll PROVE World'
  <2>1. /\ UNCHANGED <<upstream, frontier, queue, sentUp, notified>>
        /\ available' = MadeAvailable(frontier).available
    BY <1>2 DEF NotifiedAll, world, history, MakeAvailable
  <2>2. \A t \in Time : Ready(frontier, t) => Ready(upstream, t)
    BY ReadyStays DEF WorldTypes, Behind
  <2>3. HandedOut'
    BY <2>1, <2>2, OnlyReadyAvailable DEF HandedOut, Ready
  <2> QED
    BY <2>1, <2>3 DEF WorldTypes, Behind, Admitted
<1>3. ASSUME Report \/ (\E i \in Input : Drained(i)) \/ UNCHANGED vars PROVE World'
  BY <1>3 DEF Report, Drained, vars, world, history, requests, WorldTypes, Behind, Admitted,
              HandedOut, Ready
<1> QED
  BY <1>1, <1>2, <1>3

-----------------------------------------------------------------------------
(* The order of one session *)

StepTypes ==
  /\ logic \in {"state_machine", "aggregate", "delay", "reclock", "user"}
  /\ step \in {"idle", "input1", "input2", "notify", "report"}
  /\ step = "input2" => logic = "reclock"
  /\ session \in Seq(Time)

\* After the first look of a schedule, what is not available is not ready.
PendingNotReady == step # "idle" => \A t \in Time : pending[t] > 0 => ~Ready(frontier, t)

\* Only a state machine is notified before it pulls.
SessionBegins ==
  step = "idle" \/ step = "report" \/ step = "notify" \/ logic = "state_machine" \/ session = <<>>

\* Nothing that is available is earlier than what has been notified.
SessionOrdered ==
  step = "notify" =>
    \A k \in 1 .. Len(session) : \A t \in Time : available[t] > 0 => ~Less(t, session[k])

Order ==
  StepTypes /\ PendingNotReady /\ SessionBegins /\ SessionOrdered /\ NotifiedInOrder

\* The order of the closures' parts.
LEMMA PartsFollow ==
  ASSUME StepTypes, step \in {"input1", "input2", "notify"}
  PROVE  /\ NextPart \in {"input1", "input2", "notify", "report"}
         /\ NextPart = "input2" => logic = "reclock"
         /\ step = "notify" => NextPart = "report" \/ (NextPart = "input1" /\ logic = "state_machine")
         /\ NextPart = "notify" => logic # "state_machine"
<1>1. CASE logic = "state_machine"
  <2> DEFINE p == <<"notify", "input1", "report">>
  <2>1. Steps(logic) = p
    BY <1>1 DEF Steps
  <2>2. step \in {"notify", "input1"}
    BY <1>1 DEF StepTypes
  <2>3. \A j \in 1 .. Len(p) : p[j] = step <=> j = (IF step = "notify" THEN 1 ELSE 2)
    BY <2>2
  <2>4. (CHOOSE j \in 1 .. Len(p) : p[j] = step) = (IF step = "notify" THEN 1 ELSE 2)
    BY <2>3
  <2> QED
    BY <1>1, <2>1, <2>2, <2>4 DEF NextPart
<1>2. CASE logic = "reclock"
  <2> DEFINE p == <<"input1", "input2", "notify", "report">>
             n == IF step = "input1" THEN 1 ELSE IF step = "input2" THEN 2 ELSE 3
  <2>1. Steps(logic) = p
    BY <1>2 DEF Steps
  <2>3. \A j \in 1 .. Len(p) : p[j] = step <=> j = n
    OBVIOUS
  <2>4. (CHOOSE j \in 1 .. Len(p) : p[j] = step) = n
    BY <2>3
  <2> QED
    BY <1>2, <2>1, <2>4 DEF NextPart
<1>3. CASE logic \notin {"state_machine", "reclock"}
  <2> DEFINE p == <<"input1", "notify", "report">>
             n == IF step = "input1" THEN 1 ELSE 2
  <2>1. Steps(logic) = p
    BY <1>3 DEF Steps
  <2>2. step \in {"input1", "notify"}
    BY <1>3 DEF StepTypes
  <2>3. \A j \in 1 .. Len(p) : p[j] = step <=> j = n
    BY <2>2
  <2>4. (CHOOSE j \in 1 .. Len(p) : p[j] = step) = n
    BY <2>3
  <2> QED
    BY <1>3, <2>1, <2>2, <2>4 DEF NextPart
<1> QED
  BY <1>1, <1>2, <1>3

\* A schedule starts with none handed out, and with everything ready made available.
LEMMA StartKeepsOrder ==
  ASSUME CountTypes, Order, Start
  PROVE  Order'
<1>1. /\ UNCHANGED logic /\ session' = <<>> /\ frontier' = upstream
      /\ step' = Steps(logic)[1]
      /\ pending' = MadeAvailable(upstream).pending
  BY DEF Start, MakeAvailable
<1>2. step' \in {"input1", "notify"}
  BY <1>1 DEF Order, StepTypes, Steps
<1>3. \A t \in Time : pending'[t] > 0 => ~Ready(upstream, t)
  BY <1>1 DEF MadeAvailable, Moved, CountTypes
<1> QED
  BY <1>1, <1>2, <1>3 DEF Order, StepTypes, PendingNotReady, SessionBegins, SessionOrdered,
                          NotifiedInOrder, Ready

\* Pulling hands out nothing, and what it requests goes to pending only if it is not ready.
LEMMA PullKeepsOrder ==
  ASSUME CountTypes, WorldTypes, Order, NEW i \in Input, Pull(i)
  PROVE  Order'
<1>1. /\ step = i /\ UNCHANGED <<logic, step, frontier, session>>
      /\ UNCHANGED requests \/ \E u \in Time : NotifyAt(u)
  BY PullRequests DEF Pull, history
<1>2. step \in {"input1", "input2"}
  BY <1>1 DEF Input
<1>3. PendingNotReady'
  <2>1. CASE UNCHANGED requests
    BY <1>1, <2>1 DEF requests, Order, PendingNotReady, Ready
  <2>2. ASSUME NEW u \in Time, NotifyAt(u) PROVE PendingNotReady'
    BY <1>1, <1>2, <2>2 DEF NotifyAt, Requested, Plus, CountTypes, Order, PendingNotReady, Ready
  <2> QED
    BY <1>1, <2>1, <2>2
<1> QED
  BY <1>1, <1>2, <1>3 DEF Order, StepTypes, SessionBegins, SessionOrdered, NotifiedInOrder

\* The earliest available time is not before one that was handed out in this schedule.
LEMMA NotifyKeepsOrder ==
  ASSUME OrderAssumption, CountTypes, Order, Notify
  PROVE  Order'
<1> USE DEF Order
<1>1. step = "notify" /\ UNCHANGED <<logic, step, frontier>>
  BY DEF Notify
<1>2. \A t \in Time : Looked.available[t] > 0 => available[t] > 0
  BY <1>1 DEF Looked, MadeAvailable, Moved, CountTypes, PendingNotReady
<1>3. \A t \in Time : Looked.pending[t] > 0 => ~Ready(frontier, t)
  BY <1>1 DEF Looked, MadeAvailable, CountTypes, PendingNotReady
<1>4. PICK t \in Time :
        /\ Looked.available[t] > 0 /\ Earliest(t, {u \in Time : Looked.available[u] > 0})
        /\ session' = Append(session, t)
        /\ \A u \in Time : pending'[u] > 0 => Looked.pending[u] > 0 \/ ~Ready(frontier, u)
        /\ \A u \in Time : available'[u] > 0 =>
             (Looked.available[u] > 0 /\ u # t) \/ (Ready(frontier, u) /\ Leq(t, u))
  BY NotifyHandsOut
<1>5. session \in Seq(Time)
  BY DEF StepTypes
<1>6. StepTypes' /\ SessionBegins' /\ PendingNotReady'
  BY <1>1, <1>3, <1>4, <1>5 DEF StepTypes, SessionBegins, PendingNotReady, Ready
<1>7. \A k \in 1 .. Len(session) : session[k] \in Time /\ ~Less(t, session[k])
  BY <1>1, <1>2, <1>4, <1>5 DEF SessionOrdered
<1>8. \A k \in 1 .. Len(session') :
        (k \in 1 .. Len(session) /\ session'[k] = session[k]) \/ (k = Len(session) + 1 /\ session'[k] = t)
  BY <1>4, <1>5
<1>9. SessionOrdered'
  <2> SUFFICES ASSUME NEW k \in 1 .. Len(session'), NEW u \in Time, available'[u] > 0,
                      Less(u, session'[k])
               PROVE  FALSE
    BY DEF SessionOrdered
  <2>1. CASE Looked.available[u] > 0 /\ u # t
    <3>1. Before(t, u)
      BY <1>4, <2>1 DEF Earliest
    <3>2. ~Less(u, t)
      BY <3>1 DEF OrderAssumption, Less
    <3> QED
      BY <1>1, <1>2, <1>8, <2>1, <3>2 DEF SessionOrdered
  <2>2. CASE Leq(t, u)
    BY <1>7, <1>8, <2>2 DEF OrderAssumption, Less
  <2> QED
    BY <1>4, <2>1, <2>2
<1>10. NotifiedInOrder'
  <2> SUFFICES ASSUME NEW j \in 1 .. Len(session'), NEW k \in 1 .. Len(session'), j < k,
                      Less(session'[k], session'[j])
               PROVE  FALSE
    BY DEF NotifiedInOrder
  <2> QED
    BY <1>5, <1>7, <1>8 DEF NotifiedInOrder
<1> QED
  BY <1>6, <1>9, <1>10

\* The other steps hand out nothing and change no request.
LEMMA RestKeepsOrder ==
  ASSUME CountTypes, Order,
         (\E i \in Input : Send(i) \/ MoveUp(i) \/ Drained(i)) \/ NotifiedAll \/ Report \/ UNCHANGED vars
  PROVE  Order'
<1> USE DEF Order
<1>1. UNCHANGED <<logic, frontier, session>>
  BY DEF Send, MoveUp, Drained, NotifiedAll, Report, vars, history
<1>2. NotifiedInOrder'
  BY <1>1 DEF NotifiedInOrder
<1>3. ASSUME NEW i \in Input, Drained(i) PROVE Order'
  <2>1. step \in {"input1", "input2"} /\ step' = NextPart /\ UNCHANGED requests
    BY <1>3 DEF Drained, Input
  <2> QED
    BY <1>1, <1>2, <2>1, PartsFollow DEF StepTypes, PendingNotReady, SessionBegins,
       SessionOrdered, requests, Ready
<1>4. ASSUME NotifiedAll PROVE Order'
  <2>1. step = "notify" /\ step' = NextPart /\ pending' = MadeAvailable(frontier).pending
    BY <1>4 DEF NotifiedAll, MakeAvailable
  <2>2. \A t \in Time : pending'[t] > 0 => ~Ready(frontier, t)
    BY <2>1 DEF MadeAvailable, Moved, CountTypes
  <2> QED
    BY <1>1, <1>2, <2>1, <2>2, PartsFollow DEF StepTypes, PendingNotReady, SessionBegins,
       SessionOrdered, Ready
<1>5. ASSUME (\E i \in Input : Send(i) \/ MoveUp(i)) \/ UNCHANGED vars PROVE Order'
  BY <1>1, <1>2, <1>5 DEF Send, MoveUp, vars, requests, StepTypes, PendingNotReady,
     SessionBegins, SessionOrdered, Ready
<1>6. ASSUME Report PROVE Order'
  BY <1>1, <1>2, <1>6 DEF Report, StepTypes, PendingNotReady, SessionBegins, SessionOrdered
<1> QED
  BY <1>3, <1>4, <1>5, <1>6

-----------------------------------------------------------------------------
(* What the operators hold back *)

StashTypes ==
  /\ queue \in [Input -> Seq(Time \X (1 .. MaxRecords))] /\ sentUp \in Nat
  /\ stash \subseteq Time \X (1 .. MaxRecords)

Stash == StashTypes /\ NothingStranded

\* Merging and moving requests forgets no time.
LEMMA MergingKeepsTimes ==
  ASSUME CountTypes, NEW fs, NEW t \in Time
  PROVE  (MadeAvailable(fs).pending[t] + MadeAvailable(fs).available[t] > 0)
           <=> (pending[t] + available[t] > 0)
BY DEF MadeAvailable, Moved, CountTypes

\* A request adds its time and forgets no other.
LEMMA RequestKeepsTimes ==
  ASSUME CountTypes, NEW u \in Time, NotifyAt(u), NEW t \in Time,
         t = u \/ pending[t] + available[t] > 0
  PROVE  pending'[t] + available'[t] > 0
BY DEF NotifyAt, Requested, Plus, CountTypes

\* A notification forgets no time but its own.
LEMMA NotifyKeepsTimes ==
  ASSUME CountTypes, Notify
  PROVE  \E t \in Time :
           /\ notified' = notified \cup {t}
           /\ stash' = {s \in stash : s[2] \notin NotifiedRecords(t)}
           /\ \A u \in Time : u # t /\ pending[u] + available[u] > 0 =>
                                pending'[u] + available'[u] > 0
<1> DEFINE p == Looked.pending
           a == Looked.available
<1>1. /\ p \in [Time -> Nat] /\ a \in [Time -> Nat]
      /\ \A u \in Time : pending[u] + available[u] > 0 => p[u] + a[u] > 0
  BY MergingKeepsTimes DEF Looked, MadeAvailable, CountTypes
<1>2. PICK t \in Time :
        /\ notified' = notified \cup {t}
        /\ stash' = {s \in stash : s[2] \notin NotifiedRecords(t)}
        /\ \/ pending' = p /\ available' = [a EXCEPT ![t] = 0]
           \/ \E u \in Time : Requested(u, p, [a EXCEPT ![t] = 0],
                                        Plus(Looked.internal, t, -a[t]))
  BY DEF Notify
<1> HIDE DEF p, a
<1>3. ASSUME NEW v \in Time, v # t, pending[v] + available[v] > 0
      PROVE  pending'[v] + available'[v] > 0
  <2>1. p[v] + a[v] > 0 /\ p[v] \in Nat /\ a[v] \in Nat
    BY <1>1, <1>3
  <2>2. CASE pending' = p /\ available' = [a EXCEPT ![t] = 0]
    BY <1>1, <1>3, <2>1, <2>2
  <2>3. ASSUME NEW u \in Time,
               Requested(u, p, [a EXCEPT ![t] = 0], Plus(Looked.internal, t, -a[t]))
        PROVE  pending'[v] + available'[v] > 0
    BY <1>1, <1>3, <2>1, <2>3 DEF Requested, Plus
  <2> QED
    BY <1>2, <2>2, <2>3 DEF p, a
<1> QED
  BY <1>2, <1>3

\* A record that is kept is kept under a time that has a request.
LEMMA PullKeepsStash ==
  ASSUME OrderAssumption, CountTypes, World, Stash, NEW i \in Input, Pull(i)
  PROVE  Stash'
<1> DEFINE t == Head(queue[i])[1]
           r == Head(queue[i])[2]
<1>1. /\ t \in Time /\ r \in 1 .. MaxRecords /\ t = queue[i][1][1]
      /\ 1 \in 1 .. Len(queue[i])
  BY DEF Pull, Stash, StashTypes
<1>2. /\ queue' = [queue EXCEPT ![i] = Tail(@)] /\ queue[i] # <<>>
      /\ UNCHANGED <<logic, sentUp, notified>>
  BY PullRequests DEF World, history
<1>3. \/ UNCHANGED requests /\ stash' = stash
      \/ \E u \in Time : NotifyAt(u) /\ stash' \in {stash, stash \cup {<<u, r>>}}
      \/ logic = "reclock" /\ UNCHANGED requests /\ stash' = stash \cup {<<t, r>>}
      \/ /\ UNCHANGED requests
         /\ \E u \in Time : StashedAt(u) # {} /\ stash' = stash \cup {<<u, r>>}
                            /\ logic = "delay"
  BY <1>1 DEF Pull, PullStateMachine, PullAggregate, PullDelay, PullReclock, PullUser
<1>4. logic = "reclock" => stash' \in {stash, stash \cup {<<t, r>>}}
  BY DEF Pull, PullReclock
<1> HIDE DEF t, r
<1>5. queue' \in [Input -> Seq(Time \X (1 .. MaxRecords))]
  BY <1>2 DEF Stash, StashTypes
<1>6. stash' \subseteq Time \X (1 .. MaxRecords)
  BY <1>1, <1>3 DEF Stash, StashTypes
<1>7. ASSUME logic = "reclock" PROVE NothingStranded'
  <2>1. ASSUME NEW n \in notified, Leq(t, n) PROVE FALSE
    <3>1. ~ \E k \in 1 .. Len(queue[i]) : Leq(queue[i][k][1], n)
      BY CompleteFollows DEF NotifiedOnlyWhenComplete
    <3> QED
      BY <1>1, <2>1, <3>1
  <2> QED
    BY <1>2, <1>4, <1>7, <2>1 DEF NothingStranded, Stash
<1>8. ASSUME logic # "reclock" PROVE NothingStranded'
  <2> SUFFICES ASSUME NEW s \in stash' PROVE pending'[s[1]] + available'[s[1]] > 0
    BY <1>2, <1>8 DEF NothingStranded
  <2>1. s[1] \in Time
    BY <1>6
  <2>2. s \in stash => pending[s[1]] + available[s[1]] > 0
    BY <1>8 DEF NothingStranded, Stash
  <2>3. CASE UNCHANGED requests /\ stash' = stash
    BY <2>2, <2>3 DEF requests
  <2>4. ASSUME NEW u \in Time, NotifyAt(u), stash' \in {stash, stash \cup {<<u, r>>}}
        PROVE  pending'[s[1]] + available'[s[1]] > 0
    BY <2>1, <2>2, <2>4, RequestKeepsTimes
  <2>5. ASSUME NEW u \in Time, StashedAt(u) # {}, stash' = stash \cup {<<u, r>>},
               UNCHANGED requests
        PROVE  pending'[s[1]] + available'[s[1]] > 0
    <3>1. pending[u] + available[u] > 0
      BY <1>8, <2>5 DEF StashedAt, NothingStranded, Stash
    <3> QED
      BY <2>2, <2>5, <3>1 DEF requests
  <2> QED
    BY <1>3, <1>8, <2>3, <2>4, <2>5
<1> QED
  BY <1>2, <1>5, <1>6, <1>7, <1>8 DEF Stash, StashTypes

\* A notification takes out the records of its own time and no other.
LEMMA NotifyKeepsStash ==
  ASSUME CountTypes, Stash, Notify
  PROVE  Stash'
<1>1. UNCHANGED <<logic, queue, sentUp>>
  BY DEF Notify, world
<1>2. PICK t \in Time :
        /\ notified' = notified \cup {t}
        /\ stash' = {s \in stash : s[2] \notin NotifiedRecords(t)}
        /\ \A u \in Time : u # t /\ pending[u] + available[u] > 0 =>
                             pending'[u] + available'[u] > 0
  BY NotifyKeepsTimes
<1>3. StashTypes'
  BY <1>1, <1>2 DEF Stash, StashTypes
<1>4. ASSUME NEW s \in stash'
      PROVE  /\ s \in stash /\ s[1] \in Time /\ s[2] \in 1 .. MaxRecords
             /\ s = <<s[1], s[2]>> /\ s[2] \notin NotifiedRecords(t)
  BY <1>2 DEF Stash, StashTypes
<1>5. ASSUME logic = "reclock", NEW s \in stash', NEW n \in notified', Leq(s[1], n)
      PROVE  FALSE
  <2>1. n # t
    BY <1>4, <1>5 DEF NotifiedRecords
  <2> QED
    BY <1>2, <1>4, <1>5, <2>1 DEF Stash, NothingStranded
<1>6. ASSUME logic # "reclock", NEW s \in stash'
      PROVE  pending'[s[1]] + available'[s[1]] > 0
  <2>1. s[1] # t
    BY <1>4, <1>6 DEF NotifiedRecords, StashedAt
  <2> QED
    BY <1>2, <1>4, <1>6, <2>1 DEF Stash, NothingStranded
<1> QED
  BY <1>1, <1>3, <1>5, <1>6 DEF Stash, NothingStranded

\* The other steps keep the records and the requests.
LEMMA RestKeepsStash ==
  ASSUME BoundsAssumption, CountTypes, Stash,
         \/ \E i \in Input : Send(i) \/ MoveUp(i) \/ Drained(i)
         \/ Start \/ NotifiedAll \/ Report \/ UNCHANGED vars
  PROVE  Stash'
<1>1. UNCHANGED <<logic, stash, notified>>
  BY DEF Send, MoveUp, Drained, Start, NotifiedAll, Report, vars, history
<1>2. StashTypes'
  <2>1. ASSUME NEW i \in Input, Send(i) PROVE StashTypes'
    BY <1>1, <2>1 DEF Send, Stash, StashTypes, BoundsAssumption
  <2>2. ASSUME UNCHANGED <<queue, sentUp>> PROVE StashTypes'
    BY <1>1, <2>2 DEF Stash, StashTypes
  <2> QED
    BY <2>1, <2>2 DEF MoveUp, Drained, Start, NotifiedAll, Report, vars, world
<1>3. UNCHANGED <<pending, available>> \/ \E fs : MakeAvailable(fs)
  BY DEF Send, MoveUp, Drained, Start, NotifiedAll, Report, vars, requests
<1>4. ASSUME NEW t \in Time, pending[t] + available[t] > 0 PROVE pending'[t] + available'[t] > 0
  BY <1>3, <1>4, MergingKeepsTimes DEF MakeAvailable
<1> QED
  BY <1>1, <1>2, <1>4 DEF Stash, StashTypes, NothingStranded

-----------------------------------------------------------------------------
(* What is given out at the end of a schedule *)

\* Something reported before, or consumed in this schedule, is at or before t.
Justified(t) ==
  \/ \E s \in Time : Leq(s, t) /\ reported[s] > 0
  \/ \E i \in Input : \E c \in consumed[i] : Leq(c[1], t)

OutTypes ==
  /\ consumed \in [Input -> SUBSET (Time \X Nat)]
  /\ buffer \subseteq Time \X Nat /\ produced \subseteq Time \X Nat
  /\ emitted \subseteq Time \X Nat

\* Everything in the output's buffer, or pushed, and every new capability is justified.
Justifying ==
  /\ OutTypes
  /\ \A p \in produced \cup buffer : Justified(p[1])
  /\ \A u \in Time : internal[u] > 0 => Justified(u)

\* Within a schedule what is justified stays so, and what is later is justified too.
LEMMA JustifiedStays ==
  ASSUME UNCHANGED reported, \A i \in Input : consumed[i] \subseteq consumed'[i], NEW t, Justified(t)
  PROVE  Justified(t)'
BY DEF Justified

LEMMA LaterJustified ==
  ASSUME OrderAssumption, OutTypes, NEW t \in Time, NEW u \in Time, Leq(t, u), Justified(t)
  PROVE  Justified(u)
<1>1. \A i \in Input : \A c \in consumed[i] : c[1] \in Time
  BY DEF OutTypes
<1> QED
  BY <1>1 DEF Justified, OrderAssumption

LEMMA InitJustifying ==
  ASSUME OrderAssumption, MinimumAssumption, Init
  PROVE  Justifying
<1>1. OutTypes
  BY DEF Init, OutTypes
<1>2. reported[Minimum] = 1 /\ Minimum \in Time
  BY DEF Init, OrderAssumption
<1> QED
  BY <1>1, <1>2 DEF Init, Justifying, Justified, MinimumAssumption

\* A message justifies what is given at its time and asked for at or after it.
LEMMA PullJustifying ==
  ASSUME OrderAssumption, BoundsAssumption, CountTypes, Stash, Justifying, NEW i \in Input, Pull(i)
  PROVE  Justifying'
<1> DEFINE t == Head(queue[i])[1]
           r == Head(queue[i])[2]
<1>1. t \in Time /\ r \in Nat
  BY DEF Pull, Stash, StashTypes
<1>2. /\ consumed' = [consumed EXCEPT ![i] = @ \cup {<<t, r>>}] /\ UNCHANGED reported
      /\ \/ UNCHANGED output
         \/ Give(t, {r})
      /\ \/ UNCHANGED requests
         \/ \E u \in Time : Leq(t, u) /\ NotifyAt(u)
  <2>1. Leq(t, t)
    BY <1>1 DEF OrderAssumption
  <2> QED
    BY <1>1, <2>1 DEF Pull, PullStateMachine, PullAggregate, PullDelay, PullReclock, PullUser
<1> HIDE DEF t, r
<1>3. /\ \A j \in Input : consumed[j] \subseteq consumed'[j]
      /\ <<t, r>> \in consumed'[i] /\ consumed' \in [Input -> SUBSET (Time \X Nat)]
  BY <1>1, <1>2 DEF Justifying, OutTypes
<1>4. ASSUME NEW u \in Time, Leq(t, u) PROVE Justified(u)'
  BY <1>3, <1>4 DEF Justified
<1>5. Leq(t, t)
  BY <1>1 DEF OrderAssumption
<1>6. /\ OutTypes'
      /\ \A p \in produced' \cup buffer' : p \in produced \cup buffer \/ p[1] = t
  <2>1. CASE UNCHANGED output
    BY <1>3, <2>1 DEF output, Justifying, OutTypes
  <2>2. CASE Give(t, {r})
    BY <1>1, <1>3, <2>2 DEF Give, Justifying, OutTypes
  <2> QED
    BY <1>2, <2>1, <2>2
<1>7. \A p \in produced' \cup buffer' : Justified(p[1])'
  BY <1>1, <1>2, <1>3, <1>4, <1>5, <1>6, JustifiedStays DEF Justifying
<1>8. ASSUME NEW v \in Time, internal'[v] > 0 PROVE Justified(v)'
  <2>1. internal[v] > 0 \/ Leq(t, v)
    <3>1. CASE UNCHANGED requests
      BY <1>8, <3>1 DEF requests
    <3>2. ASSUME NEW u \in Time, Leq(t, u), NotifyAt(u) PROVE internal[v] > 0 \/ Leq(t, v)
      BY <1>8, <3>2 DEF NotifyAt, Requested, Plus, CountTypes
    <3> QED
      BY <1>2, <3>1, <3>2
  <2> QED
    BY <1>2, <1>3, <1>4, <2>1, JustifiedStays DEF Justifying
<1> QED
  BY <1>6, <1>7, <1>8 DEF Justifying

\* What making available leaves of the changes of count.
LEMMA MergingLess ==
  ASSUME CountTypes, NEW fs, NEW t \in Time
  PROVE  MadeAvailable(fs).internal[t] \in Int /\ MadeAvailable(fs).internal[t] <= internal[t]
BY DEF MadeAvailable, Merged, CountTypes

\* A request that is available is backed by a capability, which justifies what is given
\* and asked for when it is notified.
LEMMA NotifyJustifying ==
  ASSUME OrderAssumption, BoundsAssumption, Counted, Stash, Justifying, Notify
  PROVE  Justifying'
<1> DEFINE found == Looked
<1>1. /\ found.pending \in [Time -> Nat] /\ found.available \in [Time -> Nat]
      /\ found.internal \in [Time -> Int]
      /\ \A t \in Time : reported[t] + found.internal[t] = found.pending[t] + found.available[t]
      /\ \A t \in Time : found.internal[t] <= internal[t]
  <2>1. CASE Looked = MadeAvailable(frontier)
    BY <2>1, MergingCounts, MergingLess DEF Counted
  <2>2. CASE Looked = [pending |-> pending, available |-> available, internal |-> internal]
    BY <2>2 DEF Counted, CountTypes, CapabilitiesCounted
  <2> QED
    BY <2>1, <2>2 DEF Looked
<1>2. PICK t \in Time :
        /\ found.available[t] > 0
        /\ IF NotifiedRecords(t) = {} THEN UNCHANGED output ELSE Give(t, NotifiedRecords(t))
        /\ \/ internal' = Plus(found.internal, t, -found.available[t])
           \/ \E u \in Time : Leq(t, u) /\
                internal' = Plus(Plus(found.internal, t, -found.available[t]), u, 1)
  BY DEF Notify, Requested
<1>3. NotifiedRecords(t) \subseteq Nat
  BY DEF NotifiedRecords, StashedAt, BoundsAssumption
<1> HIDE DEF found
<1>4. UNCHANGED <<reported, consumed>>
  BY DEF Notify
<1>5. Justified(t)
  <2>1. reported[t] > 0 \/ found.internal[t] > 0
    BY <1>1, <1>2 DEF Counted, CountTypes
  <2>2. CASE reported[t] > 0
    BY <2>2 DEF Justified, OrderAssumption
  <2>3. CASE found.internal[t] > 0
    <3>1. internal[t] > 0
      BY <1>1, <2>3 DEF Counted, CountTypes
    <3> QED
      BY <3>1 DEF Justifying
  <2> QED
    BY <2>1, <2>2, <2>3
<1>6. /\ OutTypes'
      /\ \A p \in produced' \cup buffer' : p \in produced \cup buffer \/ p[1] = t
  <2>1. CASE UNCHANGED output
    BY <1>4, <2>1 DEF output, Justifying, OutTypes
  <2>2. CASE Give(t, NotifiedRecords(t))
    BY <1>3, <1>4, <2>2 DEF Give, Justifying, OutTypes
  <2> QED
    BY <1>2, <2>1, <2>2
<1>7. \A p \in produced' \cup buffer' : Justified(p[1])
  BY <1>5, <1>6 DEF Justifying
<1>8. ASSUME NEW v \in Time, internal'[v] > 0 PROVE Justified(v)
  <2>1. internal[v] > 0 \/ Leq(t, v)
    <3>1. found.internal[v] <= internal[v] /\ found.internal[v] \in Int /\ internal[v] \in Int
          /\ found.available[t] \in Nat
      BY <1>1 DEF Counted, CountTypes
    <3>2. CASE internal' = Plus(found.internal, t, -found.available[t])
      BY <1>1, <1>2, <1>8, <3>1, <3>2 DEF Plus
    <3>3. ASSUME NEW u \in Time, Leq(t, u),
                 internal' = Plus(Plus(found.internal, t, -found.available[t]), u, 1)
          PROVE  internal[v] > 0 \/ Leq(t, v)
      BY <1>1, <1>2, <1>8, <3>1, <3>3 DEF Plus
    <3> QED
      BY <1>2, <3>2, <3>3
  <2> QED
    BY <1>5, <2>1, LaterJustified DEF Justifying
<1> QED
  BY <1>4, <1>6, <1>7, <1>8 DEF Justifying, Justified

LEMMA RestJustifying ==
  ASSUME CountTypes, Justifying,
         \/ \E i \in Input : Send(i) \/ MoveUp(i) \/ Drained(i)
         \/ Start \/ NotifiedAll \/ Report \/ UNCHANGED vars
  PROVE  Justifying'
<1>1. CASE Report
  BY <1>1 DEF Report, Justifying, OutTypes, CountTypes
<1>2. CASE ~Report
  <2>1. UNCHANGED <<reported, consumed, buffer, produced, emitted>>
    BY <1>2 DEF Send, MoveUp, Drained, Start, NotifiedAll, vars, output
  <2>2. \A u \in Time : internal'[u] > 0 => internal[u] > 0
    <3>1. ASSUME NEW fs, MakeAvailable(fs), NEW u \in Time, internal'[u] > 0 PROVE internal[u] > 0
      <4>1. internal'[u] <= internal[u] /\ internal'[u] \in Int /\ internal[u] \in Int
        BY <3>1, MergingLess DEF MakeAvailable, CountTypes
      <4> QED
        BY <3>1, <4>1
    <3>2. ASSUME internal' = internal, NEW u \in Time, internal'[u] > 0 PROVE internal[u] > 0
      BY <3>2
    <3>3. internal' = internal \/ \E fs : MakeAvailable(fs)
      BY <1>2 DEF Send, MoveUp, Drained, Start, NotifiedAll, vars, requests
    <3> QED
      BY <3>1, <3>2, <3>3
  <2> QED
    BY <2>1, <2>2 DEF Justifying, OutTypes, Justified
<1> QED
  BY <1>1, <1>2

-----------------------------------------------------------------------------
(* The order in which a state machine folds *)

\* Nothing of before d waits, is held back or can still be sent.
Passed(d) ==
  /\ \A u \in upstream["input1"] : ~Less(u, d)
  /\ \A k \in 1 .. Len(queue["input1"]) : ~Less(queue["input1"][k][1], d)
  /\ \A s \in stash : ~Less(s[1], d)

\* A state machine has one input, empties its heap before it pulls, and has passed the
\* time of everything it has folded.
Folding ==
  logic = "state_machine" =>
    /\ upstream["input2"] = {} /\ frontier["input2"] = {}
    /\ step # "input2"
    /\ step # "notify" => \A t \in Time : available[t] = 0
    /\ \A t \in Time : available[t] > 0 => Ready(frontier, t)
    /\ \A d \in emitted : Passed(d[1])

LEMMA LessFollows ==
  ASSUME OrderAssumption, NEW r \in Time, NEW s \in Time, NEW t \in Time
  PROVE  /\ Leq(r, s) /\ Less(s, t) => Less(r, t)
         /\ Less(s, t) => Leq(s, t) /\ Before(s, t) /\ ~Before(t, s)
         /\ Less(s, t) => ~Leq(t, s)
BY DEF OrderAssumption, Less

LEMMA InitFolding ==
  ASSUME OrderAssumption, Init
  PROVE  Folding
BY DEF Init, Folding, Input

\* Upstream sends and moves on only from where it is.
LEMMA UpstreamFolding ==
  ASSUME OrderAssumption, World, OutTypes, Folding, \E i \in Input : Send(i) \/ MoveUp(i)
  PROVE  Folding'
<1> SUFFICES ASSUME logic = "state_machine" PROVE Folding'
  BY DEF Folding, Send, MoveUp
<1>1. PICK i \in Input : Send(i) \/ MoveUp(i)
  OBVIOUS
<1>2. /\ upstream \in [Input -> SUBSET Time] /\ queue \in [Input -> Seq(Time \X Nat)]
      /\ Input = {"input1", "input2"} /\ \A d \in emitted : d[1] \in Time
  BY DEF World, WorldTypes, Input, OutTypes
<1>3. UNCHANGED <<logic, frontier, step, available, emitted, stash>>
  BY <1>1 DEF Send, MoveUp, requests, output
<1>4. CASE Send(i)
  <2>1. i = "input1"
    BY <1>2, <1>4 DEF Send
  <2>2. PICK t \in Time : /\ \E u \in upstream["input1"] : Leq(u, t)
                          /\ queue' = [queue EXCEPT !["input1"] = Append(@, <<t, sentUp + 1>>)]
    BY <1>4, <2>1 DEF Send
  <2>3. ASSUME NEW d \in emitted PROVE Passed(d[1])'
    <3>1. Passed(d[1]) /\ d[1] \in Time
      BY <1>2 DEF Folding
    <3>2. ~Less(t, d[1])
      BY <1>2, <2>2, <3>1, LessFollows DEF Passed
    <3>3. ASSUME NEW k \in 1 .. Len(queue'["input1"]) PROVE ~Less(queue'["input1"][k][1], d[1])
      <4> DEFINE q == queue["input1"]
      <4>1. q \in Seq(Time \X Nat) /\ queue'["input1"] = Append(q, <<t, sentUp + 1>>)
        BY <1>2, <2>2
      <4>2. \A j \in 1 .. Len(q) : ~Less(q[j][1], d[1])
        BY <3>1 DEF Passed
      <4> HIDE DEF q
      <4>3. CASE k = Len(q) + 1
        BY <3>2, <4>1, <4>3
      <4>4. CASE k # Len(q) + 1
        <5>1. k \in 1 .. Len(q) /\ queue'["input1"][k] = q[k]
          BY <4>1, <4>4
        <5> QED
          BY <4>2, <5>1
      <4> QED
        BY <4>3, <4>4
    <3> QED
      BY <1>3, <1>4, <3>1, <3>3 DEF Passed, Send
  <2> QED
    BY <1>3, <1>4, <2>3 DEF Folding, Send, Ready
<1>5. CASE MoveUp(i)
  <2>1. PICK f \in SUBSET Time : /\ \A t \in f : \E u \in upstream[i] : Leq(u, t)
                                 /\ upstream' = [upstream EXCEPT ![i] = f]
    BY <1>5 DEF MoveUp, OrderAssumption
  <2>2. upstream'["input2"] = {}
    BY <1>2, <2>1 DEF Folding
  <2>3. \A v \in upstream'["input1"] : v \in Time /\ \E u \in upstream["input1"] : Leq(u, v)
    BY <1>2, <2>1 DEF OrderAssumption
  <2>4. ASSUME NEW d \in emitted PROVE Passed(d[1])'
    <3>1. Passed(d[1]) /\ d[1] \in Time
      BY <1>2 DEF Folding
    <3>2. \A v \in upstream'["input1"] : ~Less(v, d[1])
      BY <1>2, <2>3, <3>1, LessFollows DEF Passed
    <3> QED
      BY <1>3, <1>5, <3>1, <3>2 DEF Passed, MoveUp
  <2> QED
    BY <1>3, <2>2, <2>4 DEF Folding, Ready
<1> QED
  BY <1>1, <1>4, <1>5

\* What is held back has a request that is not ready: a message that is folded at once is
\* at the frontier, and nothing is before it.
LEMMA PullFolding ==
  ASSUME OrderAssumption, CountTypes, World, Order, Stash, OutTypes, Folding,
         logic = "state_machine", NEW i \in Input, Pull(i)
  PROVE  Folding' /\ \A e \in emitted' \ emitted, d \in emitted : ~Less(e[1], d[1])
<1> PICK t, r : t = Head(queue[i])[1] /\ r = Head(queue[i])[2]
  OBVIOUS
<1>1. /\ i = "input1" /\ step = "input1"
      /\ queue' = [queue EXCEPT !["input1"] = Tail(@)] /\ queue["input1"] # <<>>
      /\ UNCHANGED <<logic, step, upstream, frontier>>
      /\ PullStateMachine(t, r)
  BY DEF Pull, Folding, Input
<1>2. /\ t \in Time /\ t = queue["input1"][1][1] /\ 1 \in 1 .. Len(queue["input1"])
      /\ queue["input1"] \in Seq(Time \X Nat)
      /\ \A d \in emitted : d[1] \in Time /\ \A s \in stash : s[1] \in Time
  BY <1>1 DEF Stash, StashTypes, OutTypes, World, WorldTypes, Input
<1>3. \A u \in Time : available[u] = 0
  BY <1>1 DEF Folding
<1>4. PICK f0 \in upstream["input1"] : Leq(f0, t)
  BY <1>1, <1>2 DEF World, Admitted
<1>5. \A k \in 1 .. Len(queue'["input1"]) : \E j \in 1 .. Len(queue["input1"]) :
        queue'["input1"][k] = queue["input1"][j]
  <2> DEFINE q == queue["input1"]
  <2>1. queue'["input1"] = Tail(q) /\ q \in Seq(Time \X Nat) /\ q # <<>>
    BY <1>1, <1>2 DEF World, WorldTypes, Input
  <2> HIDE DEF q
  <2>2. ASSUME NEW k \in 1 .. Len(Tail(q)) PROVE \E j \in 1 .. Len(q) : Tail(q)[k] = q[j]
    <3>1. k + 1 \in 1 .. Len(q) /\ Tail(q)[k] = q[k + 1]
      BY <2>1
    <3> QED
      BY <3>1
  <2> QED
    BY <2>1, <2>2 DEF q
<1>6. ASSUME stash' \subseteq stash \cup {<<t, r>>}, NEW d \in emitted
      PROVE  Passed(d[1])' /\ ~Less(t, d[1])
  <2>1. Passed(d[1])
    BY <1>1 DEF Folding
  <2>2. ~Less(t, d[1])
    BY <1>2, <2>1 DEF Passed
  <2>3. \A k \in 1 .. Len(queue'["input1"]) : ~Less(queue'["input1"][k][1], d[1])
    BY <1>5, <2>1 DEF Passed
  <2> QED
    BY <1>1, <1>6, <2>1, <2>2, <2>3 DEF Passed
<1>7. CASE /\ \E f \in frontier["input1"] : Less(f, t)
           /\ stash' = stash \cup {<<t, r>>} /\ NotifyAt(t) /\ UNCHANGED output
  <2>1. ~Ready(frontier, t)
    BY <1>7 DEF Ready, Input, Less
  <2>2. available' = available
    BY <1>7, <2>1 DEF NotifyAt, Requested
  <2> QED
    BY <1>1, <1>6, <1>7, <2>2 DEF Folding, Ready, output
<1>8. CASE /\ ~ \E f \in frontier["input1"] : Less(f, t)
           /\ Give(t, {r}) /\ UNCHANGED <<stash, requests>>
  <2>1. emitted' = emitted \cup {<<t, r>>} /\ stash' = stash /\ available' = available
        /\ pending' = pending
    BY <1>8 DEF Give, requests
  <2>2. /\ frontier["input1"] \subseteq Time /\ upstream["input1"] \subseteq Time
        /\ \A u \in upstream["input1"] : \E f \in frontier["input1"] : Leq(f, u)
        /\ \A k \in 1 .. Len(queue["input1"]) :
             /\ queue["input1"][k][1] \in Time
             /\ \E u \in upstream["input1"] : Leq(u, queue["input1"][k][1])
    BY DEF World, WorldTypes, Behind, Admitted, Input
  <2>3. \A u \in upstream["input1"] : ~Less(u, t)
    BY <1>2, <1>8, <2>2, LessFollows
  <2>4. \A k \in 1 .. Len(queue["input1"]) : ~Less(queue["input1"][k][1], t)
    BY <1>2, <2>2, <2>3, LessFollows
  <2>5. ASSUME NEW s \in stash PROVE ~Less(s[1], t)
    <3>1. s[1] \in Time
      BY DEF Stash, StashTypes
    <3>2. pending[s[1]] + available[s[1]] > 0
      BY DEF Stash, NothingStranded
    <3>3. pending[s[1]] > 0
      BY <1>3, <3>1, <3>2 DEF CountTypes
    <3>4. ~Ready(frontier, s[1])
      BY <1>1, <3>1, <3>3 DEF Order, PendingNotReady
    <3>5. PICK f \in frontier["input1"] : Leq(f, s[1])
      BY <3>4 DEF Ready, Input, Folding
    <3> QED
      BY <1>2, <1>8, <2>2, <3>1, <3>5, LessFollows
  <2>6. Passed(t)'
    BY <1>1, <1>5, <2>1, <2>3, <2>4, <2>5 DEF Passed
  <2>7. \A d \in emitted : Passed(d[1])' /\ ~Less(t, d[1])
    BY <1>6, <2>1
  <2>8. \A d \in emitted' : Passed(d[1])'
    BY <2>1, <2>6, <2>7
  <2> QED
    BY <1>1, <2>1, <2>7, <2>8 DEF Folding, Ready
<1> QED
  BY <1>1, <1>7, <1>8 DEF PullStateMachine

\* A time that is notified is the earliest of those that are ready, and those that are not
\* are not before it.
LEMMA NotifyFolding ==
  ASSUME OrderAssumption, BoundsAssumption, CountTypes, World, Order, Stash, OutTypes, Folding,
         logic = "state_machine", Notify
  PROVE  Folding' /\ \A e \in emitted' \ emitted, d \in emitted : ~Less(e[1], d[1])
<1>1. PICK t \in Time :
        /\ Looked.available[t] > 0
        /\ Earliest(t, {u \in Time : Looked.available[u] > 0})
        /\ IF NotifiedRecords(t) = {} THEN UNCHANGED output ELSE Give(t, NotifiedRecords(t))
        /\ stash' = {s \in stash : s[2] \notin NotifiedRecords(t)}
        /\ \A u \in Time : available'[u] > 0 => Looked.available[u] > 0
  <2>1. Looked.available \in [Time -> Nat]
    BY DEF Looked, MadeAvailable, CountTypes
  <2> DEFINE a == Looked.available
  <2>2. PICK t \in Time :
          /\ a[t] > 0
          /\ Earliest(t, {u \in Time : a[u] > 0})
          /\ IF NotifiedRecords(t) = {} THEN UNCHANGED output ELSE Give(t, NotifiedRecords(t))
          /\ stash' = {s \in stash : s[2] \notin NotifiedRecords(t)}
          /\ available' = [a EXCEPT ![t] = 0]
    BY DEF Notify
  <2>3. \A u \in Time : available'[u] > 0 => a[u] > 0
    <3> HIDE DEF a
    <3> QED
      BY <2>1, <2>2 DEF a
  <2> QED
    BY <2>2, <2>3
<1>2. /\ step = "notify" /\ UNCHANGED <<logic, step, upstream, queue, frontier>>
  BY DEF Notify, world
<1>3. /\ \A d \in emitted : d[1] \in Time
      /\ \A s \in stash : s[1] \in Time /\ s = <<s[1], s[2]>> /\ s[2] \in 1 .. MaxRecords
      /\ upstream["input1"] \subseteq Time
  BY DEF OutTypes, Stash, StashTypes, World, WorldTypes, Input
<1>4. \A u \in Time : Looked.available[u] > 0 => Ready(frontier, u)
  BY LookedReady DEF Folding
<1>5. Ready(frontier, t) /\ Ready(upstream, t)
  <2>1. Ready(frontier, t)
    BY <1>1, <1>4
  <2> QED
    BY <2>1, ReadyStays DEF World, WorldTypes, Behind
<1>6. Passed(t)'
  <2>1. \A u \in upstream["input1"] : ~Less(u, t)
    BY <1>5 DEF Ready, Input, Less
  <2>2. \A k \in 1 .. Len(queue["input1"]) : ~Less(queue["input1"][k][1], t)
    <3>1. \A k \in 1 .. Len(queue["input1"]) :
            /\ queue["input1"][k][1] \in Time
            /\ \E u \in upstream["input1"] : Leq(u, queue["input1"][k][1])
      BY DEF World, WorldTypes, Admitted, Input
    <3> QED
      BY <1>3, <2>1, <3>1, LessFollows
  <2>3. ASSUME NEW s \in stash PROVE ~Less(s[1], t)
    <3> SUFFICES ASSUME Less(s[1], t) PROVE FALSE
      OBVIOUS
    <3>1. s[1] \in Time /\ Leq(s[1], t)
      BY <1>3 DEF Less
    <3>2. pending[s[1]] + available[s[1]] > 0 /\ pending[s[1]] \in Nat /\ available[s[1]] \in Nat
      BY <3>1 DEF Stash, NothingStranded, CountTypes
    <3>3. CASE pending[s[1]] > 0
      <4>1. ~Ready(frontier, s[1])
        BY <1>2, <3>1, <3>3 DEF Order, PendingNotReady
      <4>2. PICK j \in Input : \E f \in frontier[j] : Leq(f, s[1])
        BY <4>1 DEF Ready
      <4>3. PICK f \in frontier[j] : Leq(f, s[1])
        BY <4>2
      <4>4. Leq(f, t)
        <5>1. f \in Time
          BY DEF World, WorldTypes
        <5> QED
          BY <3>1, <4>3, <5>1 DEF OrderAssumption
      <4> QED
        BY <1>5, <4>2, <4>4 DEF Ready
    <3>4. CASE available[s[1]] > 0
      <4>1. Looked.available[s[1]] > 0
        BY <3>1, <3>4 DEF Looked
      <4>2. s[1] # t
        BY DEF Less
      <4>3. Before(t, s[1])
        BY <1>1, <3>1, <4>1, <4>2 DEF Earliest
      <4> QED
        BY <3>1, <4>3, LessFollows
    <3> QED
      BY <3>2, <3>3, <3>4
  <2> QED
    BY <1>1, <1>2, <2>1, <2>2, <2>3 DEF Passed
<1>7. \A d \in emitted : Passed(d[1])'
  <2>1. \A d \in emitted : Passed(d[1])
    BY DEF Folding
  <2> QED
    BY <1>1, <1>2, <2>1 DEF Passed
<1>8. \A e \in emitted' \ emitted : e[1] = t /\ NotifiedRecords(t) # {}
  BY <1>1 DEF Give, output
<1>9. ASSUME NotifiedRecords(t) # {}, NEW d \in emitted PROVE ~Less(t, d[1])
  <2>1. PICK r : <<t, r>> \in stash
    BY <1>9 DEF NotifiedRecords, StashedAt
  <2>2. Passed(d[1])
    BY DEF Folding
  <2> QED
    BY <2>1, <2>2 DEF Passed
<1>10. \A d \in emitted' : Passed(d[1])'
  BY <1>6, <1>7, <1>8
<1> QED
  BY <1>1, <1>2, <1>4, <1>8, <1>9, <1>10 DEF Folding, Ready

LEMMA RestFolding ==
  ASSUME CountTypes, Order, Folding,
         \/ \E i \in Input : Drained(i)
         \/ Start \/ NotifiedAll \/ Report \/ UNCHANGED vars
  PROVE  Folding'
<1> SUFFICES ASSUME logic = "state_machine" PROVE Folding'
  BY DEF Folding, Drained, Start, NotifiedAll, Report, vars
<1>1. UNCHANGED <<logic, upstream, queue, emitted, stash>>
  BY DEF Drained, Start, NotifiedAll, Report, vars, world, output
<1>2. \A d \in emitted' : Passed(d[1])'
  BY <1>1 DEF Folding, Passed
<1>3. step' # "input2"
  <2>1. ASSUME step \in {"input1", "notify"} PROVE NextPart # "input2"
    BY <2>1, PartsFollow DEF Order
  <2>2. Steps(logic)[1] # "input2"
    BY DEF Steps
  <2>3. ASSUME NEW i \in Input, Drained(i) PROVE step \in {"input1", "notify"}
    BY <2>3 DEF Drained, Folding, Input
  <2> QED
    BY <2>1, <2>2, <2>3 DEF Drained, Start, NotifiedAll, Report, vars, Folding
<1>4. /\ step' # "notify" => \A t \in Time : available'[t] = 0
      /\ \A t \in Time : available'[t] > 0 => Ready(frontier', t)
      /\ frontier'["input2"] = {}
  <2>1. CASE Start
    <3>1. Steps(logic)[1] = "notify"
      BY DEF Steps
    <3>2. /\ step' = "notify" /\ frontier' = upstream
          /\ available' = [t \in Time |-> available[t] + (IF t \in Moved(upstream) THEN 1 ELSE 0)]
      BY <2>1, <3>1 DEF Start, MakeAvailable, MadeAvailable
    <3>3. \A t \in Time : available[t] = 0
      BY <2>1 DEF Start, Folding
    <3> QED
      BY <3>2, <3>3 DEF Moved, Folding
  <2>2. CASE NotifiedAll
    <3>1. \A t \in Time : available'[t] = 0
      BY <2>2 DEF NotifiedAll, Looked, MakeAvailable
    <3> QED
      BY <2>2, <3>1 DEF NotifiedAll, Folding
  <2>3. CASE (\E i \in Input : Drained(i)) \/ Report \/ UNCHANGED vars
    <3>1. /\ UNCHANGED <<available, frontier>>
          /\ step = "notify" => step' = "notify"
      BY <2>3 DEF Drained, Report, vars, requests, Input
    <3> QED
      BY <3>1 DEF Folding
  <2> QED
    BY <2>1, <2>2, <2>3
<1> QED
  BY <1>1, <1>2, <1>3, <1>4 DEF Folding, Ready

-----------------------------------------------------------------------------
(* The theorems *)

IInv == Counted /\ World /\ Order /\ Stash

\* The inductive invariant holds before the first schedule.
LEMMA InitIInv == ASSUME OrderAssumption, LogicAssumption PROVE Init => IInv
<1> SUFFICES ASSUME Init PROVE IInv
  OBVIOUS
<1> USE DEF Init, OrderAssumption
<1>1. Counted
  BY DEF Counted, CountTypes, CapabilitiesCounted
<1>2. World
  BY DEF World, WorldTypes, Behind, Admitted, HandedOut, Input
<1>3. Order
  BY DEF LogicAssumption, Order, StepTypes, PendingNotReady, SessionBegins, SessionOrdered,
         NotifiedInOrder
<1>4. Stash
  BY DEF Stash, StashTypes, NothingStranded
<1> QED
  BY <1>1, <1>2, <1>3, <1>4 DEF IInv

\* Every step keeps the inductive invariant.
LEMMA NextIInv == ASSUME OrderAssumption, BoundsAssumption PROVE IInv /\ [Next]_vars => IInv'
<1> SUFFICES ASSUME IInv, [Next]_vars PROVE IInv'
  OBVIOUS
<1> USE DEF IInv
<1>1. CountTypes /\ WorldTypes
  BY DEF Counted, World
<1>2. Counted'
  BY <1>1, CountedKept DEF WorldTypes
<1>3. World'
  BY <1>1, SendKeepsWorld, MoveUpKeepsWorld, PullKeepsWorld, NotifyKeepsWorld,
     ScheduleKeepsWorld DEF Next
<1>4. Order'
  BY <1>1, StartKeepsOrder, PullKeepsOrder, NotifyKeepsOrder, RestKeepsOrder DEF Next
<1>5. Stash'
  BY <1>1, PullKeepsStash, NotifyKeepsStash, RestKeepsStash DEF Next
<1> QED
  BY <1>2, <1>3, <1>4, <1>5

\* notificator.rs: the counts, the frontiers, the order and the records that are kept
\* agree with each other in every state.
THEOREM Invariance ==
  ASSUME OrderAssumption, BoundsAssumption, LogicAssumption PROVE Spec => []IInv
BY InitIInv, NextIInv, PTL DEF Spec

\* capability.rs, notificator.rs: every capability is one that progress tracking knows of or
\* will learn of in the next report, and it knows of no other, for every operator and any
\* number of requests.
THEOREM EveryCapabilityCounted ==
  ASSUME OrderAssumption, BoundsAssumption, LogicAssumption PROVE Spec => []CapabilitiesCounted
<1>1. IInv => CapabilitiesCounted
  BY DEF IInv, Counted
<1> QED
  BY <1>1, Invariance, PTL

\* FrontierNotificator::make_available: no message at or before a notified time is queued or
\* can still be sent, on any input.
THEOREM NotifiedTimesComplete ==
  ASSUME OrderAssumption, BoundsAssumption, LogicAssumption PROVE Spec => []NotifiedOnlyWhenComplete
<1>1. IInv => NotifiedOnlyWhenComplete
  BY CompleteFollows DEF IInv
<1> QED
  BY <1>1, Invariance, PTL

\* FrontierNotificator::next: whatever a closure asks for while it is notified, within one
\* schedule no time comes after a later one, for every total order that extends that of times.
THEOREM NotificationsOrdered ==
  ASSUME OrderAssumption, BoundsAssumption, LogicAssumption PROVE Spec => []NotifiedInOrder
<1>1. IInv => NotifiedInOrder
  BY DEF IInv, Order
<1> QED
  BY <1>1, Invariance, PTL

\* Delay, Aggregate, StateMachine, Reclock: a record that an operator holds back is one a
\* request is kept for, or, for Reclock, one that no clock has covered yet.
THEOREM NothingHeldForever ==
  ASSUME OrderAssumption, BoundsAssumption, LogicAssumption PROVE Spec => []NothingStranded
<1>1. IInv => NothingStranded
  BY DEF IInv, Stash
<1> QED
  BY <1>1, Invariance, PTL

\* The two halves of what notificator.rs promises, as the runs check them.
THEOREM SoundNotifications ==
  ASSUME OrderAssumption, BoundsAssumption, LogicAssumption PROVE Spec => []NotificationsSound
<1>1. NotifiedOnlyWhenComplete /\ NotifiedInOrder => NotificationsSound
  BY DEF NotificationsSound
<1> QED
  BY <1>1, NotifiedTimesComplete, NotificationsOrdered, PTL

\* Requests and the capabilities behind them, through merging, moving and notifying.
THEOREM KeptRequests ==
  ASSUME OrderAssumption, BoundsAssumption, LogicAssumption PROVE Spec => []RequestsKept
<1>1. CapabilitiesCounted /\ NothingStranded => RequestsKept
  BY DEF RequestsKept
<1> QED
  BY <1>1, EveryCapabilityCounted, NothingHeldForever, PTL

\* What is given out in a step is in the order of times, and what a report says is justified.
GivenInOrder ==
  logic = "state_machine" => \A e \in emitted' \ emitted, d \in emitted : ~Less(e[1], d[1])

ReportIsJustified ==
  step = "report" /\ step' = "idle" =>
    /\ buffer' = {}
    /\ \A t \in {p[1] : p \in produced \cup buffer} \cup {u \in Time : internal[u] > 0} :
         \/ \E s \in Time : Leq(s, t) /\ reported[s] > 0
         \/ \E i \in Input : \E c \in consumed[i] : Leq(c[1], t)

OInv == IInv /\ Justifying /\ Folding

LEMMA NextOInv ==
  ASSUME OrderAssumption, BoundsAssumption, OInv, [Next]_vars
  PROVE  OInv' /\ GivenInOrder /\ ReportIsJustified
<1>1. /\ IInv /\ Justifying /\ Folding /\ OutTypes /\ Counted /\ CountTypes /\ World /\ Order
      /\ Stash
  BY DEF OInv, IInv, Justifying, Counted
<1>2. IInv'
  BY <1>1, NextIInv
<1>3. Justifying'
  BY <1>1, PullJustifying, NotifyJustifying, RestJustifying DEF Next
<1>4. ASSUME NEW i \in Input, Pull(i) PROVE Folding' /\ GivenInOrder
  <2>1. logic' = logic
    BY <1>4 DEF Pull
  <2> QED
    BY <1>1, <1>4, <2>1, PullFolding DEF Folding, GivenInOrder
<1>5. CASE Notify
  <2>1. logic' = logic
    BY <1>5 DEF Notify
  <2>2. Folding' /\ GivenInOrder
    BY <1>1, <1>5, <2>1, NotifyFolding DEF Folding, GivenInOrder
  <2> QED
    BY <1>2, <1>3, <1>5, <2>2 DEF OInv, Notify, ReportIsJustified
<1>6. CASE ~Notify /\ ~ \E i \in Input : Pull(i)
  <2>1. Folding'
    BY <1>1, <1>6, UpstreamFolding, RestFolding DEF Next
  <2>2. emitted' = emitted
    BY <1>6 DEF Next, Send, MoveUp, Drained, Start, NotifiedAll, Report, vars, output
  <2>3. ReportIsJustified
    <3>1. CASE Report
      BY <1>1, <3>1 DEF Report, ReportIsJustified, Justifying, Justified
    <3>2. CASE ~Report
      BY <1>6, <3>2 DEF Next, Send, MoveUp, Drained, Start, NotifiedAll, vars, Input,
         ReportIsJustified
    <3> QED
      BY <3>1, <3>2
  <2> QED
    BY <1>2, <1>3, <2>1, <2>2, <2>3 DEF OInv, GivenInOrder
<1>7. ASSUME NEW i \in Input, Pull(i) PROVE ReportIsJustified
  BY <1>7 DEF Pull, Input, ReportIsJustified
<1> QED
  BY <1>2, <1>3, <1>4, <1>5, <1>6, <1>7 DEF OInv

\* builder_rc.rs, handles.rs, state_machine.rs: a schedule reports as produced or held only
\* what a capability reported before or a message consumed in it justifies, with nothing left
\* in the output's buffer; and a state machine folds nothing after a later time.
THEOREM JustifiedOutput ==
  ASSUME OrderAssumption, MinimumAssumption, BoundsAssumption, LogicAssumption
  PROVE  Spec => OutputJustified
<1>1. Init => OInv
  BY InitIInv, InitJustifying, InitFolding DEF OInv
<1>2. OInv /\ [Next]_vars => OInv' /\ GivenInOrder /\ ReportIsJustified
  BY NextOInv
<1>3. Spec => [][GivenInOrder]_vars /\ [][ReportIsJustified]_vars
  BY <1>1, <1>2, PTL DEF Spec
<1>4. [][GivenInOrder]_vars /\ [][ReportIsJustified]_vars => OutputJustified
  BY DEF GivenInOrder, ReportIsJustified, OutputJustified, ReportsJustified, FoldedInOrder
<1> QED
  BY <1>3, <1>4

-----------------------------------------------------------------------------
(* What the threads of a computation send and wait for as they start *)

\* Startup's Cardinality is the library's.
LEMMA SameCardinality == \A S : ST!Cardinality(S) = Cardinality(S)
BY DEF ST!Cardinality, Cardinality

\* The numbers of processes, and of workers in each.
N == st_shape[1]
T == st_shape[2]

\* Only clusters have more than one process.
ShapeTypes ==
  /\ st_config \in {"cluster", "process", "process_binary"}
  /\ st_shape \in (Nat \ {0}) \X (Nat \ {0})
  /\ st_config # "cluster" => N = 1

\* Two sequences behind each other, as a function.
LEMMA Concatenated ==
  ASSUME NEW m \in Nat, NEW n \in Nat, NEW f, NEW g,
         f = [i \in 1 .. m |-> f[i]], g = [i \in 1 .. n |-> g[i]]
  PROVE  f \o g = [i \in 1 .. m + n |-> IF i <= m THEN f[i] ELSE g[i - m]]
<1> DEFINE S == {f[i] : i \in 1 .. m} \cup {g[i] : i \in 1 .. n}
<1>1. f \in Seq(S) /\ Len(f) = m
  <2>1. f \in [1 .. m -> S] OBVIOUS
  <2> QED BY <2>1
<1>2. g \in Seq(S) /\ Len(g) = n
  <2>1. g \in [1 .. n -> S] OBVIOUS
  <2> QED BY <2>1
<1> HIDE DEF S
<1>3. /\ f \o g \in Seq(S)
      /\ Len(f \o g) = m + n
      /\ \A i \in 1 .. m + n : (f \o g)[i] = IF i <= m THEN f[i] ELSE g[i - m]
  BY <1>1, <1>2, ConcatProperties
<1>4. f \o g = [i \in 1 .. m + n |-> (f \o g)[i]] BY <1>3
<1> QED BY <1>3, <1>4

\* The two kinds of a thread's operations.
SendOp(to, what) == [op |-> "send", to |-> to, what |-> what]
RecvOp(from, what) == [op |-> "recv", from |-> from, what |-> what]

\* What a worker's own process goes by.
Local == IF st_config = "process_binary" THEN "queue" ELSE "buzzer"

LEMMA OpFields ==
  \A a, b : /\ SendOp(a, b).op = "send" /\ SendOp(a, b).to = a /\ SendOp(a, b).what = b
            /\ RecvOp(a, b).op = "recv" /\ RecvOp(a, b).from = a /\ RecvOp(a, b).what = b
BY DEF SendOp, RecvOp

\* What a worker does in all: handles for the receive threads of its process, those that it
\* has from the send threads, then what it sends to and has from the process's workers.
\* Without other processes the first two are empty.
LEMMA WorkerPart ==
  ASSUME ShapeTypes, NEW w \in ST!Worker
  PROVE  ST!Part(w) =
           [i \in 1 .. (N - 1) + (N - 1) + (T + T) |->
              IF i <= N - 1 THEN SendOp(<<"recv", w[2], i>>, "queue")
              ELSE IF i <= (N - 1) + (N - 1) THEN RecvOp(<<"send", w[2], i - (N - 1)>>, "queue")
              ELSE IF i <= (N - 1) + (N - 1) + T
              THEN SendOp(<<"worker", w[2], i - ((N - 1) + (N - 1)) - 1>>, Local)
              ELSE RecvOp(<<"worker", w[2], i - ((N - 1) + (N - 1) + T) - 1>>, Local)]
<1>0. N - 1 \in Nat /\ T \in Nat BY DEF ShapeTypes, N, T
<1>1. PICK n \in Nat : n = N - 1 BY <1>0
<1>2. PICK t \in Nat : t = T BY <1>0
<1> DEFINE a == [i \in 1 .. n |-> SendOp(<<"recv", w[2], i>>, "queue")]
           b == [i \in 1 .. n |-> RecvOp(<<"send", w[2], i>>, "queue")]
           c == [i \in 1 .. t |-> SendOp(<<"worker", w[2], i - 1>>, Local)]
           d == [i \in 1 .. t |-> RecvOp(<<"worker", w[2], i - 1>>, Local)]
           cd == [i \in 1 .. t + t |-> IF i <= t THEN c[i] ELSE d[i - t]]
           ab == [i \in 1 .. n + n |-> IF i <= n THEN a[i] ELSE b[i - n]]
<1>3. c \o d = cd
  BY Concatenated, <1>2, SMTT(30)
<1>4. a \o b = ab
  BY Concatenated, <1>1
<1>5. ab \o cd = [i \in 1 .. (n + n) + (t + t) |-> IF i <= n + n THEN ab[i] ELSE cd[i - (n + n)]]
  <2> HIDE DEF a, b, c, d
  <2>1. PICK k \in Nat : k = n + n OBVIOUS
  <2>2. PICK l \in Nat : l = t + t OBVIOUS
  <2>3. ab = [i \in 1 .. k |-> ab[i]] /\ cd = [i \in 1 .. l |-> cd[i]] BY <2>1, <2>2
  <2> HIDE DEF ab, cd
  <2>4. ab \o cd = [i \in 1 .. k + l |-> IF i <= k THEN ab[i] ELSE cd[i - k]]
    BY <2>3, Concatenated
  <2> QED BY <2>1, <2>2, <2>4
<1>6. ST!Part(w) = ab \o cd
  <2>1. w[1] = "worker" BY DEF ST!Worker
  <2>2. ST!Sends(w, ST!Network("recv", w[2]), "queue") = a
    BY <1>1 DEF ST!Sends, ST!Network, N, SendOp
  <2>3. ST!Recvs(ST!Network("send", w[2]), "queue") = b
    BY <1>1 DEF ST!Recvs, ST!Network, N, RecvOp
  <2>4. ST!Sends(w, ST!Local(w[2]), Local) = c
    BY <1>2 DEF ST!Sends, ST!Local, T, SendOp
  <2>5. ST!Recvs(ST!Local(w[2]), Local) = d
    BY <1>2 DEF ST!Recvs, ST!Local, T, RecvOp
  <2>6. CASE st_config = "cluster"
    <3>1. ST!Part(w) = (a \o b) \o (c \o d)
      BY <2>1, <2>2, <2>3, <2>4, <2>5, <2>6 DEF ST!Part, ST!Build, ST!RemoteQueues, ST!Buzzers, Local
    <3> QED BY <3>1, <1>3, <1>4
  <2>7. CASE st_config # "cluster"
    <3>1. ST!Part(w) = c \o d
      BY <2>1, <2>4, <2>5, <2>7 DEF ST!Part, ST!Build, ST!Buzzers, ST!Queues, Local, ShapeTypes
    <3>2. n = 0 BY <2>7, <1>1 DEF ShapeTypes
    <3>3. ab \o cd = cd
      <4> HIDE DEF c, d, a, b
      <4> QED BY <1>5, <3>2
    <3> QED BY <3>1, <3>3, <1>3
  <2> QED BY <2>6, <2>7
<1>7. ab \o cd = [i \in 1 .. n + n + (t + t) |->
              IF i <= n THEN SendOp(<<"recv", w[2], i>>, "queue")
              ELSE IF i <= n + n THEN RecvOp(<<"send", w[2], i - n>>, "queue")
              ELSE IF i <= n + n + t
              THEN SendOp(<<"worker", w[2], i - (n + n) - 1>>, Local)
              ELSE RecvOp(<<"worker", w[2], i - (n + n + t) - 1>>, Local)]
  <2> SUFFICES ASSUME NEW i \in 1 .. n + n + (t + t)
               PROVE  (IF i <= n + n THEN ab[i] ELSE cd[i - (n + n)]) =
                IF i <= n THEN SendOp(<<"recv", w[2], i>>, "queue")
                ELSE IF i <= n + n THEN RecvOp(<<"send", w[2], i - n>>, "queue")
                ELSE IF i <= n + n + t
                THEN SendOp(<<"worker", w[2], i - (n + n) - 1>>, Local)
                ELSE RecvOp(<<"worker", w[2], i - (n + n + t) - 1>>, Local)
    BY <1>5
  <2>1. CASE i <= n + n BY <2>1
  <2>2. CASE i > n + n
    <3>1. i - (n + n) - t = i - (n + n + t) OBVIOUS
    <3>2. CASE i <= n + n + t BY <2>2, <3>2
    <3>3. CASE i > n + n + t
      <4>1. i - (n + n) - t \in 1 .. t BY <2>2, <3>3
      <4>2. cd[i - (n + n)] = d[i - (n + n) - t] BY <2>2, <3>3
      <4> QED BY <4>1, <4>2, <3>1, <2>2, <3>3
    <3> QED BY <3>2, <3>3
  <2> QED BY <2>1, <2>2
<1> QED BY <1>6, <1>7, <1>1, <1>2

\* A send thread gives every worker of its process a handle, a receive thread has one of each.
LEMMA NetworkPart ==
  ASSUME ShapeTypes, NEW th \in ST!NetThread
  PROVE  /\ th[1] = "send" =>
              ST!Part(th) = [i \in 1 .. T |-> SendOp(<<"worker", th[2], i - 1>>, "queue")]
         /\ th[1] = "recv" =>
              ST!Part(th) = [i \in 1 .. T |-> RecvOp(<<"worker", th[2], i - 1>>, "queue")]
<1>1. ASSUME th[1] = "send"
      PROVE  ST!Part(th) = [i \in 1 .. T |-> SendOp(<<"worker", th[2], i - 1>>, "queue")]
  <2>1. ST!Part(th) = ST!SendLoop(th) BY <1>1 DEF ST!Part
  <2> QED BY <2>1 DEF ST!SendLoop, ST!Sends, ST!Local, T, SendOp
<1>2. ASSUME th[1] = "recv"
      PROVE  ST!Part(th) = [i \in 1 .. T |-> RecvOp(<<"worker", th[2], i - 1>>, "queue")]
  <2>1. ST!Part(th) = ST!RecvLoop(th) BY <1>2 DEF ST!Part
  <2> QED BY <2>1 DEF ST!RecvLoop, ST!Recvs, ST!Local, T, RecvOp
<1> QED BY <1>1, <1>2

\* The threads and what they do depend on the configuration and the shape alone.
LEMMA ThreadsStay ==
  ASSUME UNCHANGED <<st_config, st_shape>>
  PROVE  /\ ST!AnyThread' = ST!AnyThread
         /\ ST!Proc' = ST!Proc
         /\ \A th : ST!Part(th)' = ST!Part(th)
BY DEF ST!AnyThread, ST!Worker, ST!NetThread, ST!Proc, ST!ThreadIndex, ST!Part, ST!Build, ST!SendLoop,
       ST!RecvLoop, ST!RemoteQueues, ST!Buzzers, ST!Queues, ST!Sends, ST!Recvs, ST!Local,
       ST!Network

-----------------------------------------------------------------------------
(* Connections and handles *)

StartTypes ==
  /\ st_listening \subseteq ST!Proc
  /\ st_connected \in [ST!Proc -> Nat]
  /\ st_backlog \in [ST!Proc -> Seq(ST!Proc)]
  /\ st_accepted \in [ST!Proc -> SUBSET ST!Proc]
  /\ st_step \in [ST!AnyThread -> Nat]

\* Process q has connected to p when it is among those that p accepted or will accept.
Met ==
  /\ \A p \in ST!Proc : st_connected[p] <= p
  /\ \A p, q \in ST!Proc :
       st_connected[q] > p <=>
         q \in st_accepted[p] \/ \E k \in 1 .. Len(st_backlog[p]) : st_backlog[p][k] = q

\* Every handle that a thread has come past the sending of was sent.
Sent ==
  \A th \in ST!AnyThread :
    /\ st_step[th] <= Len(ST!Part(th))
    /\ \A i \in 1 .. st_step[th] :
         ST!Part(th)[i].op = "send" => <<th, ST!Part(th)[i].to, ST!Part(th)[i].what>> \in st_mail

StartInv == ShapeTypes /\ StartTypes /\ Met /\ Sent

LEMMA PartLength ==
  ASSUME ShapeTypes, NEW th \in ST!AnyThread
  PROVE  /\ Len(ST!Part(th)) \in Nat
         /\ th \in ST!Worker => Len(ST!Part(th)) = (N - 1) + (N - 1) + (T + T)
         /\ th \in ST!NetThread => Len(ST!Part(th)) = T
<1>1. N - 1 \in Nat /\ T \in Nat BY DEF ShapeTypes, N, T
<1>2. CASE th \in ST!Worker
  <2>1. PICK l \in Nat : l = (N - 1) + (N - 1) + (T + T) BY <1>1
  <2>2. ST!Part(th) = [i \in 1 .. l |-> ST!Part(th)[i]] BY <1>2, <2>1, WorkerPart
  <2>3. Len(ST!Part(th)) = l
    <3>1. ST!Part(th) \in Seq({ST!Part(th)[i] : i \in 1 .. l})
      <4>1. ST!Part(th) \in [1 .. l -> {ST!Part(th)[i] : i \in 1 .. l}] BY <2>2
      <4> QED BY <4>1
    <3> QED BY <3>1, <2>2
  <2>4. th \notin ST!NetThread BY <1>2 DEF ST!Worker, ST!NetThread
  <2> QED BY <2>1, <2>3, <2>4
<1>3. CASE th \in ST!NetThread
  <2>1. PICK l \in Nat : l = T BY <1>1
  <2>2. ST!Part(th) = [i \in 1 .. l |-> ST!Part(th)[i]]
    <3>1. th[1] \in {"send", "recv"} BY <1>3 DEF ST!NetThread
    <3> QED BY <1>3, <2>1, <3>1, NetworkPart
  <2>3. Len(ST!Part(th)) = l
    <3>1. ST!Part(th) \in Seq({ST!Part(th)[i] : i \in 1 .. l})
      <4>1. ST!Part(th) \in [1 .. l -> {ST!Part(th)[i] : i \in 1 .. l}] BY <2>2
      <4> QED BY <4>1
    <3> QED BY <3>1, <2>2
  <2>4. th \notin ST!Worker BY <1>3 DEF ST!Worker, ST!NetThread
  <2> QED BY <2>1, <2>3, <2>4
<1> QED BY <1>2, <1>3 DEF ST!AnyThread

\* Init establishes the invariant, and every action keeps it.
LEMMA StartBegins == ASSUME ST!ShapesAssumption, ST!Init PROVE StartInv
<1>1. ShapeTypes
  <2>1. st_config \in {"cluster", "process", "process_binary"} BY DEF ST!Init, ST!ShapesAssumption
  <2>2. st_shape \in Shapes /\ (st_config = "cluster" \/ st_shape[1] = 1) BY DEF ST!Init
  <2> QED BY <2>1, <2>2 DEF ST!ShapesAssumption, ShapeTypes, N
<1>2. StartTypes BY DEF ST!Init, StartTypes
<1>3. Met
  <2>1. \A p \in ST!Proc : p \in Nat BY <1>1 DEF ST!Proc, ShapeTypes
  <2>2. \A p \in ST!Proc : st_connected[p] = 0 /\ st_accepted[p] = {} /\ st_backlog[p] = <<>>
    BY DEF ST!Init
  <2> QED BY <2>1, <2>2 DEF Met
<1>4. Sent BY <1>1, PartLength DEF Sent, ST!Init
<1> QED BY <1>1, <1>2, <1>3, <1>4 DEF StartInv

LEMMA ListenKeeps ==
  ASSUME StartInv, NEW p \in ST!Proc, ST!Listen(p) PROVE StartInv'
<1> USE DEF StartInv
<1>1. ShapeTypes' BY DEF ST!Listen, ShapeTypes, N
<1>2. StartTypes' BY ThreadsStay DEF ST!Listen, StartTypes
<1>3. Met' BY ThreadsStay DEF ST!Listen, Met
<1>4. Sent' BY ThreadsStay DEF ST!Listen, Sent
<1> QED BY <1>1, <1>2, <1>3, <1>4

LEMMA ConnectKeeps ==
  ASSUME StartInv, NEW p \in ST!Proc, ST!Connect(p) PROVE StartInv'
<1> USE DEF StartInv
<1>0. UNCHANGED <<st_config, st_shape>> BY DEF ST!Connect
<1>1. ShapeTypes' BY <1>0 DEF ShapeTypes, N
<1>2. PICK c \in ST!Proc : c = st_connected[p]
  BY DEF ST!Connect, StartTypes
<1>3. \A q \in ST!Proc : q \in Nat BY DEF ShapeTypes, ST!Proc
<1>4. /\ st_connected' = [st_connected EXCEPT ![p] = c + 1]
      /\ st_backlog' = [st_backlog EXCEPT ![c] = Append(st_backlog[c], p)]
      /\ st_connected[p] < p
      /\ UNCHANGED <<st_listening, st_accepted, st_step, st_mail>>
  BY <1>2 DEF ST!Connect
<1>5. StartTypes'
  <2>1. Append(st_backlog[c], p) \in Seq(ST!Proc) BY DEF StartTypes
  <2>2. st_backlog' \in [ST!Proc -> Seq(ST!Proc)] BY <2>1, <1>4 DEF StartTypes
  <2>3. st_connected' \in [ST!Proc -> Nat] BY <1>2, <1>3, <1>4 DEF StartTypes
  <2> QED BY <2>2, <2>3, <1>0, <1>4, ThreadsStay DEF StartTypes
<1>6. Met'
  <2>1. ASSUME NEW q \in ST!Proc PROVE st_connected'[q] <= q
    BY <1>2, <1>3, <1>4 DEF Met, StartTypes
  <2>2. ASSUME NEW r \in ST!Proc, NEW q \in ST!Proc
        PROVE  st_connected'[q] > r <=>
                 q \in st_accepted[r] \/ \E k \in 1 .. Len(st_backlog'[r]) : st_backlog'[r][k] = q
    <3>0. st_connected[q] > r <=>
            q \in st_accepted[r] \/ \E k \in 1 .. Len(st_backlog[r]) : st_backlog[r][k] = q
      BY DEF Met
    <3>1. st_backlog[r] \in Seq(ST!Proc) BY DEF StartTypes
    <3>2. CASE r # c
      <4>1. st_backlog'[r] = st_backlog[r] BY <3>2, <1>4 DEF StartTypes
      <4>2. st_connected'[q] > r <=> st_connected[q] > r
        BY <3>2, <1>2, <1>3, <1>4 DEF StartTypes
      <4> QED BY <3>0, <4>1, <4>2
    <3>3. CASE r = c
      <4>1. st_backlog'[r] = Append(st_backlog[r], p) BY <3>3, <1>4 DEF StartTypes
      <4>2. /\ Len(st_backlog'[r]) = Len(st_backlog[r]) + 1
            /\ \A k \in 1 .. Len(st_backlog[r]) : st_backlog'[r][k] = st_backlog[r][k]
            /\ st_backlog'[r][Len(st_backlog[r]) + 1] = p
            /\ Len(st_backlog[r]) \in Nat
        BY <3>1, <4>1, AppendProperties
      <4>3. CASE q = p
        <5>1. st_connected'[q] > r BY <4>3, <3>3, <1>2, <1>3, <1>4 DEF StartTypes
        <5> QED BY <5>1, <4>2, <4>3
      <4>4. CASE q # p
        <5>1. st_connected'[q] = st_connected[q] BY <4>4, <1>4 DEF StartTypes
        <5> QED BY <5>1, <4>2, <4>4, <3>0, SMTT(30)
      <4> QED BY <4>3, <4>4
    <3> QED BY <3>2, <3>3
  <2> QED BY <2>1, <2>2, <1>0, <1>4, ThreadsStay DEF Met
<1>7. Sent' BY <1>0, ThreadsStay DEF ST!Connect, Sent
<1> QED BY <1>1, <1>5, <1>6, <1>7

LEMMA AcceptKeeps ==
  ASSUME StartInv, NEW p \in ST!Proc, ST!Accept(p) PROVE StartInv'
<1> USE DEF StartInv
<1>0. UNCHANGED <<st_config, st_shape>> BY DEF ST!Accept
<1>1. ShapeTypes' BY <1>0 DEF ShapeTypes, N
<1>2. /\ st_backlog[p] # <<>>
      /\ st_accepted' = [st_accepted EXCEPT ![p] = st_accepted[p] \cup {Head(st_backlog[p])}]
      /\ st_backlog' = [st_backlog EXCEPT ![p] = Tail(st_backlog[p])]
      /\ UNCHANGED <<st_listening, st_connected, st_step, st_mail>>
  BY DEF ST!Accept
<1>3. st_backlog[p] \in Seq(ST!Proc) BY DEF StartTypes
<1>4. /\ Head(st_backlog[p]) \in ST!Proc /\ Tail(st_backlog[p]) \in Seq(ST!Proc)
      /\ Head(st_backlog[p]) = st_backlog[p][1]
      /\ Len(st_backlog[p]) \in Nat \ {0}
      /\ Len(Tail(st_backlog[p])) = Len(st_backlog[p]) - 1
      /\ \A k \in 1 .. Len(st_backlog[p]) - 1 : Tail(st_backlog[p])[k] = st_backlog[p][k + 1]
  BY <1>2, <1>3
<1>5. StartTypes'
  <2>1. st_accepted[p] \cup {Head(st_backlog[p])} \subseteq ST!Proc BY <1>4 DEF StartTypes
  <2> QED BY <2>1, <1>0, <1>2, <1>4, ThreadsStay DEF StartTypes
<1>6. Met'
  <2>2. ASSUME NEW r \in ST!Proc, NEW q \in ST!Proc
        PROVE  st_connected[q] > r <=>
                 q \in st_accepted'[r] \/ \E k \in 1 .. Len(st_backlog'[r]) : st_backlog'[r][k] = q
    <3>0. st_connected[q] > r <=>
            q \in st_accepted[r] \/ \E k \in 1 .. Len(st_backlog[r]) : st_backlog[r][k] = q
      BY DEF Met
    <3>2. CASE r # p
      <4>1. st_backlog'[r] = st_backlog[r] /\ st_accepted'[r] = st_accepted[r]
        BY <3>2, <1>2 DEF StartTypes
      <4> QED BY <3>0, <4>1
    <3>3. CASE r = p
      <4>1. st_backlog'[r] = Tail(st_backlog[r])
        BY <3>3, <1>2 DEF StartTypes
      <4>2. st_accepted'[r] = st_accepted[r] \cup {st_backlog[r][1]}
        BY <3>3, <1>2, <1>4 DEF StartTypes
      <4>3. (\E k \in 1 .. Len(st_backlog[r]) : st_backlog[r][k] = q) <=>
              q = st_backlog[r][1] \/ \E k \in 1 .. Len(st_backlog'[r]) : st_backlog'[r][k] = q
        <5>1. ASSUME NEW k \in 1 .. Len(st_backlog[r]), st_backlog[r][k] = q, k # 1
              PROVE  \E j \in 1 .. Len(st_backlog'[r]) : st_backlog'[r][j] = q
          <6>1. k - 1 \in 1 .. Len(st_backlog[r]) - 1 BY <5>1, <3>3, <1>4
          <6>2. st_backlog'[r][k - 1] = st_backlog[r][(k - 1) + 1] BY <6>1, <4>1, <3>3, <1>4
          <6> QED BY <6>1, <6>2, <5>1, <4>1, <3>3, <1>4
        <5>2. ASSUME NEW k \in 1 .. Len(st_backlog'[r]), st_backlog'[r][k] = q
              PROVE  \E j \in 1 .. Len(st_backlog[r]) : st_backlog[r][j] = q
          <6>1. k \in 1 .. Len(st_backlog[r]) - 1 /\ k + 1 \in 1 .. Len(st_backlog[r])
            BY <4>1, <3>3, <1>4
          <6> QED BY <6>1, <5>2, <4>1, <3>3, <1>4
        <5>3. 1 \in 1 .. Len(st_backlog[r]) BY <3>3, <1>4
        <5> QED BY <5>1, <5>2, <5>3
      <4> QED BY <3>0, <4>2, <4>3
    <3> QED BY <3>2, <3>3
  <2> QED BY <2>2, <1>0, <1>2, ThreadsStay DEF Met
<1>7. Sent' BY <1>0, ThreadsStay DEF ST!Accept, Sent
<1> QED BY <1>1, <1>5, <1>6, <1>7

LEMMA MoveKeeps ==
  ASSUME StartInv, NEW th \in ST!AnyThread, ST!Move(th) PROVE StartInv'
<1> USE DEF StartInv
<1>0. UNCHANGED <<st_config, st_shape>> BY DEF ST!Move
<1>1. ShapeTypes' BY <1>0 DEF ShapeTypes, N
<1>2. /\ st_step' = [st_step EXCEPT ![th] = st_step[th] + 1]
      /\ UNCHANGED <<st_listening, st_connected, st_backlog, st_accepted>>
      /\ st_mail \subseteq st_mail'
      /\ LET next == ST!Part(th)[st_step[th] + 1]
         IN  next.op = "send" => <<th, next.to, next.what>> \in st_mail'
      /\ st_step[th] # Len(ST!Part(th))
  BY DEF ST!Move, ST!CanMove, ST!Done
<1>3. StartTypes'
  <2>1. st_step' \in [ST!AnyThread -> Nat] BY <1>2 DEF StartTypes
  <2> QED BY <2>1, <1>0, <1>2, ThreadsStay DEF StartTypes
<1>4. Met' BY <1>0, <1>2, ThreadsStay DEF Met
<1>5. Sent'
  <2>1. ASSUME NEW o \in ST!AnyThread
        PROVE  /\ st_step'[o] <= Len(ST!Part(o))
               /\ \A i \in 1 .. st_step'[o] :
                    ST!Part(o)[i].op = "send" => <<o, ST!Part(o)[i].to, ST!Part(o)[i].what>> \in st_mail'
    <3>1. /\ st_step[o] <= Len(ST!Part(o)) /\ st_step[o] \in Nat /\ Len(ST!Part(o)) \in Nat
          /\ \A i \in 1 .. st_step[o] :
               ST!Part(o)[i].op = "send" => <<o, ST!Part(o)[i].to, ST!Part(o)[i].what>> \in st_mail
      BY PartLength DEF Sent, StartTypes
    <3>2. CASE o # th
      <4>1. st_step'[o] = st_step[o] BY <3>2, <1>2 DEF StartTypes
      <4> QED BY <3>1, <4>1, <1>2
    <3>3. CASE o = th
      <4>1. st_step'[o] = st_step[o] + 1 BY <3>3, <1>2 DEF StartTypes
      <4>2. ASSUME NEW i \in 1 .. st_step'[o], ST!Part(o)[i].op = "send"
            PROVE  <<o, ST!Part(o)[i].to, ST!Part(o)[i].what>> \in st_mail'
        <5>1. i \in 1 .. st_step[o] \/ i = st_step[o] + 1 BY <4>1, <3>1
        <5> QED BY <5>1, <3>1, <3>3, <4>2, <1>2
      <4> QED BY <4>1, <4>2, <3>1, <3>3, <1>2
    <3> QED BY <3>2, <3>3
  <2> QED BY <2>1, <1>0, ThreadsStay DEF Sent
<1> QED BY <1>1, <1>3, <1>4, <1>5

LEMMA StartKept ==
  ASSUME StartInv, [ST!Next]_st_vars PROVE StartInv'
<1>1. CASE st_config = "cluster" /\ \E p \in ST!Proc : ST!Listen(p) \/ ST!Connect(p) \/ ST!Accept(p)
  BY <1>1, ListenKeeps, ConnectKeeps, AcceptKeeps
<1>2. CASE \E th \in ST!AnyThread : ST!Move(th)
  BY <1>2, MoveKeeps
<1>3. CASE UNCHANGED st_vars
  <2>0. UNCHANGED <<st_config, st_shape>> BY <1>3 DEF st_vars
  <2>1. ShapeTypes' BY <1>3 DEF StartInv, ShapeTypes, N, st_vars
  <2>2. StartTypes' BY <1>3, <2>0, ThreadsStay DEF StartInv, StartTypes, st_vars
  <2>3. Met' BY <1>3, <2>0, ThreadsStay DEF StartInv, Met, st_vars
  <2>4. Sent' BY <1>3, <2>0, ThreadsStay DEF StartInv, Sent, st_vars
  <2> QED BY <2>1, <2>2, <2>3, <2>4 DEF StartInv
<1> QED BY <1>1, <1>2, <1>3 DEF ST!Next

-----------------------------------------------------------------------------
(* Nobody waits forever *)

\* When no process can listen, connect or accept, all have connected and been accepted: none
\* listens too late, since it listens before it waits, and p waits for those after it only.
LEMMA AllMet ==
  ASSUME StartInv,
         st_config = "cluster" =>
           \A p \in ST!Proc : /\ p \in st_listening
                             /\ ~(st_connected[p] < p /\ st_connected[p] \in st_listening)
                             /\ st_backlog[p] = <<>>
  PROVE  \A p \in ST!Proc : ST!Spawned(p)
<1> USE DEF StartInv
<1>1. CASE st_config # "cluster" BY <1>1 DEF ST!Spawned
<1>2. CASE st_config = "cluster"
  <2>0. N \in Nat \ {0} /\ ST!Proc = 0 .. N - 1 BY DEF ShapeTypes, ST!Proc, N
  <2>1. ASSUME NEW p \in ST!Proc PROVE st_connected[p] = p
    <3>1. st_connected[p] \in Nat /\ st_connected[p] <= p BY DEF StartTypes, Met
    <3>2. SUFFICES ASSUME st_connected[p] < p PROVE FALSE BY <3>1, <2>0
    <3>3. st_connected[p] \in ST!Proc BY <3>1, <3>2, <2>0
    <3> QED BY <3>2, <3>3, <1>2
  <2>2. ASSUME NEW p \in ST!Proc PROVE ST!Spawned(p)
    <3>1. st_accepted[p] = (p + 1) .. (N - 1)
      <4>1. st_accepted[p] \subseteq ST!Proc BY DEF StartTypes
      <4>2. Len(st_backlog[p]) = 0 BY <1>2
      <4>3. ASSUME NEW q \in ST!Proc PROVE q \in st_accepted[p] <=> q > p
        <5>1. st_connected[q] > p <=> q \in st_accepted[p] BY <4>2 DEF Met
        <5> QED BY <5>1, <2>1
      <4>4. p \in 0 .. N - 1 BY <2>0
      <4>5. ASSUME NEW q \in 0 .. N - 1 PROVE q > p <=> q \in (p + 1) .. (N - 1) BY <4>4, <2>0
      <4>6. (p + 1) .. (N - 1) \subseteq 0 .. N - 1 BY <4>4, <2>0
      <4> QED BY <4>1, <4>3, <4>5, <4>6, <2>0
    <3>2. Cardinality(st_accepted[p]) = N - p - 1
      <4>1. p + 1 \in Int /\ N - 1 \in Int /\ p \in 0 .. N - 1 BY <2>0
      <4>2. Cardinality((p + 1) .. (N - 1)) = IF p + 1 > N - 1 THEN 0 ELSE N - 1 - (p + 1) + 1
        BY <4>1, FS_Interval
      <4>3. (IF p + 1 > N - 1 THEN 0 ELSE N - 1 - (p + 1) + 1) = N - p - 1 BY <4>1, <2>0
      <4> QED BY <4>2, <4>3, <3>1
    <3>3. p \in st_listening BY <1>2
    <3> QED BY <3>2, <3>3, <2>1, SameCardinality DEF ST!Spawned, N
  <2> QED BY <2>2
<1> QED BY <1>1, <1>2

\* When no thread can move, all are done.  Send threads wait for nobody; so no worker waits
\* for one of them, every worker comes as far as having sent all it sends, and whoever waits
\* for a worker has what it waits for.
LEMMA SomeoneMoves ==
  ASSUME StartInv, \A p \in ST!Proc : ST!Spawned(p), \A th \in ST!AnyThread : ~ST!CanMove(th)
  PROVE  ST!Built
<1> USE DEF StartInv
<1>0. N - 1 \in Nat /\ T \in Nat /\ N \in Nat BY DEF ShapeTypes, N, T
<1>1. PICK n \in Nat : n = N - 1 BY <1>0
<1>2. PICK t \in Nat : t = T BY <1>0
<1>3. ASSUME NEW th \in ST!AnyThread, ~ST!Done(th)
      PROVE  /\ st_step[th] \in Nat /\ st_step[th] + 1 \in 1 .. Len(ST!Part(th))
             /\ ST!Part(th)[st_step[th] + 1].op = "recv"
             /\ <<ST!Part(th)[st_step[th] + 1].from, th, ST!Part(th)[st_step[th] + 1].what>> \notin st_mail
  <2>1. th[2] \in ST!Proc BY DEF ST!AnyThread, ST!Worker, ST!NetThread
  <2>2. /\ ST!Part(th)[st_step[th] + 1].op = "recv"
        /\ <<ST!Part(th)[st_step[th] + 1].from, th, ST!Part(th)[st_step[th] + 1].what>> \notin st_mail
    BY <1>3, <2>1 DEF ST!CanMove
  <2>3. /\ st_step[th] \in Nat /\ Len(ST!Part(th)) \in Nat
        /\ st_step[th] <= Len(ST!Part(th)) /\ st_step[th] # Len(ST!Part(th))
    BY <1>3, PartLength DEF ST!Done, StartTypes, Sent
  <2> QED BY <2>2, <2>3
<1>4. ASSUME NEW th \in ST!NetThread, th[1] = "send" PROVE ST!Done(th)
  <2>1. th \in ST!AnyThread BY DEF ST!AnyThread
  <2>2. SUFFICES ASSUME ~ST!Done(th) PROVE FALSE OBVIOUS
  <2>3. st_step[th] + 1 \in 1 .. T BY <2>1, <2>2, <1>3, PartLength
  <2>4. ST!Part(th)[st_step[th] + 1].op = "send"
    <3>1. ST!Part(th) = [i \in 1 .. T |-> SendOp(<<"worker", th[2], i - 1>>, "queue")]
      BY <1>4, NetworkPart
    <3>2. PICK k \in 1 .. T : k = st_step[th] + 1 BY <2>3
    <3>3. ST!Part(th)[k] = SendOp(<<"worker", th[2], k - 1>>, "queue") BY <3>1
    <3> QED BY <3>2, <3>3 DEF SendOp
  <2> QED BY <2>1, <2>2, <2>4, <1>3
<1>5. ASSUME NEW th \in ST!NetThread, th[1] = "send", NEW i \in 1 .. t
      PROVE  <<th, <<"worker", th[2], i - 1>>, "queue">> \in st_mail
  <2>1. th \in ST!AnyThread BY DEF ST!AnyThread
  <2>2. i \in 1 .. st_step[th] BY <1>4, <1>5, <1>2, <2>1, PartLength DEF ST!Done
  <2>3. ST!Part(th)[i] = SendOp(<<"worker", th[2], i - 1>>, "queue")
    BY <1>5, <1>2, NetworkPart
  <2> QED BY <2>1, <2>2, <2>3 DEF Sent, SendOp
<1>6. ASSUME NEW w \in ST!Worker, ~ST!Done(w)
      PROVE  /\ st_step[w] \in Nat /\ st_step[w] >= n + n + t /\ st_step[w] < n + n + t + t
             /\ \E i \in 1 .. t : <<<<"worker", w[2], i - 1>>, w, Local>> \notin st_mail
  <2>1. w \in ST!AnyThread BY DEF ST!AnyThread
  <2>0. st_step[w] \in Nat BY <2>1 DEF StartTypes
  <2>2. PICK k \in Nat : k = st_step[w] + 1 BY <2>0
  <2>3. k \in 1 .. (n + n) + (t + t) BY <2>1, <2>2, <1>1, <1>2, <1>3, <1>6, PartLength
  <2>4. ST!Part(w)[k] =
          IF k <= n THEN SendOp(<<"recv", w[2], k>>, "queue")
          ELSE IF k <= n + n THEN RecvOp(<<"send", w[2], k - n>>, "queue")
          ELSE IF k <= n + n + t THEN SendOp(<<"worker", w[2], k - (n + n) - 1>>, Local)
          ELSE RecvOp(<<"worker", w[2], k - (n + n + t) - 1>>, Local)
    BY <2>3, <1>1, <1>2, WorkerPart
  <2>5. /\ ST!Part(w)[k].op = "recv"
        /\ <<ST!Part(w)[k].from, w, ST!Part(w)[k].what>> \notin st_mail
    BY <2>1, <2>2, <1>3, <1>6
  <2>6. ~(k <= n) BY <2>4, <2>5 DEF SendOp
  <2>7. ~(k <= n + n)
    <3>1. SUFFICES ASSUME k <= n + n PROVE FALSE OBVIOUS
    <3>2. ST!Part(w)[k] = RecvOp(<<"send", w[2], k - n>>, "queue") BY <3>1, <2>4, <2>6
    <3>3. PICK p \in ST!Proc, x \in ST!ThreadIndex : w = <<"worker", p, x>> BY DEF ST!Worker
    <3>4. k - n \in 1 .. N - 1 BY <3>1, <2>3, <2>6, <1>1
    <3>5. <<"send", p, k - n>> \in ST!NetThread BY <3>4 DEF ST!NetThread, N
    <3>6. x + 1 \in 1 .. t /\ (x + 1) - 1 = x BY <1>2 DEF ST!ThreadIndex, T
    <3>7. <<<<"send", p, k - n>>, <<"worker", p, x>>, "queue">> \in st_mail
      BY <3>5, <3>6, <1>5
    <3> QED BY <3>2, <3>3, <3>7, <2>5 DEF RecvOp
  <2>8. ~(k <= n + n + t) BY <2>4, <2>5, <2>6, <2>7 DEF SendOp
  <2>9. ST!Part(w)[k] = RecvOp(<<"worker", w[2], k - (n + n + t) - 1>>, Local)
    BY <2>4, <2>6, <2>7, <2>8
  <2>10. k - (n + n + t) \in 1 .. t BY <2>3, <2>8
  <2>11. st_step[w] \in Nat BY <2>1, <1>3, <1>6
  <2> QED BY <2>2, <2>3, <2>5, <2>8, <2>9, <2>10, <2>11 DEF RecvOp
<1>14. ASSUME NEW w \in ST!Worker
       PROVE  /\ \A i \in 1 .. n : ST!Part(w)[i] = SendOp(<<"recv", w[2], i>>, "queue")
              /\ \A i \in 1 .. t : ST!Part(w)[n + n + i] = SendOp(<<"worker", w[2], i - 1>>, Local)
  <2>1. ASSUME NEW i \in 1 .. n
        PROVE  ST!Part(w)[i] = SendOp(<<"recv", w[2], i>>, "queue")
    <3>1. i \in 1 .. n + n + (t + t) /\ i <= n OBVIOUS
    <3> QED BY <3>1, <1>1, <1>2, WorkerPart
  <2>2. ASSUME NEW i \in 1 .. t
        PROVE  ST!Part(w)[n + n + i] = SendOp(<<"worker", w[2], i - 1>>, Local)
    <3>1. PICK k \in 1 .. n + n + (t + t) : k = n + n + i OBVIOUS
    <3>2. ~(k <= n) /\ ~(k <= n + n) /\ k <= n + n + t /\ k - (n + n) - 1 = i - 1 BY <3>1
    <3>3. ST!Part(w)[k] = SendOp(<<"worker", w[2], k - (n + n) - 1>>, Local)
      BY <3>2, <1>1, <1>2, WorkerPart
    <3> QED BY <3>1, <3>2, <3>3
  <2> QED BY <2>1, <2>2
<1>7. ASSUME NEW w \in ST!Worker
      PROVE  st_step[w] \in Nat /\ st_step[w] >= n + n + t
  <2>1. w \in ST!AnyThread BY DEF ST!AnyThread
  <2>2. CASE ST!Done(w)
    <3>1. st_step[w] = (n + n) + (t + t) BY <2>1, <2>2, <1>1, <1>2, PartLength DEF ST!Done
    <3> QED BY <3>1
  <2> QED BY <2>2, <1>6
<1>8. ASSUME NEW w \in ST!Worker, NEW i \in 1 .. n
      PROVE  <<w, <<"recv", w[2], i>>, "queue">> \in st_mail
  <2>1. w \in ST!AnyThread BY DEF ST!AnyThread
  <2>2. i \in 1 .. st_step[w] BY <1>7
  <2>3. ST!Part(w)[i] = SendOp(<<"recv", w[2], i>>, "queue") BY <1>14
  <2> QED BY <2>1, <2>2, <2>3 DEF Sent, SendOp
<1>9. ASSUME NEW w \in ST!Worker, NEW i \in 1 .. t
      PROVE  <<w, <<"worker", w[2], i - 1>>, Local>> \in st_mail
  <2>1. w \in ST!AnyThread BY DEF ST!AnyThread
  <2>2. PICK k \in Nat : k = n + n + i OBVIOUS
  <2>3. k \in 1 .. st_step[w] BY <2>2, <1>7
  <2>4. ST!Part(w)[k] = SendOp(<<"worker", w[2], i - 1>>, Local) BY <1>14, <2>2
  <2> QED BY <2>1, <2>3, <2>4 DEF Sent, SendOp
<1>10. ASSUME NEW w \in ST!Worker PROVE ST!Done(w)
  <2>1. SUFFICES ASSUME ~ST!Done(w) PROVE FALSE OBVIOUS
  <2>2. PICK i \in 1 .. t : <<<<"worker", w[2], i - 1>>, w, Local>> \notin st_mail BY <2>1, <1>6
  <2>3. PICK p \in ST!Proc, x \in ST!ThreadIndex : w = <<"worker", p, x>> BY DEF ST!Worker
  <2>4. <<"worker", p, i - 1>> \in ST!Worker BY <1>2 DEF ST!Worker, ST!ThreadIndex, T
  <2>5. x + 1 \in 1 .. t /\ (x + 1) - 1 = x BY <1>2 DEF ST!ThreadIndex, T
  <2>6. <<<<"worker", p, i - 1>>, <<"worker", p, x>>, Local>> \in st_mail
    BY <2>4, <2>5, <1>9
  <2> QED BY <2>2, <2>3, <2>6
<1>11. ASSUME NEW th \in ST!NetThread, th[1] = "recv" PROVE ST!Done(th)
  <2>1. th \in ST!AnyThread BY DEF ST!AnyThread
  <2>2. SUFFICES ASSUME ~ST!Done(th) PROVE FALSE OBVIOUS
  <2>3. PICK k \in 1 .. t : k = st_step[th] + 1 BY <2>1, <2>2, <1>2, <1>3, PartLength
  <2>4. ST!Part(th)[k] = RecvOp(<<"worker", th[2], k - 1>>, "queue")
    BY <1>11, <1>2, NetworkPart
  <2>5. PICK p \in ST!Proc, i \in 1 .. n : th = <<"recv", p, i>>
    BY <1>11, <1>1 DEF ST!NetThread, N
  <2>6. <<"worker", p, k - 1>> \in ST!Worker BY <1>2 DEF ST!Worker, ST!ThreadIndex, T
  <2>7. <<<<"worker", p, k - 1>>, <<"recv", p, i>>, "queue">> \in st_mail BY <2>6, <1>8
  <2> QED BY <2>1, <2>2, <2>3, <2>4, <2>5, <2>7, <1>3 DEF RecvOp
<1>12. \A th \in ST!NetThread : th[1] \in {"send", "recv"} BY DEF ST!NetThread
<1> QED BY <1>4, <1>10, <1>11, <1>12 DEF ST!Built, ST!AnyThread

LEMMA StartNeverWaits == ASSUME StartInv PROVE ST!NobodyWaitsForever
<1> SUFFICES ASSUME ~ST!NobodyWaitsForever PROVE FALSE OBVIOUS
<1>1. /\ ~ST!Built
      /\ \A th \in ST!AnyThread : ~ST!CanMove(th)
      /\ st_config = "cluster" =>
           \A p \in ST!Proc : /\ p \in st_listening
                             /\ ~(st_connected[p] < p /\ st_connected[p] \in st_listening)
                             /\ st_backlog[p] = <<>>
  BY DEF ST!NobodyWaitsForever
<1> QED BY <1>1, AllMet, SomeoneMoves

\* A behaviour of the composition runs Startup, or leaves it alone.
LEMMA StartOnly ==
  /\ AnyInit => ST!Init
  /\ [AnyNext]_any_vars => [ST!Next]_st_vars
<1>1. AnyInit => ST!Init BY DEF AnyInit
<1>2. ASSUME AnyNext PROVE [ST!Next]_st_vars
  BY <1>2 DEF AnyNext
<1>3. ASSUME UNCHANGED any_vars PROVE UNCHANGED st_vars
  BY <1>3 DEF any_vars
<1> QED BY <1>1, <1>2, <1>3

\* initialize_networking, process.rs build and allocator.rs build: the exchange of handles
\* does not deadlock, whatever the numbers of processes and workers and the order in which
\* processes come up.
THEOREM StartupProgress == ASSUME ST!ShapesAssumption PROVE AnySpec => []NobodyWaitsForever
<1>1. AnyInit => StartInv BY StartOnly, StartBegins
<1>2. StartInv /\ [AnyNext]_any_vars => StartInv' BY StartOnly, StartKept
<1>3. StartInv => NobodyWaitsForever BY StartNeverWaits DEF NobodyWaitsForever
<1> QED BY <1>1, <1>2, <1>3, PTL DEF AnySpec

-----------------------------------------------------------------------------
(* Indexes and handles *)

LEMMA Division ==
  ASSUME NEW m \in Nat \ {0}, NEW q \in Nat, NEW y \in 0 .. m - 1
  PROVE  /\ q * m + y \in Nat
         /\ (q * m + y) \div m = q
         /\ (q * m + y) % m = y
         /\ q * m + y - m * q = y
<1>1. q * m + y \in Nat /\ q * m + y - m * q = y OBVIOUS
<1>2. (q * m + y) \div m = q OBVIOUS
<1>3. (q * m + y) % m = y OBVIOUS
<1> QED BY <1>1, <1>2, <1>3

\* When a thread waits for handles of a kind in a row, the k-th is the k-th of the row.
LEMMA ReceivedAt ==
  ASSUME NEW th, NEW what, NEW a \in Int, NEW b \in Int, ST!Waits(th, what) = a .. b,
         NEW k \in 1 .. (b - a) + 1
  PROVE  ST!Received(th, what, k) = ST!Part(th)[a + k - 1].from
<1>1. ASSUME NEW i \in a .. b
      PROVE  Cardinality({j \in a .. b : j <= i}) = (i - a) + 1
  <2>1. {j \in a .. b : j <= i} = a .. i OBVIOUS
  <2>2. Cardinality(a .. i) = i - a + 1 BY FS_Interval
  <2> QED BY <2>1, <2>2
<1>2. ASSUME NEW i \in a .. b
      PROVE  Cardinality({j \in a .. b : j <= i}) = k <=> i = a + k - 1
  <2>1. (i - a) + 1 = k <=> i = a + k - 1 OBVIOUS
  <2> QED BY <2>1, <1>1
<1>3. a + k - 1 \in a .. b OBVIOUS
<1> DEFINE kth(i) == Cardinality({j \in ST!Waits(th, what) : j <= i}) = k
<1>4. \A i \in ST!Waits(th, what) : kth(i) <=> i = a + k - 1 BY <1>2
<1>5. a + k - 1 \in ST!Waits(th, what) BY <1>3
<1>6. ST!Received(th, what, k) =
        IF \E i \in ST!Waits(th, what) : kth(i)
        THEN ST!Part(th)[CHOOSE i \in ST!Waits(th, what) : kth(i)].from
        ELSE <<>>
  BY SameCardinality DEF ST!Received
<1> HIDE DEF kth
<1>7. (CHOOSE i \in ST!Waits(th, what) : kth(i)) = a + k - 1 BY <1>4, <1>5
<1> QED BY <1>4, <1>5, <1>6, <1>7

LEMMA ReceivedByNetwork ==
  ASSUME ShapeTypes, NEW th \in ST!NetThread, th[1] = "recv", NEW k \in 1 .. T
  PROVE  ST!Received(th, "queue", k) = <<"worker", th[2], k - 1>>
<1>0. T \in Nat BY DEF ShapeTypes, T
<1>1. ST!Part(th) = [i \in 1 .. T |-> RecvOp(<<"worker", th[2], i - 1>>, "queue")]
  BY NetworkPart
<1>2. \A i \in 1 .. T : ST!Part(th)[i] = RecvOp(<<"worker", th[2], i - 1>>, "queue") BY <1>1
<1>3. ASSUME NEW i \in 1 .. T
      PROVE  ST!Part(th)[i].op = "recv" /\ ST!Part(th)[i].what = "queue"
  <2>1. ST!Part(th)[i] = RecvOp(<<"worker", th[2], i - 1>>, "queue") BY <1>2
  <2> QED BY <2>1, OpFields
<1>4. ST!Waits(th, "queue") = 1 .. T BY <1>1, <1>3 DEF ST!Waits
<1>5. k \in 1 .. (T - 1) + 1 /\ 1 + k - 1 = k BY <1>0
<1>6. ST!Received(th, "queue", k) = ST!Part(th)[1 + k - 1].from BY <1>0, <1>4, <1>5, ReceivedAt
<1>7. ST!Part(th)[k] = RecvOp(<<"worker", th[2], k - 1>>, "queue") BY <1>2
<1>8. ST!Part(th)[1 + k - 1] = ST!Part(th)[k] BY <1>5
<1> QED BY <1>6, <1>7, <1>8, OpFields

LEMMA ReceivedByWorker ==
  ASSUME ShapeTypes, NEW w \in ST!Worker
  PROVE  /\ st_config = "cluster" =>
              \A k \in 1 .. N - 1 : ST!Received(w, "queue", k) = <<"send", w[2], k>>
         /\ \A k \in 1 .. T : ST!Received(w, Local, k) = <<"worker", w[2], k - 1>>
<1>0. N - 1 \in Nat /\ T \in Nat BY DEF ShapeTypes, N, T
<1>1. PICK n \in Nat : n = N - 1 BY <1>0
<1>2. PICK t \in Nat : t = T BY <1>0
<1>3. DOMAIN ST!Part(w) = 1 .. n + n + (t + t) BY WorkerPart, <1>1, <1>2
<1>4. ASSUME NEW i \in 1 .. n
      PROVE  /\ ST!Part(w)[i].op = "send"
             /\ ST!Part(w)[n + i] = RecvOp(<<"send", w[2], i>>, "queue")
             /\ ST!Part(w)[n + i].op = "recv" /\ ST!Part(w)[n + i].what = "queue"
  <2>1. i \in 1 .. n + n + (t + t) /\ i <= n OBVIOUS
  <2>2. ST!Part(w)[i] = SendOp(<<"recv", w[2], i>>, "queue") BY <2>1, <1>1, <1>2, WorkerPart
  <2>3. PICK k \in 1 .. n + n + (t + t) : k = n + i OBVIOUS
  <2>4. ~(k <= n) /\ k <= n + n /\ k - n = i BY <2>3
  <2>5. ST!Part(w)[k] = RecvOp(<<"send", w[2], k - n>>, "queue")
    BY <2>3, <2>4, <1>1, <1>2, WorkerPart
  <2>6. ST!Part(w)[n + i] = RecvOp(<<"send", w[2], i>>, "queue") BY <2>3, <2>4, <2>5
  <2> QED BY <2>2, <2>6 DEF SendOp, RecvOp
<1>5. ASSUME NEW i \in 1 .. t
      PROVE  /\ ST!Part(w)[n + n + i].op = "send"
             /\ ST!Part(w)[n + n + t + i] = RecvOp(<<"worker", w[2], i - 1>>, Local)
             /\ ST!Part(w)[n + n + t + i].op = "recv" /\ ST!Part(w)[n + n + t + i].what = Local
  <2>1. PICK k \in 1 .. n + n + (t + t) : k = n + n + i OBVIOUS
  <2>2. ~(k <= n) /\ ~(k <= n + n) /\ k <= n + n + t BY <2>1
  <2>3. ST!Part(w)[k] = SendOp(<<"worker", w[2], k - (n + n) - 1>>, Local)
    BY <2>1, <2>2, <1>1, <1>2, WorkerPart
  <2>4. PICK l \in 1 .. n + n + (t + t) : l = n + n + t + i OBVIOUS
  <2>5. ~(l <= n) /\ ~(l <= n + n) /\ ~(l <= n + n + t) /\ l - (n + n + t) - 1 = i - 1 BY <2>4
  <2>6. ST!Part(w)[l] = RecvOp(<<"worker", w[2], l - (n + n + t) - 1>>, Local)
    BY <2>4, <2>5, <1>1, <1>2, WorkerPart
  <2>7. ST!Part(w)[n + n + t + i] = RecvOp(<<"worker", w[2], i - 1>>, Local)
    BY <2>4, <2>5, <2>6
  <2> QED BY <2>1, <2>3, <2>7 DEF SendOp, RecvOp
<1>6. ASSUME NEW j \in 1 .. n + n + (t + t)
      PROVE  \/ j \in 1 .. n
             \/ \E i \in 1 .. n : j = n + i
             \/ \E i \in 1 .. t : j = n + n + i
             \/ \E i \in 1 .. t : j = n + n + t + i
  <2>1. CASE j <= n BY <2>1
  <2>2. CASE j > n /\ j <= n + n
    <3>1. j - n \in 1 .. n /\ j = n + (j - n) BY <2>2
    <3> QED BY <3>1
  <2>3. CASE j > n + n /\ j <= n + n + t
    <3>1. j - (n + n) \in 1 .. t /\ j = n + n + (j - (n + n)) BY <2>3
    <3> QED BY <3>1
  <2>4. CASE j > n + n + t
    <3>1. j - (n + n + t) \in 1 .. t /\ j = n + n + t + (j - (n + n + t)) BY <2>4
    <3> QED BY <3>1
  <2> QED BY <2>1, <2>2, <2>3, <2>4
<1>7. ASSUME st_config = "cluster", NEW k \in 1 .. n
      PROVE  ST!Received(w, "queue", k) = <<"send", w[2], k>>
  <2>1. Local = "buzzer" BY <1>7 DEF Local
  <2>2. ST!Waits(w, "queue") = n + 1 .. n + n
    <3>1. ASSUME NEW j \in 1 .. n + n + (t + t)
          PROVE  ST!Part(w)[j].op = "recv" /\ ST!Part(w)[j].what = "queue" <=> j \in n + 1 .. n + n
      <4>1. CASE j \in 1 .. n
        <5>1. ST!Part(w)[j].op = "send" BY <4>1, <1>4
        <5> QED BY <5>1, <4>1
      <4>2. CASE \E i \in 1 .. n : j = n + i
        <5>1. PICK i \in 1 .. n : j = n + i BY <4>2
        <5>2. ST!Part(w)[j].op = "recv" /\ ST!Part(w)[j].what = "queue" BY <5>1, <1>4
        <5> QED BY <5>1, <5>2
      <4>3. CASE \E i \in 1 .. t : j = n + n + i
        <5>1. PICK i \in 1 .. t : j = n + n + i BY <4>3
        <5>2. ST!Part(w)[j].op = "send" BY <5>1, <1>5
        <5> QED BY <5>1, <5>2
      <4>4. CASE \E i \in 1 .. t : j = n + n + t + i
        <5>1. PICK i \in 1 .. t : j = n + n + t + i BY <4>4
        <5>2. ST!Part(w)[j].what = Local BY <5>1, <1>5
        <5> QED BY <5>1, <5>2, <2>1
      <4> QED BY <4>1, <4>2, <4>3, <4>4, <1>6
    <3>2. n + 1 .. n + n \subseteq 1 .. n + n + (t + t) OBVIOUS
    <3> QED BY <3>1, <3>2, <1>3 DEF ST!Waits
  <2>3. /\ n + 1 \in Int /\ n + n \in Int
        /\ k \in 1 .. ((n + n) - (n + 1)) + 1 /\ (n + 1) + k - 1 = n + k OBVIOUS
  <2>4. ST!Received(w, "queue", k) = ST!Part(w)[(n + 1) + k - 1].from BY <2>2, <2>3, ReceivedAt
  <2>5. ST!Part(w)[n + k] = RecvOp(<<"send", w[2], k>>, "queue") BY <1>4
  <2>6. ST!Part(w)[(n + 1) + k - 1] = ST!Part(w)[n + k] BY <2>3
  <2> QED BY <2>4, <2>5, <2>6, OpFields
<1>8. ASSUME NEW k \in 1 .. t
      PROVE  ST!Received(w, Local, k) = <<"worker", w[2], k - 1>>
  <2>1. Local = "buzzer" \/ n = 0 BY <1>1 DEF Local, ShapeTypes
  <2>2. ST!Waits(w, Local) = n + n + t + 1 .. n + n + t + t
    <3>1. ASSUME NEW j \in 1 .. n + n + (t + t)
          PROVE  ST!Part(w)[j].op = "recv" /\ ST!Part(w)[j].what = Local <=>
                   j \in n + n + t + 1 .. n + n + t + t
      <4>1. CASE j \in 1 .. n
        <5>1. ST!Part(w)[j].op = "send" BY <4>1, <1>4
        <5> QED BY <5>1, <4>1
      <4>2. CASE \E i \in 1 .. n : j = n + i
        <5>1. PICK i \in 1 .. n : j = n + i BY <4>2
        <5>2. ST!Part(w)[j].what = "queue" BY <5>1, <1>4
        <5> QED BY <5>1, <5>2, <2>1
      <4>3. CASE \E i \in 1 .. t : j = n + n + i
        <5>1. PICK i \in 1 .. t : j = n + n + i BY <4>3
        <5>2. ST!Part(w)[j].op = "send" BY <5>1, <1>5
        <5> QED BY <5>1, <5>2
      <4>4. CASE \E i \in 1 .. t : j = n + n + t + i
        <5>1. PICK i \in 1 .. t : j = n + n + t + i BY <4>4
        <5>2. ST!Part(w)[j].op = "recv" /\ ST!Part(w)[j].what = Local BY <5>1, <1>5
        <5> QED BY <5>1, <5>2
      <4> QED BY <4>1, <4>2, <4>3, <4>4, <1>6
    <3>2. n + n + t + 1 .. n + n + t + t \subseteq 1 .. n + n + (t + t) OBVIOUS
    <3> QED BY <3>1, <3>2, <1>3 DEF ST!Waits
  <2>3. /\ n + n + t + 1 \in Int /\ n + n + t + t \in Int
        /\ k \in 1 .. ((n + n + t + t) - (n + n + t + 1)) + 1
        /\ (n + n + t + 1) + k - 1 = n + n + t + k OBVIOUS
  <2>4. ST!Received(w, Local, k) = ST!Part(w)[(n + n + t + 1) + k - 1].from
    BY <2>2, <2>3, ReceivedAt
  <2>5. ST!Part(w)[n + n + t + k] = RecvOp(<<"worker", w[2], k - 1>>, Local) BY <1>5
  <2>6. ST!Part(w)[(n + n + t + 1) + k - 1] = ST!Part(w)[n + n + t + k] BY <2>3
  <2> QED BY <2>4, <2>5, <2>6, OpFields
<1> QED BY <1>1, <1>2, <1>7, <1>8

\* The way from any worker to any other, through the network threads between processes.
LEMMA TargetReached ==
  ASSUME ShapeTypes, NEW w \in ST!Worker, NEW v \in ST!Worker
  PROVE  ST!Destination(w, ST!Index(v)) = v
<1>0. N \in Nat \ {0} /\ T \in Nat \ {0} BY DEF ShapeTypes, N, T
<1>1. PICK p \in 0 .. N - 1, x \in 0 .. T - 1 : w = <<"worker", p, x>>
  BY DEF ST!Worker, ST!Proc, ST!ThreadIndex, N, T
<1>2. PICK q \in 0 .. N - 1, y \in 0 .. T - 1 : v = <<"worker", q, y>>
  BY DEF ST!Worker, ST!Proc, ST!ThreadIndex, N, T
<1>3. PICK k \in Nat : k = ST!Index(v) /\ k = q * T + y
  BY <1>0, <1>2, Division DEF ST!Index, T
<1>4. k \div T = q /\ k % T = y /\ k - T * q = y BY <1>0, <1>2, <1>3, Division
<1>5. ST!Index(w) \div T = p BY <1>0, <1>1, Division DEF ST!Index, T
<1>6. y + 1 \in 1 .. T /\ (y + 1) - 1 = y BY <1>0
<1>7. CASE st_config = "process_binary"
  <2>1. p = 0 /\ q = 0 BY <1>7, <1>0 DEF ShapeTypes
  <2>2. k = y BY <2>1, <1>0, <1>3
  <2>3. ST!Destination(w, k) = ST!Received(w, "queue", y + 1)
    BY <1>7, <2>2 DEF ST!Destination
  <2>4. ST!Received(w, "queue", y + 1) = <<"worker", p, y>>
    BY <1>1, <1>6, <1>7, ReceivedByWorker DEF Local
  <2> QED BY <2>1, <2>3, <2>4, <1>2, <1>3
<1>8. CASE st_config # "process_binary" /\ p = q
  <2>1. ST!Destination(w, k) = ST!Received(w, "buzzer", y + 1)
    BY <1>8, <1>4, <1>5 DEF ST!Destination, T
  <2>2. ST!Received(w, "buzzer", y + 1) = <<"worker", p, y>>
    BY <1>1, <1>6, <1>8, ReceivedByWorker DEF Local
  <2> QED BY <2>1, <2>2, <1>2, <1>3, <1>8
<1>9. CASE st_config # "process_binary" /\ p # q
  <2>0. st_config = "cluster"
    <3>1. N # 1 BY <1>9
    <3> QED BY <3>1, <1>9 DEF ShapeTypes
  <2> DEFINE s == IF q > p THEN q - 1 ELSE q
  <2>1. ST!SendIndex(w, k) = s BY <1>4, <1>5 DEF ST!SendIndex, T
  <2>2. s \in Nat /\ s + 1 \in 1 .. N - 1 BY <1>0, <1>9
  <2>3. ST!Received(w, "queue", s + 1) = <<"send", p, s + 1>>
    BY <2>0, <2>2, <1>1, ReceivedByWorker
  <2>4. ST!Remotes(p)[s + 1] = q
    <3>1. (s + 1) - 1 = s BY <2>2
    <3>2. ST!Remotes(p)[s + 1] = IF (s + 1) - 1 < p THEN (s + 1) - 1 ELSE s + 1
      BY <2>2 DEF ST!Remotes, N
    <3>3. (IF s < p THEN s ELSE s + 1) = q BY <1>9, <1>0
    <3> HIDE DEF s
    <3> QED BY <3>1, <3>2, <3>3
  <2> HIDE DEF s
  <2>5. \E i \in 1 .. N - 1 : ST!Remotes(q)[i] = p
    <3>1. CASE p < q
      <4>1. p + 1 \in 1 .. N - 1 /\ (p + 1) - 1 = p BY <3>1, <1>0
      <4>2. ST!Remotes(q)[p + 1] = IF (p + 1) - 1 < q THEN (p + 1) - 1 ELSE p + 1
        BY <4>1 DEF ST!Remotes, N
      <4> QED BY <4>1, <4>2, <3>1
    <3>2. CASE p > q
      <4>1. p \in 1 .. N - 1 /\ ~(p - 1 < q) BY <3>2, <1>0
      <4>2. ST!Remotes(q)[p] = IF p - 1 < q THEN p - 1 ELSE p
        BY <4>1 DEF ST!Remotes, N
      <4> QED BY <4>1, <4>2
    <3> QED BY <3>1, <3>2, <1>9, <1>0
  <2>6. DOMAIN ST!Remotes(q) = 1 .. N - 1 BY DEF ST!Remotes, N
  <2> DEFINE there == CHOOSE i \in DOMAIN ST!Remotes(q) : ST!Remotes(q)[i] = p
  <2>7. there \in 1 .. N - 1 BY <2>5, <2>6
  <2>8. ST!Destination(w, k) = ST!Received(<<"recv", q, there>>, "queue", y + 1)
    <3>1. k - T * q + 1 = y + 1 BY <1>4
    <3>2. <<"send", p, s + 1>> # <<>> OBVIOUS
    <3>3. ST!Received(w, "queue", ST!SendIndex(w, k) + 1) = <<"send", p, s + 1>> BY <2>1, <2>3
    <3>4. k \div T # ST!Index(w) \div T BY <1>4, <1>5, <1>9
    <3> HIDE DEF there
    <3> DEFINE sender == ST!Received(w, "queue", ST!SendIndex(w, k) + 1)
               remote == ST!Remotes(sender[2])[sender[3]]
               at     == CHOOSE i \in DOMAIN ST!Remotes(remote) : ST!Remotes(remote)[i] = sender[2]
    <3>5. ST!Destination(w, k) =
            IF sender = <<>> THEN <<>>
            ELSE ST!Received(<<"recv", remote, at>>, "queue", k - T * remote + 1)
      BY <3>4, <1>9 DEF ST!Destination, T
    <3>6. sender = <<"send", p, s + 1>> BY <3>3
    <3> HIDE DEF sender
    <3>7. sender # <<>> /\ sender[2] = p /\ sender[3] = s + 1 BY <3>6
    <3>8. remote = q BY <3>7, <2>4
    <3> HIDE DEF remote
    <3>9. at = there BY <3>7, <3>8 DEF there
    <3> HIDE DEF at
    <3> QED BY <3>1, <3>5, <3>7, <3>8, <3>9
  <2> HIDE DEF there
  <2>9. <<"recv", q, there>> \in ST!NetThread BY <2>7 DEF ST!NetThread, ST!Proc, N
  <2>10. ST!Received(<<"recv", q, there>>, "queue", y + 1) = <<"worker", q, y>>
    BY <2>9, <1>6, ReceivedByNetwork
  <2> QED BY <2>8, <2>10, <1>2, <1>3
<1> QED BY <1>7, <1>8, <1>9

\* TcpAllocator::allocate and its builder, Process and ProcessBuilder: whatever the numbers of
\* processes and workers, what a worker pushes for a target is drained by that worker.
THEOREM EveryTargetReached == ASSUME ST!ShapesAssumption PROVE AnySpec => []PushersReachTargets
<1>1. AnyInit => StartInv BY StartOnly, StartBegins
<1>2. StartInv /\ [AnyNext]_any_vars => StartInv' BY StartOnly, StartKept
<1>3. StartInv => PushersReachTargets
  BY TargetReached DEF StartInv, PushersReachTargets, ST!PushersReachTargets
<1> QED BY <1>1, <1>2, <1>3, PTL DEF AnySpec

-----------------------------------------------------------------------------
(* Batches: what a list of changes adds up to *)

\* Counting up from 0.
LEMMA CountUp ==
  ASSUME NEW L \in Nat, NEW Good, 0 \in Good,
         \A n \in 0 .. L : n \in Good /\ n < L => n + 1 \in Good
  PROVE  0 .. L \subseteq Good
<1> DEFINE Bad == {n \in Nat : n <= L /\ n \notin Good}
<1>1. Bad = {}
  <2> SUFFICES ASSUME Bad # {} PROVE FALSE
    OBVIOUS
  <2>1. PICK n \in Bad : \A k \in Bad : ~(<<k, n>> \in OpToRel(<, Nat))
    BY NatLessThanWellFounded, WFMin
  <2>2. n # 0 /\ n \in Nat /\ n - 1 \in Nat /\ n - 1 < n /\ n <= L
    OBVIOUS
  <2>3. <<n - 1, n>> \in OpToRel(<, Nat)
    BY <2>2 DEF OpToRel
  <2>4. n - 1 \notin Bad
    <3> HIDE DEF Bad
    <3> QED
      BY <2>1, <2>3
  <2>5. n - 1 \in Good
    BY <2>2, <2>4
  <2>6. (n - 1) + 1 \in Good
    BY <2>2, <2>5
  <2> QED
    BY <2>6
<1> QED
  BY <1>1

\* A computation of SumAt, change by change.
Adding(s, t, f) ==
  /\ f[0] = 0
  /\ \A n \in 1 .. Len(s) : f[n] = f[n - 1] + (IF s[n][1] = t THEN s[n][2] ELSE 0)

LEMMA AddingAgrees ==
  ASSUME NEW s, Len(s) \in Nat, NEW t, NEW f, NEW g, Adding(s, t, f), Adding(s, t, g)
  PROVE  \A n \in 0 .. Len(s) : f[n] = g[n]
<1> DEFINE Good == {n \in 0 .. Len(s) : f[n] = g[n]}
<1>1. 0 \in Good
  BY DEF Adding
<1>2. ASSUME NEW n \in 0 .. Len(s), n \in Good, n < Len(s) PROVE n + 1 \in Good
  <2>1. n + 1 \in 1 .. Len(s) /\ (n + 1) - 1 = n
    BY <1>2
  <2> QED
    BY <1>2, <2>1 DEF Adding
<1> HIDE DEF Good
<1>3. 0 .. Len(s) \subseteq Good
  BY <1>1, <1>2, CountUp
<1> QED
  BY <1>3 DEF Good

\* Any such computation yields the sum.
LEMMA SumByAdding ==
  ASSUME NEW s, Len(s) \in Nat, NEW t, NEW f, Adding(s, t, f)
  PROVE  CB!SumAt(s, t) = f[Len(s)]
<1> DEFINE Run(g) == g = [n \in 0 .. Len(s) |->
                           IF n = 0 THEN 0
                           ELSE g[n - 1] + (IF s[n][1] = t THEN s[n][2] ELSE 0)]
           h == [n \in 0 .. Len(s) |-> f[n]]
           c == CHOOSE g : Run(g)
<1>1. Run(h)
  <2>1. \A n \in 0 .. Len(s) : n # 0 =>
          /\ n \in 1 .. Len(s) /\ n - 1 \in 0 .. Len(s)
          /\ h[n] = h[n - 1] + (IF s[n][1] = t THEN s[n][2] ELSE 0)
    BY DEF Adding
  <2>2. h[0] = 0
    BY DEF Adding
  <2>3. h = [n \in 0 .. Len(s) |-> h[n]]
    OBVIOUS
  <2> HIDE DEF h
  <2> QED
    BY <2>1, <2>2, <2>3
<1> HIDE DEF h
<1>2. Run(c)
  BY <1>1, Zenon
<1>3. Adding(s, t, c)
  <2> HIDE DEF c
  <2>1. \A n \in 1 .. Len(s) : n \in 0 .. Len(s) /\ n # 0
    OBVIOUS
  <2> QED
    BY <1>2, <2>1 DEF Adding
<1>4. CB!SumAt(s, t) = c[Len(s)]
  BY Zenon DEF CB!SumAt
<1> HIDE DEF c
<1> QED
  BY <1>3, <1>4, AddingAgrees

LEMMA AddingExists ==
  ASSUME NEW s, Len(s) \in Nat, NEW t
  PROVE  \E f : Adding(s, t, f)
<1> DEFINE Part(n, f) ==
             /\ f[0] = 0
             /\ \A k \in 1 .. n : f[k] = f[k - 1] + (IF s[k][1] = t THEN s[k][2] ELSE 0)
           Good == {n \in 0 .. Len(s) : \E f : Part(n, f)}
<1>1. 0 \in Good
  <2>1. Part(0, [k \in {0} |-> 0])
    OBVIOUS
  <2>2. \E f : Part(0, f)
    BY <2>1, Zenon
  <2> HIDE DEF Part
  <2> QED
    BY <2>2
<1>2. ASSUME NEW n \in 0 .. Len(s), n \in Good, n < Len(s) PROVE n + 1 \in Good
  <2>1. PICK f : Part(n, f)
    BY <1>2
  <2> DEFINE g == [k \in 0 .. n + 1 |->
                    IF k = n + 1
                    THEN f[n] + (IF s[n + 1][1] = t THEN s[n + 1][2] ELSE 0) ELSE f[k]]
  <2>2. Part(n + 1, g)
    <3>1. g[0] = 0
      BY <2>1
    <3>2. ASSUME NEW k \in 1 .. n + 1
          PROVE  g[k] = g[k - 1] + (IF s[k][1] = t THEN s[k][2] ELSE 0)
      <4>1. CASE k = n + 1
        <5>1. k - 1 = n /\ n \in 0 .. n + 1 /\ n # n + 1
          BY <4>1
        <5>2. g[k - 1] = f[n]
          BY <5>1
        <5> QED
          BY <4>1, <5>2
      <4>2. CASE k # n + 1
        <5>1. k \in 1 .. n /\ k - 1 \in 0 .. n + 1 /\ k - 1 # n + 1
          BY <4>2
        <5>2. g[k] = f[k] /\ g[k - 1] = f[k - 1]
          BY <4>2, <5>1
        <5> QED
          BY <2>1, <5>1, <5>2
      <4> QED
        BY <4>1, <4>2
    <3> HIDE DEF g
    <3> QED
      BY <3>1, <3>2
  <2>3. n + 1 \in 0 .. Len(s)
    BY <1>2
  <2> QED
    BY <2>2, <2>3
<1> HIDE DEF Good
<1>3. 0 .. Len(s) \subseteq Good
  BY <1>1, <1>2, CountUp
<1>4. Len(s) \in Good
  BY <1>3
<1> QED
  BY <1>4 DEF Good, Adding

LEMMA SumAdds ==
  ASSUME NEW s, Len(s) \in Nat, NEW t
  PROVE  \E f : Adding(s, t, f) /\ CB!SumAt(s, t) = f[Len(s)]
BY AddingExists, SumByAdding

LEMMA AddingInt ==
  ASSUME NEW s, Len(s) \in Nat, \A n \in 1 .. Len(s) : s[n][2] \in Int,
         NEW t, NEW f, Adding(s, t, f)
  PROVE  \A n \in 0 .. Len(s) : f[n] \in Int
<1> DEFINE Good == {n \in 0 .. Len(s) : f[n] \in Int}
<1>1. 0 \in Good
  BY DEF Adding
<1>2. ASSUME NEW n \in 0 .. Len(s), n \in Good, n < Len(s) PROVE n + 1 \in Good
  <2>1. n + 1 \in 1 .. Len(s) /\ (n + 1) - 1 = n
    BY <1>2
  <2> QED
    BY <1>2, <2>1 DEF Adding
<1> HIDE DEF Good
<1>3. 0 .. Len(s) \subseteq Good
  BY <1>1, <1>2, CountUp
<1> QED
  BY <1>3 DEF Good

LEMMA SumInt ==
  ASSUME NEW s, Len(s) \in Nat, \A n \in 1 .. Len(s) : s[n][2] \in Int, NEW t
  PROVE  CB!SumAt(s, t) \in Int
<1>1. Len(s) \in 0 .. Len(s)
  OBVIOUS
<1> QED
  BY <1>1, SumAdds, AddingInt

\* Nothing is added to a time that no change names.
LEMMA SumNone ==
  ASSUME NEW s, Len(s) \in Nat, NEW t, \A n \in 1 .. Len(s) : s[n][1] # t
  PROVE  CB!SumAt(s, t) = 0
<1> DEFINE f == [n \in 0 .. Len(s) |-> 0]
<1>1. Adding(s, t, f)
  BY DEF Adding
<1>2. CB!SumAt(s, t) = f[Len(s)]
  BY <1>1, SumByAdding
<1> QED
  BY <1>2

\* A time that one change names gets that change.
LEMMA SumOne ==
  ASSUME NEW s, Len(s) \in Nat, NEW t, NEW p \in 1 .. Len(s), s[p][1] = t, s[p][2] \in Int,
         \A n \in 1 .. Len(s) : n # p => s[n][1] # t
  PROVE  CB!SumAt(s, t) = s[p][2]
<1> DEFINE f == [n \in 0 .. Len(s) |-> IF n < p THEN 0 ELSE s[p][2]]
<1>1. Adding(s, t, f)
  <2>1. f[0] = 0
    OBVIOUS
  <2>2. ASSUME NEW n \in 1 .. Len(s)
        PROVE  f[n] = f[n - 1] + (IF s[n][1] = t THEN s[n][2] ELSE 0)
    <3>1. n - 1 \in 0 .. Len(s)
      OBVIOUS
    <3>2. CASE n = p
      BY <3>1, <3>2
    <3>3. CASE n # p
      <4>1. s[n][1] # t /\ (n < p <=> n - 1 < p)
        BY <3>3
      <4> QED
        BY <3>1, <4>1
    <3> QED
      BY <3>2, <3>3
  <2> QED
    BY <2>1, <2>2 DEF Adding
<1>2. CB!SumAt(s, t) = f[Len(s)]
  <2> HIDE DEF f
  <2> QED
    BY <1>1, SumByAdding
<1> QED
  BY <1>2

Changes == Seq(Chain \X Int)

LEMMA ChangesFacts ==
  ASSUME NEW s \in Changes
  PROVE  /\ Len(s) \in Nat /\ s \in [1 .. Len(s) -> Chain \X Int]
         /\ \A n \in 1 .. Len(s) : s[n] = <<s[n][1], s[n][2]>> /\ s[n][1] \in Chain /\ s[n][2] \in Int
<1>1. Len(s) \in Nat /\ s \in [1 .. Len(s) -> Chain \X Int]
  BY DEF Changes
<1> QED
  BY <1>1

\* Appending changes adds what they add up to.
LEMMA SumAppended ==
  ASSUME NEW s \in Changes, NEW u \in Changes, NEW t
  PROVE  CB!SumAt(s \o u, t) = CB!SumAt(s, t) + CB!SumAt(u, t)
<1> DEFINE L == Len(s)
           M == Len(u)
<1>1. L \in Nat /\ M \in Nat
  BY ChangesFacts
<1>2. /\ Len(s \o u) = L + M
      /\ \A n \in 1 .. L : (s \o u)[n] = s[n]
      /\ \A n \in L + 1 .. L + M : (s \o u)[n] = u[n - L]
  BY ConcatProperties DEF Changes
<1>3. PICK f : Adding(s, t, f) /\ CB!SumAt(s, t) = f[L]
  BY <1>1, SumAdds
<1>4. PICK g : Adding(u, t, g) /\ CB!SumAt(u, t) = g[M]
  BY <1>1, SumAdds
<1>5. CB!SumAt(s, t) \in Int
  BY SumInt, ChangesFacts
<1> HIDE DEF L, M
<1> DEFINE h == [n \in 0 .. L + M |-> IF n <= L THEN f[n] ELSE f[L] + g[n - L]]
<1>6. Adding(s \o u, t, h)
  <2>1. h[0] = 0
    BY <1>1, <1>3 DEF Adding
  <2>2. ASSUME NEW n \in 1 .. L + M
        PROVE  h[n] = h[n - 1] + (IF (s \o u)[n][1] = t THEN (s \o u)[n][2] ELSE 0)
    <3>1. n - 1 \in 0 .. L + M
      BY <1>1
    <3>2. CASE n <= L
      <4>1. n \in 1 .. L /\ n - 1 <= L
        BY <1>1, <3>2
      <4>2. h[n] = f[n] /\ h[n - 1] = f[n - 1]
        BY <1>1, <3>1, <3>2, <4>1
      <4>3. f[n] = f[n - 1] + (IF s[n][1] = t THEN s[n][2] ELSE 0)
        BY <1>3, <4>1 DEF Adding, L
      <4> QED
        BY <1>2, <4>1, <4>2, <4>3
    <3>3. CASE n > L
      <4>1. PICK k \in 1 .. M : k = n - L /\ n - 1 - L = k - 1
        BY <1>1, <3>3
      <4>2. h[n] = f[L] + g[k]
        BY <1>1, <3>3, <4>1
      <4>3. h[n - 1] = f[L] + g[k - 1]
        <5>1. CASE k = 1
          <6>1. n - 1 = L /\ k - 1 = 0
            BY <1>1, <4>1, <5>1
          <6>2. g[k - 1] = 0
            BY <1>4, <6>1 DEF Adding
          <6>3. f[L] \in Int
            BY <1>3, <1>5
          <6> QED
            BY <1>1, <3>1, <6>1, <6>2, <6>3
        <5>2. CASE k # 1
          <6>1. ~(n - 1 <= L)
            BY <1>1, <4>1, <5>2
          <6> QED
            BY <1>1, <3>1, <4>1, <6>1
        <5> QED
          BY <5>1, <5>2
      <4>4. g[k] = g[k - 1] + (IF u[k][1] = t THEN u[k][2] ELSE 0)
        BY <1>4, <4>1 DEF Adding, M
      <4>5. (s \o u)[n] = u[k]
        BY <1>1, <1>2, <3>3, <4>1
      <4>6. f[L] \in Int /\ g[k - 1] \in Int /\ (u[k][1] = t => u[k][2] \in Int)
        <5>1. u[k][2] \in Int
          BY <4>1, ChangesFacts DEF M
        <5>2. g[k - 1] \in Int
          BY <1>4, ChangesFacts, AddingInt, <4>1, SMTT(30) DEF M
        <5> QED
          BY <1>3, <1>5, <5>1, <5>2
      <4> HIDE DEF h
      <4> QED
        BY <4>2, <4>3, <4>4, <4>5, <4>6
    <3>4. n <= L \/ n > L
      BY <1>1
    <3> HIDE DEF h
    <3> QED
      BY <3>2, <3>3, <3>4, Zenon
  <2> HIDE DEF h
  <2> QED
    BY <1>2, <2>1, <2>2 DEF Adding
<1>7. CB!SumAt(s \o u, t) = h[L + M]
  <2>1. Len(s \o u) \in Nat
    BY <1>1, <1>2
  <2> HIDE DEF h
  <2> QED
    BY <1>2, <1>6, <2>1, SumByAdding
<1>8. g[M] \in Int /\ (M = 0 => g[M] = 0)
  <2>1. CB!SumAt(u, t) \in Int
    BY SumInt, ChangesFacts
  <2> QED
    BY <1>4, <2>1 DEF Adding
<1>9. h[L + M] = f[L] + g[M]
  <2>1. (L + M) - L = M /\ L + M \in 0 .. L + M /\ (L + M <= L => M = 0)
    BY <1>1
  <2>2. CASE M = 0
    <3>1. L + M = L
      BY <1>1, <2>2
    <3> QED
      BY <1>1, <1>3, <1>5, <1>8, <2>2, <3>1
  <2>3. CASE M # 0
    BY <2>1, <2>3
  <2> QED
    BY <2>2, <2>3
<1> QED
  BY <1>3, <1>4, <1>7, <1>9

-----------------------------------------------------------------------------
(* Sorting by time *)

LEMMA BatchCardinality == \A S : CB!Cardinality(S) = Cardinality(S)
BY DEF CB!Cardinality, Cardinality

\* Each time earlier than the next.
Ordered(s, n) == \A i, j \in 1 .. n : i < j => Before(s[i][1], s[j][1])

\* sort_by on changes of different times: the same changes, in order.
LEMMA SortedTimes ==
  ASSUME CB!OrdAssumption,
         NEW us \in SUBSET (Chain \X (Int \ {0})), IsFiniteSet(us),
         \A u, v \in us : u[1] = v[1] => u = v
  PROVE  /\ CB!Sorted(us) \in Changes
         /\ Ordered(CB!Sorted(us), Len(CB!Sorted(us)))
         /\ \A i \in 1 .. Len(CB!Sorted(us)) : CB!Sorted(us)[i] \in us
         /\ \A v \in us : \E i \in 1 .. Len(CB!Sorted(us)) : CB!Sorted(us)[i] = v
<1> DEFINE L == Cardinality(us)
           below(v) == CB!NotAfter(us, v)
           at(i) == CHOOSE v \in us : CB!Cardinality(below(v)) = i
           r == [v \in us |-> Cardinality(below(v))]
<1>1. L \in Nat
  BY FS_CardinalityType
<1>2. CB!Sorted(us) = [i \in 1 .. L |-> at(i)]
  BY BatchCardinality DEF CB!Sorted
<1>3. \A u \in us : u[1] \in Chain
  OBVIOUS
<1>4. ASSUME NEW v \in us
      PROVE  /\ below(v) \in SUBSET us /\ v \in below(v)
             /\ \A u \in us : u \in below(v) <=> ~Before(v[1], u[1])
  BY <1>3 DEF CB!NotAfter, CB!OrdAssumption
<1>5. \A v \in us : CB!Cardinality(below(v)) = r[v] /\ r[v] = Cardinality(below(v))
  BY BatchCardinality
<1> HIDE DEF below, L
<1>6. ASSUME NEW v \in us PROVE IsFiniteSet(below(v)) /\ r[v] \in 1 .. L
  <2>1. IsFiniteSet(below(v)) /\ Cardinality(below(v)) <= L
    BY <1>4, FS_Subset DEF L
  <2>2. Cardinality(below(v)) \in Nat
    BY <2>1, FS_CardinalityType
  <2>3. Cardinality(below(v)) # 0
    BY <1>4, <2>1, FS_EmptySet
  <2> QED
    BY <1>1, <1>5, <2>1, <2>2, <2>3
<1>7. r \in [us -> 1 .. L]
  <2>1. r = [v \in us |-> r[v]]
    OBVIOUS
  <2> HIDE DEF r
  <2> QED
    BY <1>6, <2>1
<1> HIDE DEF r
<1>8. ASSUME NEW u \in us, NEW v \in us, Before(u[1], v[1]) PROVE r[u] < r[v]
  <2>1. \A w \in us : w \in below(u) => w \in below(v)
    BY <1>3, <1>4, <1>8 DEF CB!OrdAssumption
  <2>2. below(u) \in SUBSET below(v)
    BY <1>4, <2>1
  <2>3. v \in below(v) /\ v \notin below(u)
    BY <1>4, <1>8
  <2>4. Cardinality(below(u)) <= Cardinality(below(v)) /\ Cardinality(below(u)) # Cardinality(below(v))
    BY <1>6, <2>2, <2>3, FS_Subset
  <2>5. r[u] <= r[v] /\ r[u] # r[v]
    BY <1>5, <2>4
  <2>6. r[u] \in Nat /\ r[v] \in Nat
    BY <1>6
  <2> QED
    BY <2>5, <2>6
<1>9. ASSUME NEW u \in us, NEW v \in us, r[u] = r[v] PROVE u = v
  <2>1. r[u] \in Nat /\ r[v] \in Nat
    BY <1>6
  <2>2. u[1] = v[1] \/ Before(u[1], v[1]) \/ Before(v[1], u[1])
    BY <1>3 DEF CB!OrdAssumption
  <2> QED
    BY <1>8, <1>9, <2>1, <2>2
<1>10. ASSUME NEW i \in 1 .. L PROVE \E v \in us : r[v] = i
  <2>1. r \in Injection(us, 1 .. L)
    BY <1>7, <1>9 DEF Injection, IsInjective
  <2>2. IsFiniteSet(1 .. L) /\ Cardinality(1 .. L) = L
    BY <1>1, FS_Interval
  <2>3. r \in Surjection(us, 1 .. L)
    BY <2>1, <2>2, FS_Injection DEF L
  <2> QED
    BY <2>3 DEF Surjection
<1>11. ASSUME NEW i \in 1 .. L PROVE at(i) \in us /\ r[at(i)] = i
  <2>1. \E v \in us : CB!Cardinality(below(v)) = i
    BY <1>5, <1>10
  <2>2. at(i) \in us /\ CB!Cardinality(below(at(i))) = i
    BY <2>1
  <2> HIDE DEF at
  <2> QED
    BY <1>5, <2>2
<1> HIDE DEF at
<1>12. CB!Sorted(us) \in Changes /\ Len(CB!Sorted(us)) = L
  <2>1. CB!Sorted(us) \in [1 .. L -> Chain \X Int]
    BY <1>2, <1>11
  <2> QED
    BY <1>1, <2>1 DEF Changes
<1>13. \A i \in 1 .. L : CB!Sorted(us)[i] = at(i)
  BY <1>2
<1>14. ASSUME NEW i \in 1 .. L, NEW j \in 1 .. L, i < j PROVE Before(at(i)[1], at(j)[1])
  <2>1. at(i) \in us /\ at(j) \in us /\ r[at(i)] = i /\ r[at(j)] = j
    BY <1>11
  <2>2. at(i)[1] = at(j)[1] \/ Before(at(i)[1], at(j)[1]) \/ Before(at(j)[1], at(i)[1])
    BY <1>3, <2>1 DEF CB!OrdAssumption
  <2>3. at(i) # at(j)
    BY <1>14, <2>1
  <2>4. ~Before(at(j)[1], at(i)[1])
    BY <1>8, <1>14, <2>1
  <2> QED
    BY <2>1, <2>2, <2>3, <2>4
<1>15. ASSUME NEW v \in us PROVE \E i \in 1 .. L : at(i) = v
  BY <1>6, <1>9, <1>11
<1> QED
  BY <1>11, <1>12, <1>13, <1>14, <1>15 DEF Ordered

-----------------------------------------------------------------------------
(* Compaction *)

NoZero(s, n) == \A i \in 1 .. n : s[i][2] # 0

\* A list whose first `clean' changes are compact: there is no zero among them, unless
\* there is but one.
Listed(b) ==
  /\ b = [updates |-> b.updates, clean |-> b.clean]
  /\ b.updates \in Changes
  /\ b.clean \in 0 .. Len(b.updates)
  /\ Ordered(b.updates, b.clean)
  /\ b.clean > 1 => NoZero(b.updates, b.clean)

\* The changes that remain, added up.
Remaining(s) == {<<t, CB!Sum(s)[t]>> : t \in {t \in Chain : CB!Sum(s)[t] # 0}}

LEMMA RemainingFacts ==
  ASSUME NEW s \in Changes
  PROVE  /\ Remaining(s) \in SUBSET (Chain \X (Int \ {0}))
         /\ IsFiniteSet(Remaining(s))
         /\ \A u, v \in Remaining(s) : u[1] = v[1] => u = v
         /\ \A t \in Chain : \A x : <<t, x>> \in Remaining(s) <=> x = CB!SumAt(s, t) /\ x # 0
<1>1. \A t \in Chain : CB!Sum(s)[t] = CB!SumAt(s, t) /\ CB!SumAt(s, t) \in Int
  BY ChangesFacts, SumInt DEF CB!Sum
<1>2. Remaining(s) \in SUBSET (Chain \X (Int \ {0}))
  BY <1>1 DEF Remaining
<1>3. \A u \in Remaining(s) : u[1] \in Chain /\ u = <<u[1], CB!SumAt(s, u[1])>> /\ CB!SumAt(s, u[1]) # 0
  BY <1>1 DEF Remaining
<1>4. \A t \in Chain : \A x : <<t, x>> \in Remaining(s) <=> x = CB!SumAt(s, t) /\ x # 0
  BY <1>1 DEF Remaining
<1>5. \A u, v \in Remaining(s) : u[1] = v[1] => u = v
  BY <1>3
<1> HIDE DEF Remaining
<1>6. IsFiniteSet(Remaining(s))
  <2> DEFINE g == [u \in Remaining(s) |-> CHOOSE n \in 1 .. Len(s) : s[n][1] = u[1]]
  <2>1. ASSUME NEW u \in Remaining(s)
        PROVE  g[u] \in 1 .. Len(s) /\ s[g[u]][1] = u[1]
    <3>1. \E n \in 1 .. Len(s) : s[n][1] = u[1]
      BY <1>3, SumNone, ChangesFacts
    <3> QED
      BY <3>1
  <2>2. g = [u \in Remaining(s) |-> g[u]]
    OBVIOUS
  <2> HIDE DEF g
  <2>3. g \in Injection(Remaining(s), 1 .. Len(s))
    BY <1>5, <2>1, <2>2 DEF Injection, IsInjective
  <2>4. IsFiniteSet(1 .. Len(s))
    BY ChangesFacts, FS_Interval
  <2> QED
    BY <2>3, <2>4, FS_Injection
<1> QED
  BY <1>2, <1>4, <1>5, <1>6

\* Adding up a list in order gives for each time the change it is listed with.
LEMMA OrderedSum ==
  ASSUME CB!OrdAssumption, NEW s \in Changes, Ordered(s, Len(s)), NEW p \in 1 .. Len(s)
  PROVE  CB!SumAt(s, s[p][1]) = s[p][2]
<1>1. ASSUME NEW n \in 1 .. Len(s), n # p PROVE s[n][1] # s[p][1]
  <2>1. n < p \/ p < n
    BY <1>1, ChangesFacts
  <2>2. Before(s[n][1], s[p][1]) \/ Before(s[p][1], s[n][1])
    BY <2>1 DEF Ordered
  <2> QED
    BY <2>2, ChangesFacts DEF CB!OrdAssumption
<1> QED
  BY <1>1, SumOne, ChangesFacts

LEMMA CompactFacts ==
  ASSUME CB!OrdAssumption, NEW b, Listed(b)
  PROVE  /\ Listed(CB!Compact(b))
         /\ CB!Compact(b).clean = Len(CB!Compact(b).updates)
         /\ CB!Sum(CB!Compact(b).updates) = CB!Sum(b.updates)
         /\ Len(b.updates) # 1 => NoZero(CB!Compact(b).updates, Len(CB!Compact(b).updates))
         /\ Len(b.updates) = 1 => CB!Compact(b).updates = b.updates
<1> DEFINE s == b.updates
           dirty == b.clean < Len(s) /\ Len(s) > 1
           q == IF dirty THEN CB!Sorted(Remaining(s)) ELSE s
<1>1. CB!Compact(b) = [updates |-> q, clean |-> Len(q)]
  BY DEF CB!Compact, Remaining
<1>2. /\ s \in Changes /\ Len(s) \in Nat /\ b.clean \in 0 .. Len(s) /\ Ordered(s, b.clean)
      /\ b.clean > 1 => NoZero(s, b.clean)
  BY ChangesFacts DEF Listed
<1> HIDE DEF s
<1>3. /\ q \in Changes /\ Ordered(q, Len(q)) /\ CB!Sum(q) = CB!Sum(s)
      /\ Len(s) # 1 => NoZero(q, Len(q))
      /\ Len(s) = 1 => q = s
  <2>1. CASE ~dirty
    <3>1. q = s
      BY <2>1
    <3>2. b.clean = Len(s) \/ Len(s) <= 1
      <4>1. ~(b.clean < Len(s)) \/ ~(Len(s) > 1)
        BY <2>1
      <4> HIDE DEF dirty, q
      <4> QED
        BY <1>2, <4>1
    <3>3. Ordered(s, Len(s))
      BY <1>2, <3>2 DEF Ordered
    <3>4. Len(s) # 1 => NoZero(s, Len(s))
      BY <1>2, <3>2 DEF NoZero
    <3> QED
      BY <1>2, <3>1, <3>3, <3>4
  <2>2. CASE dirty
    <3>1. q = CB!Sorted(Remaining(s))
      BY <2>2
    <3> HIDE DEF q
    <3>2. /\ q \in Changes /\ Ordered(q, Len(q))
          /\ \A i \in 1 .. Len(q) : q[i] \in Remaining(s)
          /\ \A v \in Remaining(s) : \E i \in 1 .. Len(q) : q[i] = v
      BY <1>2, <3>1, RemainingFacts, SortedTimes
    <3>3. ASSUME NEW t \in Chain PROVE CB!SumAt(q, t) = CB!SumAt(s, t)
      <4>1. CASE CB!SumAt(s, t) = 0
        <5>1. \A n \in 1 .. Len(q) : q[n][1] # t
          <6>1. \A n \in 1 .. Len(q) : q[n] = <<q[n][1], q[n][2]>> /\ q[n] \in Remaining(s)
            BY <3>2, ChangesFacts
          <6>2. \A x : <<t, x>> \notin Remaining(s)
            BY <1>2, <4>1, RemainingFacts
          <6> QED
            BY <6>1, <6>2
        <5> QED
          BY <3>2, <4>1, <5>1, SumNone, ChangesFacts
      <4>2. CASE CB!SumAt(s, t) # 0
        <5>1. <<t, CB!SumAt(s, t)>> \in Remaining(s)
          BY <1>2, <4>2, RemainingFacts
        <5>2. PICK p \in 1 .. Len(q) : q[p] = <<t, CB!SumAt(s, t)>>
          BY <3>2, <5>1
        <5>3. CB!SumAt(q, q[p][1]) = q[p][2]
          BY <3>2, OrderedSum
        <5> QED
          BY <5>2, <5>3
      <4> QED
        BY <4>1, <4>2
    <3>4. CB!Sum(q) = CB!Sum(s)
      BY <3>3 DEF CB!Sum
    <3>5. NoZero(q, Len(q))
      <4>1. \A u \in Remaining(s) : u[2] # 0
        BY <1>2, RemainingFacts
      <4> QED
        BY <3>2, <4>1 DEF NoZero
    <3>6. Len(s) # 1
      <4>1. Len(s) > 1
        BY <2>2
      <4>2. ~(1 > 1)
        OBVIOUS
      <4> QED
        BY <4>1, <4>2, Zenon
    <3> QED
      BY <3>2, <3>4, <3>5, <3>6
  <2> QED
    BY <2>1, <2>2
<1> HIDE DEF q
<1>4. Len(q) \in 0 .. Len(q) /\ (Len(q) > 1 => NoZero(q, Len(q)))
  BY <1>3, ChangesFacts
<1> QED
  BY <1>1, <1>3, <1>4 DEF Listed, s

\* is_empty: the changes that could cancel a compact prefix are at least as many.
LEMMA PrefixOutnumbers ==
  ASSUME CB!OrdAssumption, NEW b, Listed(b), CB!KnownNonempty(b), ~CB!LoneZero(b)
  PROVE  CB!Sum(b.updates) # CB!Zero
<1> SUFFICES ASSUME CB!Sum(b.updates) = CB!Zero PROVE FALSE
  OBVIOUS
<1> DEFINE s == b.updates
<1>0. PICK L \in Nat : Len(s) = L
  BY ChangesFacts DEF Listed
<1>1. PICK c \in 0 .. L :
        /\ s \in Changes /\ Len(s) = L /\ c = b.clean /\ Ordered(s, c)
        /\ (c > 1 => NoZero(s, c)) /\ ~(L = 1 /\ s[1][2] = 0)
  BY <1>0 DEF Listed, CB!LoneZero
<1>2. c > L \div 2
  BY <1>1 DEF CB!KnownNonempty
<1>3. \A t \in Chain : CB!SumAt(s, t) = 0
  BY DEF CB!Sum, CB!Zero
<1> HIDE DEF s
<1>4. \A n \in 1 .. L : s[n][1] \in Chain /\ s[n][2] \in Int
  BY <1>1, ChangesFacts
<1>11. \A n \in 1 .. c : s[n][2] # 0
  <2>1. c > 1 \/ (c = 1 /\ L = 1)
    BY <1>2
  <2> QED
    BY <1>1, <2>1 DEF NoZero
<1>5. ASSUME NEW i \in 1 .. c, NEW j \in 1 .. c, s[i][1] = s[j][1] PROVE i = j
  <2>1. i \in 1 .. L /\ j \in 1 .. L /\ (i = j \/ i < j \/ j < i)
    OBVIOUS
  <2> QED
    BY <1>1, <1>4, <1>5, <2>1 DEF Ordered, CB!OrdAssumption
<1>6. ASSUME NEW i \in 1 .. c PROVE \E k \in c + 1 .. L : s[k][1] = s[i][1]
  <2>1. i \in 1 .. L
    OBVIOUS
  <2>2. PICK k \in 1 .. L : k # i /\ s[k][1] = s[i][1]
    <3>1. CB!SumAt(s, s[i][1]) # s[i][2]
      BY <1>3, <1>4, <1>11, <2>1
    <3> QED
      BY <1>1, <1>4, <2>1, <3>1, SumOne
  <2>3. ~(k \in 1 .. c)
    BY <1>5, <2>2
  <2> QED
    BY <2>2, <2>3
<1> DEFINE g == [i \in 1 .. c |-> CHOOSE k \in c + 1 .. L : s[k][1] = s[i][1]]
<1>7. \A i \in 1 .. c : g[i] \in c + 1 .. L /\ s[g[i]][1] = s[i][1]
  BY <1>6
<1>8. g \in Injection(1 .. c, c + 1 .. L)
  <2>1. g = [i \in 1 .. c |-> g[i]]
    OBVIOUS
  <2> HIDE DEF g
  <2> QED
    BY <1>5, <1>7, <2>1 DEF Injection, IsInjective
<1> HIDE DEF g
<1>9. /\ IsFiniteSet(c + 1 .. L) /\ Cardinality(1 .. c) = c /\ Cardinality(c + 1 .. L) = L - c
  <2>1. 1 \in Int /\ c \in Int /\ c + 1 \in Int /\ L \in Int /\ c >= 0 /\ c <= L
    OBVIOUS
  <2>2. Cardinality(1 .. c) = IF 1 > c THEN 0 ELSE c - 1 + 1
    BY <2>1, FS_Interval
  <2>3. /\ IsFiniteSet(c + 1 .. L)
        /\ Cardinality(c + 1 .. L) = IF c + 1 > L THEN 0 ELSE L - (c + 1) + 1
    BY <2>1, FS_Interval
  <2> QED
    BY <2>1, <2>2, <2>3
<1>10. c <= L - c
  BY <1>8, <1>9, FS_Injection
<1> QED
  BY <1>2, <1>10

-----------------------------------------------------------------------------
(* The calls *)

LEMMA AppendedFacts ==
  ASSUME CB!OrdAssumption, NEW b, Listed(b), NEW u \in Changes
  PROVE  /\ Listed(CB!Appended(b, u))
         /\ CB!Sum(CB!Appended(b, u).updates)
              = [t \in Chain |-> CB!Sum(b.updates)[t] + CB!Sum(u)[t]]
<1>1. PICK s \in Changes, c \in Nat :
        /\ b = [updates |-> s, clean |-> c] /\ s = b.updates /\ c \in 0 .. Len(s) /\ Ordered(s, c)
        /\ c > 1 => NoZero(s, c)
  <2>1. /\ b = [updates |-> b.updates, clean |-> b.clean] /\ b.updates = b.updates
        /\ b.clean \in 0 .. Len(b.updates) /\ Ordered(b.updates, b.clean)
        /\ b.updates \in Changes /\ (b.clean > 1 => NoZero(b.updates, b.clean))
    BY DEF Listed
  <2>2. b.clean \in Nat
    BY <2>1, ChangesFacts
  <2> QED
    BY <2>1, <2>2, Zenon
<1> DEFINE longer == [updates |-> s \o u, clean |-> c]
<1>3. Listed(longer)
  <2>1. s \o u \in Changes /\ Len(s \o u) = Len(s) + Len(u)
        /\ \A i \in 1 .. Len(s) : (s \o u)[i] = s[i]
    BY <1>1, ConcatProperties DEF Changes
  <2>2. Len(s) \in Nat /\ Len(u) \in Nat
    BY <1>1, ChangesFacts
  <2>3. c \in 0 .. Len(s \o u)
    BY <1>1, <2>1, <2>2
  <2>4. Ordered(s \o u, c) /\ (c > 1 => NoZero(s \o u, c))
    <3>1. \A i \in 1 .. c : i \in 1 .. Len(s)
      BY <1>1, <2>2
    <3> QED
      BY <1>1, <2>1, <3>1 DEF Ordered, NoZero
  <2> QED
    BY <2>1, <2>3, <2>4 DEF Listed
<1>4. CB!Sum(longer.updates) = [t \in Chain |-> CB!Sum(s)[t] + CB!Sum(u)[t]]
  <2>1. \A t \in Chain : CB!SumAt(s \o u, t) = CB!SumAt(s, t) + CB!SumAt(u, t)
    BY <1>1, SumAppended
  <2> QED
    BY <2>1 DEF CB!Sum
<1>2. CB!Appended(b, u) \in {longer, CB!Compact(longer)}
  <2>1. longer = [updates |-> b.updates \o u, clean |-> b.clean]
    BY <1>1
  <2> HIDE DEF longer
  <2> QED
    BY <2>1 DEF CB!Appended
<1> HIDE DEF longer
<1>6. CASE CB!Appended(b, u) = longer
  BY <1>1, <1>3, <1>4, <1>6
<1>7. CASE CB!Appended(b, u) = CB!Compact(longer)
  BY <1>1, <1>3, <1>4, <1>7, CompactFacts
<1> QED
  BY <1>2, <1>6, <1>7

LEMMA EmptyBatch == Listed(CB!New) /\ CB!Sum(<<>>) = CB!Zero
<1>1. <<>> \in Changes /\ Len(<<>>) = 0
  BY DEF Changes
<1>2. \A t \in Chain : CB!SumAt(<<>>, t) = 0
  BY <1>1, SumNone
<1> QED
  BY <1>1, <1>2 DEF CB!New, CB!Sum, CB!Zero, Listed, Ordered

\* A list adds up to what its calls do.
BatchInv ==
  /\ cb_batch = [k \in CB!Batch |-> cb_batch[k]]
  /\ cb_total = [k \in CB!Batch |-> cb_total[k]]
  /\ \A k \in CB!Batch : Listed(cb_batch[k]) /\ CB!Sum(cb_batch[k].updates) = cb_total[k]

LEMMA BatchBegins == CB!Init => BatchInv
BY EmptyBatch DEF CB!Init, BatchInv, CB!New

LEMMA ExtendKeeps ==
  ASSUME CB!OrdAssumption, BatchInv, NEW k \in CB!Batch, NEW u \in Changes, CB!Extend(k, u)
  PROVE  BatchInv'
<1>1. /\ cb_batch' = [cb_batch EXCEPT ![k] = CB!Appended(@, u)]
      /\ cb_total' = [cb_total EXCEPT ![k] = [t \in Chain |-> @[t] + CB!Sum(u)[t]]]
  BY DEF CB!Extend
<1>2. /\ Listed(CB!Appended(cb_batch[k], u))
      /\ CB!Sum(CB!Appended(cb_batch[k], u).updates)
           = [t \in Chain |-> cb_total[k][t] + CB!Sum(u)[t]]
  BY AppendedFacts DEF BatchInv
<1>3. /\ cb_batch' = [j \in CB!Batch |-> cb_batch'[j]]
      /\ cb_total' = [j \in CB!Batch |-> cb_total'[j]]
      /\ \A j \in CB!Batch \ {k} : cb_batch'[j] = cb_batch[j] /\ cb_total'[j] = cb_total[j]
      /\ cb_batch'[k] = CB!Appended(cb_batch[k], u)
      /\ cb_total'[k] = [t \in Chain |-> cb_total[k][t] + CB!Sum(u)[t]]
  BY <1>1 DEF BatchInv
<1> QED
  BY <1>2, <1>3 DEF BatchInv

LEMMA CompactKeeps ==
  ASSUME CB!OrdAssumption, BatchInv, NEW k \in CB!Batch, UNCHANGED cb_total,
         cb_batch' = [cb_batch EXCEPT ![k] = CB!Compact(@)]
  PROVE  BatchInv'
<1>1. /\ Listed(CB!Compact(cb_batch[k]))
      /\ CB!Sum(CB!Compact(cb_batch[k]).updates) = cb_total[k]
  BY CompactFacts DEF BatchInv
<1>2. /\ cb_batch' = [j \in CB!Batch |-> cb_batch'[j]]
      /\ cb_batch'[k] = CB!Compact(cb_batch[k])
      /\ \A j \in CB!Batch \ {k} : cb_batch'[j] = cb_batch[j]
  BY DEF BatchInv
<1> QED
  BY <1>1, <1>2 DEF BatchInv

LEMMA DrainKeeps ==
  ASSUME BatchInv, NEW k \in CB!Batch, CB!Drain(k)
  PROVE  BatchInv'
BY EmptyBatch DEF BatchInv, CB!Drain, CB!New

LEMMA DrainIntoKeeps ==
  ASSUME CB!OrdAssumption, BatchInv, CB!DrainInto
  PROVE  BatchInv'
<1> DEFINE mine == cb_batch["self"]
           other == cb_batch["other"]
<1>1. /\ Listed(mine) /\ CB!Sum(mine.updates) = cb_total["self"]
      /\ Listed(other) /\ CB!Sum(other.updates) = cb_total["other"]
  BY DEF BatchInv, CB!Batch
<1>2. cb_total' = [self |-> CB!Zero,
                   other |-> [t \in Chain |-> cb_total["self"][t] + cb_total["other"][t]]]
  BY DEF CB!DrainInto
<1>3. \A t \in Chain : cb_total["self"][t] \in Int /\ cb_total["other"][t] \in Int
  <2>1. \A t \in Chain : CB!SumAt(mine.updates, t) \in Int /\ CB!SumAt(other.updates, t) \in Int
    BY <1>1, ChangesFacts, SumInt DEF Listed
  <2> QED
    BY <1>1, <2>1 DEF CB!Sum
<1>4. ASSUME NEW x, NEW y, cb_batch' = [self |-> x, other |-> y],
             Listed(x), CB!Sum(x.updates) = CB!Zero,
             Listed(y), CB!Sum(y.updates) = [t \in Chain |-> cb_total["self"][t] + cb_total["other"][t]]
      PROVE  BatchInv'
  <2>1. CB!Batch = {"self", "other"}
    BY DEF CB!Batch
  <2> QED
    BY <1>2, <1>4, <2>1 DEF BatchInv
<1>5. CASE other.updates = <<>>
  <2>1. cb_batch' = [self |-> other, other |-> mine]
    BY <1>5 DEF CB!DrainInto
  <2>2. cb_total["other"] = CB!Zero
    BY <1>1, <1>5, EmptyBatch
  <2>3. cb_total["self"] = [t \in Chain |-> cb_total["self"][t]]
    BY <1>1 DEF CB!Sum
  <2>4. cb_total["self"] = [t \in Chain |-> cb_total["self"][t] + cb_total["other"][t]]
    BY <1>3, <2>2, <2>3 DEF CB!Zero
  <2> QED
    BY <1>1, <1>4, <2>1, <2>2, <2>4
<1>6. CASE other.updates # <<>>
  <2>1. cb_batch' = [self |-> CB!New, other |-> CB!Appended(other, mine.updates)]
    BY <1>6 DEF CB!DrainInto
  <2>2. mine.updates \in Changes
    BY <1>1 DEF Listed
  <2>3. /\ Listed(CB!Appended(other, mine.updates))
        /\ CB!Sum(CB!Appended(other, mine.updates).updates)
             = [t \in Chain |-> cb_total["other"][t] + cb_total["self"][t]]
    BY <1>1, <2>2, AppendedFacts
  <2>4. [t \in Chain |-> cb_total["other"][t] + cb_total["self"][t]]
          = [t \in Chain |-> cb_total["self"][t] + cb_total["other"][t]]
    BY <1>3
  <2>5. CB!New.updates = <<>>
    BY DEF CB!New
  <2> QED
    BY <1>4, <2>1, <2>3, <2>4, <2>5, EmptyBatch
<1> QED
  BY <1>5, <1>6

LEMMA BatchKept ==
  ASSUME CB!OrdAssumption, CB!DeltaAssumption, BatchInv, [CB!Next]_cb_vars
  PROVE  BatchInv'
<1>0. Chain \X Delta \subseteq Chain \X Int
  BY DEF CB!DeltaAssumption
<1> DEFINE S == Chain \X Int
<1>1. \A u \in Chain \X Delta : <<u>> \in Changes
  <2>1. Changes = Seq(S) /\ \A u \in Chain \X Delta : u \in S
    BY <1>0 DEF Changes
  <2> HIDE DEF S
  <2> QED
    BY <2>1
<1>2. \A u, v \in Chain \X Delta : <<u, v>> \in Changes
  <2>1. Changes = Seq(S) /\ \A u \in Chain \X Delta : u \in S
    BY <1>0 DEF Changes
  <2> HIDE DEF S
  <2> QED
    BY <2>1
<1>3. ASSUME NEW k \in CB!Batch, NEW u \in Chain \X Delta, CB!Extend(k, <<u>>) PROVE BatchInv'
  BY <1>1, <1>3, ExtendKeeps
<1>4. ASSUME NEW k \in CB!Batch, NEW u \in Chain \X Delta, NEW v \in Chain \X Delta,
             CB!Extend(k, <<u, v>>)
      PROVE  BatchInv'
  BY <1>2, <1>4, ExtendKeeps
<1>5. ASSUME NEW k \in CB!Batch, CB!Iter(k) PROVE BatchInv'
  BY <1>5, CompactKeeps DEF CB!Iter
<1>6. ASSUME UNCHANGED cb_vars PROVE BatchInv'
  BY <1>6 DEF BatchInv, cb_vars
<1>7. ASSUME NEW k \in CB!Batch, CB!IsEmpty(k) PROVE BatchInv'
  <2>1. CASE CB!KnownNonempty(cb_batch[k])
    <3>1. cb_batch' = [cb_batch EXCEPT ![k] = @] /\ UNCHANGED cb_total
      BY <1>7, <2>1 DEF CB!IsEmpty
    <3>2. cb_batch' = cb_batch
      BY <3>1 DEF BatchInv
    <3> QED
      BY <1>6, <3>1, <3>2 DEF cb_vars
  <2>2. CASE ~CB!KnownNonempty(cb_batch[k])
    <3>1. cb_batch' = [cb_batch EXCEPT ![k] = CB!Compact(@)] /\ UNCHANGED cb_total
      BY <1>7, <2>2 DEF CB!IsEmpty
    <3> QED
      BY <3>1, CompactKeeps
  <2> QED
    BY <2>1, <2>2
<1> QED
  BY <1>3, <1>4, <1>5, <1>6, <1>7, DrainKeeps, DrainIntoKeeps DEF CB!Next

LEMMA BatchesInOrder == ASSUME CB!OrdAssumption, BatchInv PROVE CB!BatchAgrees
<1> SUFFICES ASSUME NEW k \in CB!Batch
             PROVE  LET b       == cb_batch[k]
                        compact == CB!Compact(b).updates
                    IN  /\ CB!Sum(b.updates) = cb_total[k]
                        /\ \A i, j \in DOMAIN compact :
                             i < j => Before(compact[i][1], compact[j][1])
                        /\ ~CB!LoneZero(b) => \A i \in DOMAIN compact : compact[i][2] # 0
                        /\ CB!AnswersEmpty(b) <=> cb_total[k] = CB!Zero /\ ~CB!LoneZero(b)
  BY DEF CB!BatchAgrees
<1> DEFINE b == cb_batch[k]
           done == CB!Compact(b)
           compact == done.updates
<1>1. Listed(b) /\ CB!Sum(b.updates) = cb_total[k]
  BY DEF BatchInv
<1> HIDE DEF b
<1>2. /\ Listed(done) /\ done.clean = Len(compact) /\ CB!Sum(compact) = cb_total[k]
      /\ Len(b.updates) # 1 => NoZero(compact, Len(compact))
      /\ Len(b.updates) = 1 => compact = b.updates
  BY <1>1, CompactFacts
<1> HIDE DEF done
<1>3. /\ compact \in Changes /\ Ordered(compact, Len(compact))
      /\ Len(compact) \in Nat /\ DOMAIN compact = 1 .. Len(compact)
  <2>1. compact \in Changes /\ Ordered(compact, Len(compact))
    BY <1>2 DEF Listed
  <2>2. Len(compact) \in Nat /\ compact \in [1 .. Len(compact) -> Chain \X Int]
    BY <2>1, ChangesFacts
  <2> QED
    BY <2>1, <2>2, ChangesFacts
<1>6. ~CB!LoneZero(b) => NoZero(compact, Len(compact))
  BY <1>2 DEF NoZero, CB!LoneZero
<1>4. ASSUME compact = <<>> PROVE cb_total[k] = CB!Zero /\ ~CB!LoneZero(b)
  <2>1. cb_total[k] = CB!Zero
    BY <1>2, <1>4, EmptyBatch
  <2>2. Len(b.updates) # 1
    <3>1. Len(<<>>) = 0
      OBVIOUS
    <3>2. Len(compact) = 0
      BY <1>4, <3>1
    <3>3. Len(b.updates) = 1 => Len(compact) = 1
      BY <1>2, Zenon
    <3> QED
      BY <3>2, <3>3
  <2> QED
    BY <2>1, <2>2 DEF CB!LoneZero
<1>5. ASSUME cb_total[k] = CB!Zero, ~CB!LoneZero(b)
      PROVE  ~CB!KnownNonempty(b) /\ compact = <<>>
  <2>1. ~CB!LoneZero(done)
    <3>1. NoZero(compact, Len(compact))
      BY <1>5, <1>6
    <3> QED
      BY <3>1 DEF NoZero, CB!LoneZero
  <2>2. ~CB!KnownNonempty(b) /\ ~CB!KnownNonempty(done)
    BY <1>1, <1>2, <1>5, <2>1, PrefixOutnumbers
  <2>3. ~(Len(compact) > Len(compact) \div 2)
    BY <1>2, <2>2 DEF CB!KnownNonempty
  <2>4. Len(compact) = 0
    <3>1. \A n \in Nat : n > n \div 2 \/ n = 0
      OBVIOUS
    <3> QED
      BY <1>3, <2>3, <3>1
  <2>5. compact = <<>>
    <3>1. compact \in Seq(Chain \X Int)
      BY <1>3 DEF Changes
    <3>2. compact # <<>> => Len(compact) \in Nat \ {0}
      BY <3>1, EmptySeq
    <3> QED
      BY <2>4, <3>2
  <2> QED
    BY <2>2, <2>5
<1>7. CB!AnswersEmpty(b) <=> cb_total[k] = CB!Zero /\ ~CB!LoneZero(b)
  <2>1. CB!AnswersEmpty(b) <=> ~CB!KnownNonempty(b) /\ compact = <<>>
    BY DEF CB!AnswersEmpty, done
  <2> QED
    BY <1>4, <1>5, <2>1
<1> QED
  BY <1>1, <1>3, <1>6, <1>7 DEF Ordered, NoZero, b, done

\* A behaviour of the composition runs ChangeBatch, or leaves it alone.
LEMMA BatchOnly ==
  /\ AnyInit => CB!Init
  /\ [AnyNext]_any_vars => [CB!Next]_cb_vars
<1>1. AnyInit => CB!Init
  BY DEF AnyInit
<1>2. ASSUME AnyNext PROVE [CB!Next]_cb_vars
  BY <1>2 DEF AnyNext
<1>3. ASSUME UNCHANGED any_vars PROVE UNCHANGED cb_vars
  BY <1>3 DEF any_vars
<1> QED
  BY <1>1, <1>2, <1>3

\* change_batch.rs, ChangeBatch: however appends, swaps, drains and lazy compactions
\* alternate, changes of zero among them, and wherever maintain_bounds compacts, no change
\* is lost, what a reader sees names each time once and in order, and is_empty is right
\* of every list but a single change of zero.
THEOREM BatchesAgree ==
  ASSUME CB!OrdAssumption, CB!DeltaAssumption PROVE AnySpec => []BatchAgrees
<1>1. AnyInit => BatchInv
  BY BatchOnly, BatchBegins
<1>2. BatchInv /\ [AnyNext]_any_vars => BatchInv'
  BY BatchOnly, BatchKept
<1>3. BatchInv => BatchAgrees
  BY BatchesInOrder DEF BatchAgrees
<1> QED
  BY <1>1, <1>2, <1>3, PTL DEF AnySpec

-----------------------------------------------------------------------------
(* Logs: functions that are computed from one position to the next *)

\* f begins with z, and goes from one position to the next by advance.
Stepwise(V, z, L, advance, f) ==
  f \in [0 .. L -> V] /\ f[0] = z /\ \A n \in 1 .. L : f[n] = advance[n][f[n - 1]]

\* There is such a function.
LEMMA Recurrence ==
  ASSUME NEW V, NEW z \in V, NEW L \in Nat, NEW advance \in [1 .. L -> [V -> V]]
  PROVE  \E f : Stepwise(V, z, L, advance, f)
<1> DEFINE Part(m, f) == f \in [0 .. m -> V] /\ f[0] = z /\ \A n \in 1 .. m : f[n] = advance[n][f[n - 1]]
           Good == {m \in 0 .. L : \E f : Part(m, f)}
<1>1. 0 \in Good
  <2>1. Part(0, [n \in 0 .. 0 |-> z])
    OBVIOUS
  <2>2. \E f : Part(0, f)
    BY <2>1, Zenon
  <2> HIDE DEF Part
  <2> QED
    BY <2>2
<1>2. ASSUME NEW m \in 0 .. L, m \in Good, m < L PROVE m + 1 \in Good
  <2>1. PICK f : Part(m, f)
    BY <1>2
  <2> DEFINE g == [n \in 0 .. m + 1 |-> IF n = m + 1 THEN advance[m + 1][f[m]] ELSE f[n]]
  <2>2. m + 1 \in 1 .. L /\ m \in 0 .. m
    BY <1>2
  <2>3. advance[m + 1][f[m]] \in V
    <3>1. f[m] \in V
      BY <2>1, <2>2
    <3> QED
      BY <2>2, <3>1
  <2>4. g \in [0 .. m + 1 -> V]
    <3>1. ASSUME NEW n \in 0 .. m + 1, n # m + 1 PROVE f[n] \in V
      <4>1. n \in 0 .. m
        BY <3>1
      <4> QED
        BY <2>1, <4>1
    <3> QED
      BY <2>3, <3>1
  <2>5. g[0] = z
    BY <2>1
  <2>6. ASSUME NEW n \in 1 .. m + 1 PROVE g[n] = advance[n][g[n - 1]]
    <3>1. CASE n = m + 1
      <4>1. n - 1 = m /\ m \in 0 .. m + 1 /\ m # m + 1
        BY <3>1
      <4>2. g[n - 1] = f[m]
        BY <4>1
      <4> QED
        BY <3>1, <4>2
    <3>2. CASE n # m + 1
      <4>1. n \in 1 .. m /\ n - 1 \in 0 .. m + 1 /\ n - 1 # m + 1
        BY <3>2
      <4>2. g[n] = f[n] /\ g[n - 1] = f[n - 1]
        BY <3>2, <4>1
      <4> QED
        BY <2>1, <4>1, <4>2
    <3> QED
      BY <3>1, <3>2
  <2> HIDE DEF g
  <2>7. Part(m + 1, g)
    BY <2>4, <2>5, <2>6
  <2> QED
    BY <2>2, <2>7
<1> HIDE DEF Good
<1>3. 0 .. L \subseteq Good
  BY <1>1, <1>2, CountUp
<1>4. L \in Good
  BY <1>3
<1>5. PICK f : Part(L, f)
  BY <1>4 DEF Good
<1>6. Stepwise(V, z, L, advance, f)
  BY <1>5 DEF Stepwise
<1> QED
  BY <1>6, Zenon

\* Two functions that start alike and are continued alike are equal.
\* f and g start alike, and are continued alike.
Alike(f, g, L) == f[0] = g[0] /\ \A n \in 1 .. L : f[n - 1] = g[n - 1] => f[n] = g[n]

LEMMA SameSteps ==
  ASSUME NEW L \in Nat, NEW f, NEW g, Alike(f, g, L)
  PROVE  \A n \in 0 .. L : f[n] = g[n]
<1> DEFINE Good == {n \in 0 .. L : f[n] = g[n]}
<1>1. 0 \in Good
  BY DEF Alike
<1>2. ASSUME NEW n \in 0 .. L, n \in Good, n < L PROVE n + 1 \in Good
  <2>1. n + 1 \in 1 .. L /\ (n + 1) - 1 = n
    BY <1>2
  <2> QED
    BY <1>2, <2>1 DEF Alike
<1> HIDE DEF Good
<1>3. 0 .. L \subseteq Good
  BY <1>1, <1>2, CountUp
<1> QED
  BY <1>3 DEF Good

-----------------------------------------------------------------------------
(* The capabilities a replay is left with, and the events a stream holds *)

\* What a replay holds at t after each of the first L events of s.
HeldRun(s, t, L, f) ==
  /\ f \in [0 .. L -> Int]
  /\ f[0] = (IF t = 0 THEN 1 ELSE 0)
  /\ \A n \in 1 .. L : f[n] = f[n - 1] + LG!Changed(s[n], t)
  /\ LG!HeldAfter(s, L, t) = f[L]

\* HeldAfter goes from event to event.
LEMMA HeldSteps ==
  ASSUME NEW s, NEW t, NEW L \in Nat
  PROVE  \E f : HeldRun(s, t, L, f)
<1> DEFINE z == IF t = 0 THEN 1 ELSE 0
           x(n) == LG!Changed(s[n], t)
           advance == [n \in 1 .. L |-> [v \in Int |-> v + x(n)]]
           Run(g) == g = [n \in 0 .. L |-> IF n = 0 THEN z ELSE g[n - 1] + x(n)]
           c == CHOOSE g : Run(g)
<1>1. \A n : x(n) \in Int
  BY DEF LG!Changed
<1>2. LG!HeldAfter(s, L, t) = c[L]
  BY Zenon DEF LG!HeldAfter
<1>3. z \in Int
  OBVIOUS
<1> HIDE DEF x, z
<1>4. advance \in [1 .. L -> [Int -> Int]]
  BY <1>1
<1>5. PICK f : Stepwise(Int, z, L, advance, f)
  <2> HIDE DEF advance
  <2> QED
    BY <1>3, <1>4, Recurrence, Zenon
<1>6. \A n \in 1 .. L : f[n] = f[n - 1] + x(n)
  <2>1. \A n \in 1 .. L : f[n - 1] \in Int
    BY <1>5 DEF Stepwise
  <2> QED
    BY <1>5, <2>1 DEF Stepwise
<1> HIDE DEF advance
<1>7. Run(f)
  <2>1. \A n \in 0 .. L : n = 0 \/ n \in 1 .. L
    OBVIOUS
  <2>2. \A n \in 0 .. L : f[n] = IF n = 0 THEN z ELSE f[n - 1] + x(n)
    BY <1>5, <1>6, <2>1 DEF Stepwise
  <2>3. f = [n \in 0 .. L |-> f[n]]
    BY <1>5 DEF Stepwise
  <2> QED
    BY <2>2, <2>3
<1>8. Run(c)
  <2>1. \E g : Run(g)
    BY <1>7, Zenon
  <2> HIDE DEF Run
  <2> QED
    BY <2>1, Zenon
<1>9. c[L] = f[L]
  <2> HIDE DEF c
  <2>1. c[0] = z /\ \A n \in 1 .. L : c[n] = c[n - 1] + x(n)
    <3>1. \A n \in 1 .. L : n \in 0 .. L /\ n # 0
      OBVIOUS
    <3>2. 0 \in 0 .. L
      OBVIOUS
    <3> QED
      BY <1>8, <3>1, <3>2
  <2>2. \A n \in 0 .. L : c[n] = f[n]
    <3>1. Alike(c, f, L)
      BY <1>5, <1>6, <2>1 DEF Alike, Stepwise
    <3> QED
      BY <3>1, SameSteps, Zenon
  <2> QED
    BY <2>2
<1> HIDE DEF c
<1>10. HeldRun(s, t, L, f)
  BY <1>2, <1>5, <1>6, <1>9 DEF x, z, HeldRun, Stepwise
<1> QED
  BY <1>10, Zenon

\* s and r have the same first k events.
SameStart(s, r, k) == \A n \in 1 .. k : s[n] = r[n]

\* What the first events say does not depend on those behind.
LEMMA HeldSame ==
  ASSUME NEW p, NEW q, NEW t, NEW k \in Nat, SameStart(p, q, k)
  PROVE  LG!HeldAfter(p, k, t) = LG!HeldAfter(q, k, t)
<1>1. PICK f : HeldRun(p, t, k, f)
  BY HeldSteps
<1>2. PICK g : HeldRun(q, t, k, g)
  BY HeldSteps
<1>3. \A n \in 0 .. k : f[n] = g[n]
  <2>1. Alike(f, g, k)
    BY <1>1, <1>2 DEF HeldRun, Alike, SameStart
  <2> QED
    BY <2>1, SameSteps, Zenon
<1>4. k \in 0 .. k
  OBVIOUS
<1> QED
  BY <1>1, <1>2, <1>3, <1>4 DEF HeldRun

LEMMA HeldNext ==
  ASSUME NEW s, NEW t, NEW k \in Nat
  PROVE  /\ LG!HeldAfter(s, k, t) \in Int
         /\ LG!HeldAfter(s, 0, t) = (IF t = 0 THEN 1 ELSE 0)
         /\ LG!HeldAfter(s, k + 1, t) = LG!HeldAfter(s, k, t) + LG!Changed(s[k + 1], t)
<1>1. PICK g : HeldRun(s, t, 0, g)
  <2>1. 0 \in Nat
    OBVIOUS
  <2> QED
    BY <2>1, HeldSteps
<1>2. PICK f : HeldRun(s, t, k, f)
  BY HeldSteps
<1>3. PICK h : HeldRun(s, t, k + 1, h)
  <2>1. k + 1 \in Nat
    OBVIOUS
  <2> QED
    BY <2>1, HeldSteps
<1>4. \A n \in 0 .. k : f[n] = h[n]
  <2>1. \A n \in 1 .. k : n \in 1 .. k + 1
    OBVIOUS
  <2>2. Alike(f, h, k)
    BY <1>2, <1>3, <2>1 DEF HeldRun, Alike
  <2> QED
    BY <2>2, SameSteps, Zenon
<1>5. h[k + 1] = h[k] + LG!Changed(s[k + 1], t)
  <2>1. k + 1 \in 1 .. k + 1 /\ (k + 1) - 1 = k
    OBVIOUS
  <2> QED
    BY <1>3, <2>1 DEF HeldRun
<1>6. k \in 0 .. k
  OBVIOUS
<1> QED
  BY <1>1, <1>2, <1>3, <1>4, <1>5, <1>6 DEF HeldRun

\* What is logged, and the events of a stream.
Entry == Nat \X Nat
LogEvent == [kind : {"messages"}, time : Nat, data : Seq(Entry)]
              \cup [kind : {"progress"}, changes : SUBSET (Nat \X Int)]

\* The events a message has.
DataOf(e) == IF e.kind = "messages" THEN e.data ELSE <<>>

\* What the first events of s hold, position by position.
ContentsRun(s, f) ==
  /\ f \in [0 .. Len(s) -> Seq(Entry)]
  /\ f[0] = <<>>
  /\ \A n \in 1 .. Len(s) : f[n] = f[n - 1] \o DataOf(s[n])
  /\ LG!Contents(s) = f[Len(s)]

\* Contents goes from event to event.
LEMMA ContentsSteps ==
  ASSUME NEW s \in Seq(LogEvent)
  PROVE  \E f : ContentsRun(s, f)
<1>0. PICK L \in Nat : L = Len(s)
  OBVIOUS
<1> DEFINE V == Seq(Entry)
           x(n) == DataOf(s[n])
           advance == [n \in 1 .. L |-> [v \in V |-> v \o x(n)]]
           Run(g) == g = [n \in 0 .. L |-> IF n = 0 THEN <<>> ELSE g[n - 1] \o x(n)]
           c == CHOOSE g : Run(g)
<1>1. \A n \in 1 .. L : x(n) \in V
  <2>1. \A n \in 1 .. L : s[n] \in LogEvent
    BY <1>0, ElementOfSeq
  <2>2. \A e \in LogEvent : DataOf(e) \in V
    BY EmptySeq DEF LogEvent, DataOf
  <2> QED
    BY <2>1, <2>2
<1>2. LG!Contents(s) = c[L]
  <2>1. LG!Contents(s) = (CHOOSE g : g = [n \in 0 .. Len(s) |-> IF n = 0 THEN <<>>
                            ELSE g[n - 1] \o (IF s[n].kind = "messages" THEN s[n].data ELSE <<>>)])[Len(s)]
    BY Zenon DEF LG!Contents
  <2> QED
    BY <1>0, <2>1, Zenon DEF DataOf
<1>3. <<>> \in V
  BY EmptySeq
<1>a. \A v \in V, w \in V : v \o w \in V
  BY ConcatProperties
<1> HIDE DEF x, V
<1>4. advance \in [1 .. L -> [V -> V]]
  BY <1>1, <1>a
<1>5. PICK f : Stepwise(V, <<>>, L, advance, f)
  <2> HIDE DEF advance
  <2> QED
    BY <1>3, <1>4, Recurrence, Zenon
<1>6. \A n \in 1 .. L : f[n] = f[n - 1] \o x(n)
  <2>1. \A n \in 1 .. L : f[n - 1] \in V
    BY <1>5 DEF Stepwise
  <2> QED
    BY <1>5, <2>1 DEF Stepwise
<1> HIDE DEF advance
<1>7. Run(f)
  <2>1. \A n \in 0 .. L : n = 0 \/ n \in 1 .. L
    OBVIOUS
  <2>2. \A n \in 0 .. L : f[n] = IF n = 0 THEN <<>> ELSE f[n - 1] \o x(n)
    BY <1>5, <1>6, <2>1 DEF Stepwise
  <2>3. f = [n \in 0 .. L |-> f[n]]
    BY <1>5 DEF Stepwise
  <2> QED
    BY <2>2, <2>3
<1>8. Run(c)
  <2>1. \E g : Run(g)
    BY <1>7, Zenon
  <2> HIDE DEF Run
  <2> QED
    BY <2>1, Zenon
<1>9. c[L] = f[L]
  <2> HIDE DEF c
  <2>1. c[0] = <<>> /\ \A n \in 1 .. L : c[n] = c[n - 1] \o x(n)
    <3>1. \A n \in 1 .. L : n \in 0 .. L /\ n # 0
      OBVIOUS
    <3>2. 0 \in 0 .. L
      OBVIOUS
    <3> QED
      BY <1>8, <3>1, <3>2
  <2>2. \A n \in 0 .. L : c[n] = f[n]
    <3>1. Alike(c, f, L)
      BY <1>5, <1>6, <2>1 DEF Alike, Stepwise
    <3> QED
      BY <3>1, SameSteps, Zenon
  <2> QED
    BY <2>2
<1> HIDE DEF c
<1>10. ContentsRun(s, f)
  BY <1>0, <1>2, <1>5, <1>6, <1>9 DEF x, V, ContentsRun, Stepwise
<1> QED
  BY <1>10, Zenon

LEMMA ContentsEmpty == LG!Contents(<<>>) = <<>>
<1>1. <<>> \in Seq(LogEvent) /\ Len(<<>>) = 0
  BY EmptySeq
<1>2. PICK f : ContentsRun(<<>>, f)
  BY <1>1, ContentsSteps, Zenon
<1> QED
  BY <1>1, <1>2 DEF ContentsRun

LEMMA ContentsAppend ==
  ASSUME NEW s \in Seq(LogEvent), NEW e \in LogEvent
  PROVE  LG!Contents(Append(s, e)) = LG!Contents(s) \o DataOf(e) /\ LG!Contents(s) \in Seq(Entry)
<1>1. PICK L \in Nat : L = Len(s)
  OBVIOUS
<1>2. /\ Append(s, e) \in Seq(LogEvent) /\ Len(Append(s, e)) = L + 1
      /\ Append(s, e)[L + 1] = e /\ \A n \in 1 .. L : Append(s, e)[n] = s[n]
  BY <1>1, AppendProperties
<1>3. PICK f : ContentsRun(s, f)
  BY ContentsSteps, Zenon
<1>4. PICK g : ContentsRun(Append(s, e), g)
  BY <1>2, ContentsSteps, Zenon
<1>5. \A n \in 0 .. L : f[n] = g[n]
  <2>1. \A n \in 1 .. L : n \in 1 .. L + 1
    OBVIOUS
  <2>2. Alike(f, g, L)
    BY <1>1, <1>2, <1>3, <1>4, <2>1 DEF Alike, ContentsRun
  <2> QED
    BY <2>2, SameSteps, Zenon
<1>6. g[L + 1] = g[L] \o DataOf(e)
  <2>1. L + 1 \in 1 .. L + 1 /\ (L + 1) - 1 = L
    OBVIOUS
  <2> QED
    BY <1>2, <1>4, <2>1 DEF ContentsRun
<1>7. L \in 0 .. L
  OBVIOUS
<1> QED
  BY <1>1, <1>2, <1>3, <1>4, <1>5, <1>6, <1>7 DEF ContentsRun

-----------------------------------------------------------------------------
(* A log that is sound stays so *)

\* What a replay of all of s holds at t.
Holds(s, t) == LG!HeldAfter(s, Len(s), t)

\* Every message was sent under a capability, and none was held that was too late for it.
SentInTime(s) ==
  \A k \in DOMAIN s : s[k].kind = "messages" =>
    /\ LG!HeldAfter(s, k, s[k].time) > 0
    /\ \A i \in DOMAIN s[k].data : \A t \in Nat :
         LG!HeldAfter(s, k, t) > 0 => t <= s[k].data[i][1]

\* A log that can be written to holds one capability, its action's; one that is closed none.
LogSound(l, open, now, all) ==
  /\ l.time \in Nat /\ l.time <= now
  /\ l.buffer \in Seq(Entry) /\ l.stream \in Seq(LogEvent)
  /\ \A i \in DOMAIN l.buffer : l.time <= l.buffer[i][1]
  /\ ~open => l.buffer = <<>>
  /\ LG!Contents(l.stream) \o l.buffer = all
  /\ SentInTime(l.stream)
  /\ \A t \in Nat : Holds(l.stream, t) = (IF open /\ t = l.time THEN 1 ELSE 0)

LEMMA StreamAppend ==
  ASSUME NEW s \in Seq(LogEvent), NEW e \in LogEvent
  PROVE  /\ Append(s, e) \in Seq(LogEvent)
         /\ \A t : Holds(Append(s, e), t) = Holds(s, t) + LG!Changed(e, t)
         /\ \A t : \A k \in 1 .. Len(s) : LG!HeldAfter(Append(s, e), k, t) = LG!HeldAfter(s, k, t)
<1>1. PICK L \in Nat : L = Len(s)
  OBVIOUS
<1>2. /\ Append(s, e) \in Seq(LogEvent) /\ Len(Append(s, e)) = L + 1
      /\ Append(s, e)[L + 1] = e /\ \A n \in 1 .. L : Append(s, e)[n] = s[n]
  BY <1>1, AppendProperties
<1> DEFINE r == Append(s, e)
<1> HIDE DEF r
<1>3. \A t : \A k \in 0 .. L : LG!HeldAfter(r, k, t) = LG!HeldAfter(s, k, t)
  <2> SUFFICES ASSUME NEW t, NEW k \in 0 .. L
               PROVE  LG!HeldAfter(r, k, t) = LG!HeldAfter(s, k, t)
    OBVIOUS
  <2>1. k \in Nat /\ SameStart(r, s, k)
    BY <1>2 DEF r, SameStart
  <2> QED
    BY <2>1, HeldSame
<1>4. \A t : LG!HeldAfter(r, L + 1, t) = LG!HeldAfter(r, L, t) + LG!Changed(r[L + 1], t)
  BY HeldNext, Zenon
<1>5. L \in 0 .. L /\ 1 .. L \subseteq 0 .. L
  OBVIOUS
<1>6. Len(r) = L + 1 /\ r[L + 1] = e /\ r \in Seq(LogEvent)
  BY <1>2 DEF r
<1>7. \A t : Holds(r, t) = Holds(s, t) + LG!Changed(e, t)
  BY <1>1, <1>3, <1>4, <1>5, <1>6, Zenon DEF Holds
<1>8. \A t : \A k \in 1 .. Len(s) : LG!HeldAfter(r, k, t) = LG!HeldAfter(s, k, t)
  BY <1>1, <1>3, <1>5, Zenon
<1> QED
  BY <1>6, <1>7, <1>8, Zenon DEF r

\* A message is sent in time under the capability that is held.
LEMMA SentAppend ==
  ASSUME NEW s \in Seq(LogEvent), NEW e \in LogEvent, SentInTime(s),
         e.kind = "messages" =>
           /\ Holds(s, e.time) > 0
           /\ \A i \in DOMAIN e.data : \A t \in Nat : Holds(s, t) > 0 => t <= e.data[i][1]
  PROVE  SentInTime(Append(s, e))
<1>1. PICK L \in Nat : L = Len(s)
  OBVIOUS
<1>2. /\ Append(s, e) \in Seq(LogEvent) /\ Len(Append(s, e)) = L + 1
      /\ Append(s, e)[L + 1] = e /\ \A n \in 1 .. L : Append(s, e)[n] = s[n]
  BY <1>1, AppendProperties
<1> DEFINE r == Append(s, e)
<1> HIDE DEF r
<1>3. /\ \A t : Holds(r, t) = Holds(s, t) + LG!Changed(e, t)
      /\ \A t : \A k \in 1 .. L : LG!HeldAfter(r, k, t) = LG!HeldAfter(s, k, t)
  BY <1>1, StreamAppend DEF r
<1>4. /\ DOMAIN r = 1 .. L + 1 /\ DOMAIN s = 1 .. L /\ r[L + 1] = e /\ Len(r) = L + 1
      /\ \A n \in 1 .. L : r[n] = s[n]
  BY <1>1, <1>2 DEF r
<1>t. \A t : Holds(s, t) \in Int
  BY <1>1, HeldNext DEF Holds
<1> SUFFICES ASSUME NEW k \in 1 .. L + 1, r[k].kind = "messages"
             PROVE  /\ LG!HeldAfter(r, k, r[k].time) > 0
                    /\ \A i \in DOMAIN r[k].data : \A t \in Nat :
                         LG!HeldAfter(r, k, t) > 0 => t <= r[k].data[i][1]
  BY <1>4 DEF SentInTime, r
<1>5. CASE k \in 1 .. L
  <2>1. r[k] = s[k] /\ \A t : LG!HeldAfter(r, k, t) = LG!HeldAfter(s, k, t)
    BY <1>3, <1>4, <1>5, Zenon
  <2>2. /\ LG!HeldAfter(s, k, s[k].time) > 0
        /\ \A i \in DOMAIN s[k].data : \A t \in Nat :
             LG!HeldAfter(s, k, t) > 0 => t <= s[k].data[i][1]
    BY <1>4, <1>5, <2>1, Zenon DEF SentInTime
  <2> QED
    BY <2>1, <2>2, Zenon
<1>6. CASE k = L + 1
  <2>1. \A t : LG!Changed(e, t) = 0
    BY <1>4, <1>6 DEF LG!Changed
  <2>2. \A t : LG!HeldAfter(r, k, t) = Holds(s, t)
    BY <1>3, <1>4, <1>6, <1>t, <2>1 DEF Holds
  <2> QED
    BY <1>4, <1>6, <2>2, Zenon
<1> QED
  BY <1>5, <1>6

LEMMA SeqFacts ==
  ASSUME NEW S, NEW s \in Seq(S)
  PROVE  s \o <<>> = s /\ <<>> \o s = s /\ \A e \in S : s \o <<e>> = Append(s, e)
<1>1. s \o <<>> = s /\ <<>> \o s = s
  BY ConcatEmptySeq
<1>2. ASSUME NEW e \in S PROVE s \o <<e>> = Append(s, e)
  BY AppendIsConcat
<1> QED
  BY <1>1, <1>2

LEMMA PublishedSound ==
  ASSUME NEW l, NEW now \in Nat, NEW all, LogSound(l, TRUE, now, all)
  PROVE  LogSound(LG!Published(l, now), TRUE, now, all)
<1> DEFINE b == l.buffer
           s == l.stream
           u == l.time
           m == LG!Messages(u, b)
           p == LG!Progress({<<now, 1>>, <<u, -1>>})
           s1 == s \o (IF b = <<>> THEN <<>> ELSE <<m>>)
           s2 == s1 \o (IF u < now THEN <<p>> ELSE <<>>)
<1>1. /\ u \in Nat /\ u <= now /\ b \in Seq(Entry) /\ s \in Seq(LogEvent)
      /\ \A i \in DOMAIN b : u <= b[i][1]
      /\ LG!Contents(s) \o b = all
      /\ SentInTime(s)
      /\ \A t \in Nat : Holds(s, t) = (IF t = u THEN 1 ELSE 0)
  BY DEF LogSound
<1>2. LG!Published(l, now) = [buffer |-> <<>>, time |-> now, stream |-> s2]
  BY Zenon DEF LG!Published
<1> HIDE DEF b, s, u
<1>3. m \in LogEvent /\ p \in LogEvent
  <2>1. m \in LogEvent
    BY <1>1 DEF LogEvent, LG!Messages
  <2>2. {<<now, 1>>, <<u, -1>>} \in SUBSET (Nat \X Int)
    BY <1>1
  <2> QED
    BY <2>1, <2>2 DEF LogEvent, LG!Progress
<1>4. /\ s1 \in Seq(LogEvent) /\ LG!Contents(s1) = all /\ SentInTime(s1)
      /\ \A t \in Nat : Holds(s1, t) = (IF t = u THEN 1 ELSE 0)
  <2>1. CASE b = <<>>
    <3>1. s1 = s
      BY <1>1, <2>1, SeqFacts
    <3>2. LG!Contents(s) \in Seq(Entry)
      BY <1>1, <1>3, ContentsAppend
    <3>3. LG!Contents(s) = all
      BY <1>1, <2>1, <3>2, SeqFacts
    <3> QED
      BY <1>1, <3>1, <3>3
  <2>2. CASE b # <<>>
    <3>1. s1 = Append(s, m)
      BY <1>1, <1>3, <2>2, SeqFacts
    <3>2. m.kind = "messages" /\ m.time = u /\ m.data = b /\ DataOf(m) = b
      BY DEF LG!Messages, DataOf
    <3> HIDE DEF m, s1
    <3>3. LG!Contents(s1) = all
      BY <1>1, <1>3, <3>1, <3>2, ContentsAppend
    <3>4. \A t \in Nat : Holds(s1, t) = (IF t = u THEN 1 ELSE 0)
      <4>1. \A t : LG!Changed(m, t) = 0
        BY <3>2 DEF LG!Changed
      <4> QED
        BY <1>1, <1>3, <3>1, <4>1, StreamAppend
    <3>5. SentInTime(s1)
      <4>1. Holds(s, m.time) > 0
        BY <1>1, <3>2
      <4>2. \A i \in DOMAIN m.data : \A t \in Nat : Holds(s, t) > 0 => t <= m.data[i][1]
        BY <1>1, <3>2
      <4> QED
        BY <1>1, <1>3, <3>1, <4>1, <4>2, SentAppend
    <3>6. s1 \in Seq(LogEvent)
      BY <1>1, <1>3, <3>1, StreamAppend
    <3> QED
      BY <3>3, <3>4, <3>5, <3>6
  <2> QED
    BY <2>1, <2>2
<1> HIDE DEF s1
<1>5. /\ s2 \in Seq(LogEvent) /\ LG!Contents(s2) = all /\ SentInTime(s2)
      /\ \A t \in Nat : Holds(s2, t) = (IF t = now THEN 1 ELSE 0)
  <2>1. CASE ~(u < now)
    <3>1. s2 = s1
      BY <1>4, <2>1, SeqFacts
    <3>2. u = now
      BY <1>1, <2>1
    <3> QED
      BY <1>4, <3>1, <3>2
  <2>2. CASE u < now
    <3>1. s2 = Append(s1, p)
      BY <1>3, <1>4, <2>2, SeqFacts
    <3>2. p.kind = "progress" /\ p.changes = {<<now, 1>>, <<u, -1>>} /\ DataOf(p) = <<>>
      BY DEF LG!Progress, DataOf
    <3> HIDE DEF p, s2
    <3>3. LG!Contents(s2) = all
      <4>1. LG!Contents(s1) \in Seq(Entry) /\ LG!Contents(s2) = LG!Contents(s1) \o <<>>
        BY <1>3, <1>4, <3>1, <3>2, ContentsAppend
      <4> QED
        BY <1>4, <4>1, SeqFacts
    <3>4. \A t \in Nat : Holds(s2, t) = (IF t = now THEN 1 ELSE 0)
      <4>1. \A t \in Nat : LG!Changed(p, t) = (IF t = now THEN 1 ELSE 0) - (IF t = u THEN 1 ELSE 0)
        BY <1>1, <2>2, <3>2 DEF LG!Changed
      <4>2. \A t \in Nat : Holds(s2, t) = Holds(s1, t) + LG!Changed(p, t)
        BY <1>3, <1>4, <3>1, StreamAppend
      <4> TAKE t \in Nat
      <4>3. Holds(s1, t) = (IF t = u THEN 1 ELSE 0)
        BY <1>4
      <4>4. Holds(s2, t) = Holds(s1, t) + ((IF t = now THEN 1 ELSE 0) - (IF t = u THEN 1 ELSE 0))
        BY <4>1, <4>2
      <4> QED
        BY <4>3, <4>4
    <3>5. SentInTime(s2)
      BY <1>3, <1>4, <3>1, <3>2, SentAppend
    <3>6. s2 \in Seq(LogEvent)
      BY <1>3, <1>4, <3>1, StreamAppend
    <3> QED
      BY <3>3, <3>4, <3>5, <3>6
  <2> QED
    BY <2>1, <2>2
<1> HIDE DEF s2
<1>6. LG!Contents(s2) \o <<>> = all
  <2>1. LG!Contents(s2) \in Seq(Entry)
    BY <1>3, <1>5, ContentsAppend
  <2> QED
    BY <1>5, <2>1, SeqFacts
<1>7. <<>> \in Seq(Entry) /\ DOMAIN <<>> = {}
  BY EmptySeq
<1> QED
  BY <1>2, <1>5, <1>6, <1>7 DEF LogSound

LEMMA BufferedSound ==
  ASSUME NEW l, NEW now \in Nat, NEW all \in Seq(Entry), NEW n \in Nat,
         LogSound(l, TRUE, now, all)
  PROVE  /\ LogSound(LG!Buffered(l, <<now, n>>), TRUE, now, all \o <<<<now, n>>>>)
         /\ all \o <<<<now, n>>>> \in Seq(Entry)
<1> DEFINE b == l.buffer
           s == l.stream
           u == l.time
           e == <<now, n>>
           longer == [buffer |-> Append(b, e), time |-> u, stream |-> s]
<1>1. /\ u \in Nat /\ u <= now /\ b \in Seq(Entry) /\ s \in Seq(LogEvent)
      /\ \A i \in DOMAIN b : u <= b[i][1]
      /\ LG!Contents(s) \o b = all
      /\ SentInTime(s)
      /\ \A t \in Nat : Holds(s, t) = (IF t = u THEN 1 ELSE 0)
  BY DEF LogSound
<1>2. LG!Buffered(l, e) = IF Len(longer.buffer) = LogCapacity THEN LG!Published(longer, e[1]) ELSE longer
  BY Zenon DEF LG!Buffered
<1>e. e \in Entry /\ e[1] = now
  BY DEF Entry
<1> HIDE DEF b, s, u, e
<1>3. /\ Append(b, e) \in Seq(Entry)
      /\ \A i \in DOMAIN Append(b, e) : u <= Append(b, e)[i][1]
  <2>1. PICK k \in Nat : k = Len(b)
    BY <1>1
  <2>2. /\ Append(b, e) \in Seq(Entry) /\ Len(Append(b, e)) = k + 1
        /\ Append(b, e)[k + 1] = e /\ \A i \in 1 .. k : Append(b, e)[i] = b[i]
    BY <1>1, <1>e, <2>1, AppendProperties
  <2> DEFINE c == Append(b, e)
  <2> HIDE DEF c
  <2>3. DOMAIN b = 1 .. k /\ DOMAIN c = 1 .. k + 1
    BY <1>1, <2>1, <2>2 DEF c
  <2>4. \A i \in 1 .. k + 1 : i = k + 1 \/ i \in 1 .. k
    OBVIOUS
  <2>5. \A i \in DOMAIN c : u <= c[i][1]
    BY <1>1, <1>e, <2>2, <2>3, <2>4 DEF c
  <2> QED
    BY <2>2, <2>5 DEF c
<1>4. LG!Contents(s) \o Append(b, e) = all \o <<e>> /\ all \o <<e>> \in Seq(Entry)
  <2>1. LG!Contents(s) \in Seq(Entry)
    <3>1. LG!Messages(0, <<>>) \in LogEvent
      BY EmptySeq DEF LogEvent, LG!Messages
    <3> QED
      BY <1>1, <3>1, ContentsAppend
  <2>2. Append(b, e) = b \o <<e>> /\ <<e>> \in Seq(Entry)
    BY <1>1, <1>e, SeqFacts
  <2>3. LG!Contents(s) \o (b \o <<e>>) = (LG!Contents(s) \o b) \o <<e>>
    BY <1>1, <2>1, <2>2, ConcatAssociative, SMTT(30)
  <2>4. all \o <<e>> \in Seq(Entry)
    BY <2>2, ConcatProperties
  <2> QED
    BY <1>1, <2>2, <2>3, <2>4
<1>5. /\ longer.buffer = Append(b, e) /\ longer.time = u /\ longer.stream = s
  OBVIOUS
<1> HIDE DEF longer
<1>6. LogSound(longer, TRUE, now, all \o <<e>>)
  BY <1>1, <1>3, <1>4, <1>5 DEF LogSound
<1>7. LogSound(LG!Published(longer, now), TRUE, now, all \o <<e>>)
  BY <1>6, PublishedSound
<1>8. LogSound(LG!Buffered(l, e), TRUE, now, all \o <<e>>)
  BY <1>2, <1>6, <1>7, <1>e
<1> QED
  BY <1>4, <1>8 DEF e

\* log_many, of one event and of two.
LEMMA FilledFacts ==
  ASSUME NEW l, NEW events, NEW L \in {1, 2}, Len(events) = L
  PROVE  LG!Filled(l, events)
           = IF L = 1 THEN LG!Buffered(l, events[1])
                      ELSE LG!Buffered(LG!Buffered(l, events[1]), events[2])
<1> DEFINE Run(g) == g = [n \in 0 .. Len(events) |->
                            IF n = 0 THEN l ELSE LG!Buffered(g[n - 1], events[n])]
           c == CHOOSE g : Run(g)
           one == LG!Buffered(l, events[1])
           two == LG!Buffered(one, events[2])
           f == [n \in 0 .. L |-> IF n = 0 THEN l ELSE IF n = 1 THEN one ELSE two]
<1>1. LG!Filled(l, events) = c[Len(events)]
  BY Zenon DEF LG!Filled
<1>2. Run(f)
  <2> HIDE DEF one, two
  <2>1. f[0] = l /\ f[1] = one
    OBVIOUS
  <2> HIDE DEF f
  <2>2. \A n \in 0 .. L : n = 0 \/ (n = 1 /\ n - 1 = 0) \/ (n = 2 /\ n - 1 = 1)
    OBVIOUS
  <2>3. \A n \in 0 .. L : (IF n = 0 THEN l ELSE LG!Buffered(f[n - 1], events[n]))
                          = (IF n = 0 THEN l ELSE IF n = 1 THEN one ELSE two)
    <3> TAKE n \in 0 .. L
    <3>1. CASE n = 0
      BY <3>1
    <3>2. CASE n = 1 /\ n - 1 = 0
      BY <2>1, <3>2 DEF one
    <3>3. CASE n = 2 /\ n - 1 = 1
      BY <2>1, <3>3 DEF two
    <3> QED
      BY <2>2, <3>1, <3>2, <3>3
  <2> QED
    BY <2>3, Zenon DEF f
<1>3. Run(c)
  <2>1. \E g : Run(g)
    BY <1>2, Zenon
  <2> HIDE DEF Run
  <2> QED
    BY <2>1, Zenon
<1>4. /\ 0 \in 0 .. L /\ 1 \in 0 .. L /\ L \in 0 .. L /\ 1 # 0 /\ 1 - 1 = 0 /\ 2 # 0 /\ 2 - 1 = 1
  OBVIOUS
<1> HIDE DEF c
<1>5. \A n \in 0 .. L : c[n] = IF n = 0 THEN l ELSE LG!Buffered(c[n - 1], events[n])
  BY <1>3, Zenon
<1>6. c[0] = l
  BY <1>4, <1>5, Zenon
<1>7. c[1] = one
  <2>1. c[1] = LG!Buffered(c[1 - 1], events[1])
    BY <1>4, <1>5, Zenon
  <2> QED
    BY <1>4, <1>6, <2>1, Zenon
<1>8. L = 2 => c[2] = two
  <2>1. L = 2 => c[2] = LG!Buffered(c[2 - 1], events[2])
    BY <1>4, <1>5, Zenon
  <2> QED
    BY <1>4, <1>7, <2>1, Zenon
<1> QED
  BY <1>1, <1>7, <1>8

LEMMA FilledSound ==
  ASSUME NEW l, NEW now \in Nat, NEW all \in Seq(Entry), NEW m \in Nat, NEW L \in {1, 2},
         LogSound(l, TRUE, now, all)
  PROVE  LET events == [k \in 1 .. L |-> <<now, m + k>>]
         IN  /\ LogSound(LG!Filled(l, events), TRUE, now, all \o events)
             /\ all \o events \in Seq(Entry)
<1> DEFINE events == [k \in 1 .. L |-> <<now, m + k>>]
           e == <<now, m + 1>>
           f == <<now, m + 2>>
<1> SUFFICES /\ LogSound(LG!Filled(l, events), TRUE, now, all \o events)
             /\ all \o events \in Seq(Entry)
  OBVIOUS
<1>a. e \in Entry /\ f \in Entry /\ m + 1 \in Nat /\ m + 2 \in Nat
  BY DEF Entry
<1>b. Len(events) = L /\ events[1] = e /\ (L = 2 => events[2] = f)
  <2>1. L \in Nat /\ 1 \in 1 .. L /\ (L = 2 => 2 \in 1 .. L)
    OBVIOUS
  <2>2. DOMAIN events = 1 .. L
    OBVIOUS
  <2> QED
    BY <2>1, <2>2
<1>c. events = IF L = 1 THEN <<e>> ELSE <<e>> \o <<f>>
  <2>1. CASE L = 1
    <3>1. events = [k \in 1 .. 1 |-> e]
      <4>1. \A k \in 1 .. 1 : k = 1
        OBVIOUS
      <4> QED
        BY <2>1, <4>1
    <3> QED
      BY <2>1, <3>1
  <2>2. CASE L = 2
    <3>1. \A k \in 1 .. 2 : k = 1 \/ k = 2
      OBVIOUS
    <3> QED
      BY <2>2, <3>1
  <2> QED
    BY <2>1, <2>2
<1>1. /\ Len(events) = L /\ events[1] = e /\ (L = 2 => events[2] = f)
      /\ events = IF L = 1 THEN <<e>> ELSE <<e>> \o <<f>>
      /\ e \in Entry /\ f \in Entry
  BY <1>a, <1>b, <1>c
<1> HIDE DEF events
<1>2. /\ LogSound(LG!Buffered(l, e), TRUE, now, all \o <<e>>)
      /\ all \o <<e>> \in Seq(Entry)
  BY <1>a, BufferedSound, Zenon
<1>3. /\ LogSound(LG!Buffered(LG!Buffered(l, e), f), TRUE, now, (all \o <<e>>) \o <<f>>)
      /\ (all \o <<e>>) \o <<f>> \in Seq(Entry)
  BY <1>2, <1>a, BufferedSound, Zenon
<1> HIDE DEF e, f
<1>4. (all \o <<e>>) \o <<f>> = all \o (<<e>> \o <<f>>)
  <2>1. <<e>> \in Seq(Entry) /\ <<f>> \in Seq(Entry)
    BY <1>1
  <2> QED
    BY <2>1, ConcatAssociative
<1>5. LG!Filled(l, events) = IF L = 1 THEN LG!Buffered(l, e) ELSE LG!Buffered(LG!Buffered(l, e), f)
  BY <1>1, FilledFacts
<1>6. CASE L = 1
  BY <1>1, <1>2, <1>5, <1>6
<1>7. CASE L = 2
  <2>1. events = <<e>> \o <<f>> /\ LG!Filled(l, events) = LG!Buffered(LG!Buffered(l, e), f)
    <3>1. L # 1
      BY <1>7
    <3> QED
      BY <1>1, <1>5, <3>1, Zenon
  <2>2. all \o events = (all \o <<e>>) \o <<f>>
    BY <1>4, <2>1
  <2> QED
    BY <1>3, <2>1, <2>2
<1> QED
  BY <1>6, <1>7

LEMMA DroppedSound ==
  ASSUME NEW l, lg_clock \in Nat, NEW all, NEW last \in BOOLEAN,
         LogSound(l, TRUE, lg_clock, all)
  PROVE  LogSound(LG!Dropped(l, last), ~last, lg_clock, all)
<1> DEFINE f == IF l.buffer = <<>> THEN l ELSE LG!Published(l, lg_clock)
           b == f.buffer
           s == f.stream
           u == f.time
           p == LG!Progress({<<u, -1>>})
           r == [buffer |-> b, time |-> u, stream |-> Append(s, p)]
<1>1. LogSound(f, TRUE, lg_clock, all) /\ b = <<>>
  <2>1. CASE l.buffer = <<>>
    BY <2>1
  <2>2. CASE l.buffer # <<>>
    <3>1. f = LG!Published(l, lg_clock)
      BY <2>2
    <3>2. f.buffer = <<>>
      BY <3>1 DEF LG!Published
    <3> QED
      BY <3>1, <3>2, PublishedSound
  <2> QED
    BY <2>1, <2>2
<1>2. LG!Dropped(l, last) = IF last THEN r ELSE f
  BY Zenon DEF LG!Dropped
<1> HIDE DEF f
<1>3. /\ u \in Nat /\ u <= lg_clock /\ b = <<>> /\ s \in Seq(LogEvent)
      /\ LG!Contents(s) \o b = all
      /\ SentInTime(s)
      /\ \A t \in Nat : Holds(s, t) = (IF t = u THEN 1 ELSE 0)
  BY <1>1 DEF LogSound
<1> HIDE DEF b, s, u
<1>4. p \in LogEvent /\ p.kind = "progress" /\ p.changes = {<<u, -1>>} /\ DataOf(p) = <<>>
  <2>1. {<<u, -1>>} \in SUBSET (Nat \X Int)
    BY <1>3
  <2> QED
    BY <2>1 DEF LogEvent, LG!Progress, DataOf
<1> DEFINE q == Append(s, p)
<1>5. r.buffer = b /\ r.time = u /\ r.stream = q
  OBVIOUS
<1> HIDE DEF p, q, r
<1>6. q \in Seq(LogEvent) /\ SentInTime(q)
  BY <1>3, <1>4, StreamAppend, SentAppend DEF q
<1>7. LG!Contents(q) \o b = all
  <2>1. LG!Contents(s) \in Seq(Entry) /\ LG!Contents(q) = LG!Contents(s) \o <<>>
    BY <1>3, <1>4, ContentsAppend DEF q
  <2> QED
    BY <1>3, <2>1, SeqFacts
<1>8. \A t \in Nat : Holds(q, t) = 0
  <2>1. \A t \in Nat : LG!Changed(p, t) = - (IF t = u THEN 1 ELSE 0)
    BY <1>3, <1>4 DEF LG!Changed
  <2>2. \A t \in Nat : Holds(q, t) = Holds(s, t) + LG!Changed(p, t)
    BY <1>3, <1>4, StreamAppend DEF q
  <2> TAKE t \in Nat
  <2>3. Holds(s, t) = (IF t = u THEN 1 ELSE 0)
    BY <1>3
  <2>4. Holds(q, t) = Holds(s, t) + - (IF t = u THEN 1 ELSE 0)
    BY <2>1, <2>2
  <2> QED
    BY <2>3, <2>4
<1>9. LogSound(r, FALSE, lg_clock, all)
  <2>1. <<>> \in Seq(Entry) /\ DOMAIN <<>> = {}
    BY EmptySeq
  <2> QED
    BY <1>3, <1>5, <1>6, <1>7, <1>8, <2>1 DEF LogSound
<1>10. CASE last
  BY <1>2, <1>9, <1>10
<1>11. CASE ~last
  BY <1>1, <1>2, <1>11
<1> QED
  BY <1>10, <1>11

-----------------------------------------------------------------------------
(* The loggers together *)

\* Somebody can write to d's log, or will be able to.
Open(d) == d \notin lg_made \/ d \in lg_bound \/ lg_clones[d] > 0

Loggers ==
  /\ lg_clock \in 0 .. MaxClock
  /\ lg_made \subseteq Destinations /\ lg_bound \subseteq lg_made
  /\ \A d, e \in lg_bound : d = e
  /\ lg_clones \in [Destinations -> Nat]
  /\ \A d \in Destinations : lg_clones[d] > 0 => d \in lg_made

Kept ==
  /\ DOMAIN lg_buffer = Destinations /\ lg_buffer = [d \in Destinations |-> lg_buffer[d]]
  /\ DOMAIN lg_time = Destinations /\ lg_time = [d \in Destinations |-> lg_time[d]]
  /\ DOMAIN lg_stream = Destinations /\ lg_stream = [d \in Destinations |-> lg_stream[d]]
  /\ lg_logged \in [Destinations -> Seq(Entry)]

LogsSound ==
  \A d \in Destinations : LogSound(LG!Log(d), Open(d), lg_clock, lg_logged[d])

LogInv == Loggers /\ Kept /\ LogsSound

LEMMA LogBegins == ASSUME LG!ClockAssumption PROVE LG!Init => LogInv
<1> SUFFICES ASSUME LG!Init PROVE LogInv
  OBVIOUS
<1>1. Loggers
  BY DEF LG!Init, Loggers, LG!ClockAssumption
<1>2. Kept
  <2>1. <<>> \in Seq(Entry)
    BY EmptySeq
  <2> QED
    BY <2>1 DEF LG!Init, Kept
<1>3. ASSUME NEW d \in Destinations
      PROVE  LogSound(LG!Log(d), Open(d), lg_clock, lg_logged[d])
  <2> DEFINE l == LG!Log(d)
  <2>1. l.buffer = <<>> /\ l.time = 0 /\ l.stream = <<>> /\ lg_clock = 0 /\ lg_logged[d] = <<>>
    BY DEF LG!Init, LG!Log
  <2>2. Open(d)
    BY DEF LG!Init, Open
  <2> HIDE DEF l
  <2>3. <<>> \in Seq(Entry) /\ <<>> \in Seq(LogEvent) /\ DOMAIN <<>> = {} /\ Len(<<>>) = 0
    BY EmptySeq
  <2>4. LG!Contents(<<>>) \o <<>> = <<>>
    BY <2>3, ContentsEmpty, SeqFacts
  <2>5. \A t \in Nat : Holds(<<>>, t) = (IF t = 0 THEN 1 ELSE 0)
    <3>1. \A t : LG!HeldAfter(<<>>, 0, t) = (IF t = 0 THEN 1 ELSE 0)
      BY HeldNext
    <3>2. \A t, k : k = 0 => LG!HeldAfter(<<>>, k, t) = (IF t = 0 THEN 1 ELSE 0)
      BY <3>1, Zenon
    <3>3. Len(<<>>) = 0
      BY <2>3
    <3> QED
      BY <3>2, <3>3, Zenon DEF Holds
  <2>6. SentInTime(<<>>)
    BY <2>3 DEF SentInTime
  <2>7. LogSound(l, TRUE, 0, <<>>)
    BY <2>1, <2>3, <2>4, <2>5, <2>6 DEF LogSound
  <2> QED
    BY <2>1, <2>2, <2>7 DEF l
<1> QED
  BY <1>1, <1>2, <1>3 DEF LogInv, LogsSound

\* One log changes, and the others stay as they are.
LEMMA BecomesSound ==
  ASSUME LogInv, NEW d \in Destinations, NEW l, NEW all \in Seq(Entry), LG!Becomes(d, l),
         lg_logged' = [lg_logged EXCEPT ![d] = all], lg_clock' = lg_clock,
         LogSound(l, Open(d)', lg_clock, all),
         \A e \in Destinations \ {d} : Open(e)' = Open(e)
  PROVE  Kept' /\ LogsSound'
<1>1. /\ lg_buffer' = [lg_buffer EXCEPT ![d] = l.buffer]
      /\ lg_time' = [lg_time EXCEPT ![d] = l.time]
      /\ lg_stream' = [lg_stream EXCEPT ![d] = l.stream]
  BY DEF LG!Becomes
<1>2. Kept'
  BY <1>1 DEF LogInv, Kept
<1>3. ASSUME NEW e \in Destinations
      PROVE  LogSound(LG!Log(e)', Open(e)', lg_clock, lg_logged'[e])
  <2>1. CASE e = d
    <3> DEFINE m == LG!Log(e)'
    <3>1. m.buffer = l.buffer /\ m.time = l.time /\ m.stream = l.stream /\ lg_logged'[e] = all
      <4>1. m.buffer = lg_buffer'[d] /\ m.time = lg_time'[d] /\ m.stream = lg_stream'[d]
        BY <2>1 DEF LG!Log
      <4> HIDE DEF m
      <4>2. /\ lg_buffer'[d] = l.buffer /\ lg_time'[d] = l.time /\ lg_stream'[d] = l.stream
            /\ lg_logged'[d] = all
        BY <1>1 DEF LogInv, Kept
      <4> QED
        BY <2>1, <4>1, <4>2
    <3> HIDE DEF m
    <3>2. LogSound(m, Open(d)', lg_clock, all)
      BY <3>1 DEF LogSound
    <3> QED
      BY <2>1, <3>1, <3>2 DEF m
  <2>2. CASE e # d
    <3>1. LG!Log(e)' = LG!Log(e) /\ lg_logged'[e] = lg_logged[e]
      BY <1>1, <2>2 DEF LogInv, Kept, LG!Log
    <3>2. Open(e)' = Open(e)
      BY <2>2
    <3>3. LogSound(LG!Log(e), Open(e), lg_clock, lg_logged[e])
      BY DEF LogInv, LogsSound
    <3> QED
      BY <3>1, <3>2, <3>3
  <2> QED
    BY <2>1, <2>2
<1>4. LogsSound'
  BY <1>3 DEF LogsSound
<1> QED
  BY <1>2, <1>4

\* A log that is left alone stays sound as the clock goes on.
LEMMA AloneSound ==
  ASSUME LogInv, UNCHANGED <<lg_buffer, lg_time, lg_stream, lg_logged>>,
         lg_clock' \in Nat, lg_clock <= lg_clock',
         \A d \in Destinations : Open(d)' = Open(d)
  PROVE  Kept' /\ LogsSound'
<1>1. Kept'
  BY DEF LogInv, Kept
<1>2. ASSUME NEW d \in Destinations
      PROVE  LogSound(LG!Log(d)', Open(d)', lg_clock', lg_logged'[d])
  <2> DEFINE m == LG!Log(d)
             n == lg_clock'
  <2>1. LG!Log(d)' = m /\ lg_logged'[d] = lg_logged[d]
    BY DEF LG!Log
  <2> HIDE DEF m, n
  <2>2. LogSound(m, Open(d), lg_clock, lg_logged[d]) /\ lg_clock \in Nat
    BY DEF LogInv, LogsSound, Loggers, m
  <2>3. n \in Nat /\ lg_clock <= n
    BY DEF n
  <2>4. m.time \in Nat /\ m.time <= n
    BY <2>2, <2>3 DEF LogSound
  <2>5. LogSound(m, Open(d), n, lg_logged[d])
    BY <2>2, <2>4 DEF LogSound
  <2> QED
    BY <2>1, <2>5 DEF n
<1> QED
  BY <1>1, <1>2 DEF LogsSound

\* What a logger that is open has.
LEMMA OpenLog ==
  ASSUME LogInv, NEW d \in Destinations, d \in lg_bound \/ lg_clones[d] > 0
  PROVE  /\ d \in lg_made /\ lg_clones[d] \in Nat /\ lg_clock \in Nat
         /\ LogSound(LG!Log(d), TRUE, lg_clock, lg_logged[d]) /\ lg_logged[d] \in Seq(Entry)
<1>1. Open(d) /\ d \in lg_made /\ lg_clones[d] \in Nat /\ lg_clock \in Nat
  BY DEF Open, LogInv, Loggers
<1>2. LogSound(LG!Log(d), Open(d), lg_clock, lg_logged[d]) /\ lg_logged[d] \in Seq(Entry)
  BY DEF LogInv, LogsSound, Kept
<1> QED
  BY <1>1, <1>2

LEMMA LoggedSame ==
  ASSUME LogInv, NEW d \in Destinations, lg_logged' = lg_logged
  PROVE  lg_logged' = [lg_logged EXCEPT ![d] = lg_logged[d]]
  BY DEF LogInv, Kept

LEMMA TickKept == ASSUME LogInv, LG!ClockAssumption, LG!Tick PROVE LogInv'
<1>1. lg_clock' \in 0 .. MaxClock /\ lg_clock' \in Nat /\ lg_clock <= lg_clock'
  BY DEF LogInv, Loggers, LG!Tick, LG!ClockAssumption
<1>2. \A d \in Destinations : Open(d)' = Open(d)
  BY DEF LG!Tick, Open
<1>3. Loggers'
  BY <1>1 DEF LogInv, Loggers, LG!Tick
<1>4. Kept' /\ LogsSound'
  BY <1>1, <1>2, AloneSound DEF LG!Tick
<1> QED
  BY <1>3, <1>4 DEF LogInv

LEMMA CloneKept ==
  ASSUME LogInv, NEW d \in Destinations, LG!Clone(d) PROVE LogInv'
<1>1. d \in lg_made /\ lg_clones[d] \in Nat /\ lg_clock \in Nat
  BY OpenLog DEF LG!Clone
<1>2. lg_clones' = [lg_clones EXCEPT ![d] = lg_clones[d] + 1]
  BY DEF LG!Clone
<1>3. Loggers'
  BY <1>1, <1>2 DEF LogInv, Loggers, LG!Clone
<1>4. \A e \in Destinations : Open(e)' = Open(e)
  <2> TAKE e \in Destinations
  <2>1. CASE e = d
    BY <1>1, <1>2, <2>1 DEF LogInv, Loggers, LG!Clone, Open
  <2>2. CASE e # d
    BY <1>1, <1>2, <2>2 DEF LogInv, Loggers, LG!Clone, Open
  <2> QED
    BY <2>1, <2>2
<1>5. Kept' /\ LogsSound'
  <2>1. lg_clock' \in Nat /\ lg_clock <= lg_clock'
    BY <1>1 DEF LG!Clone
  <2> QED
    BY <1>4, <2>1, AloneSound DEF LG!Clone
<1> QED
  BY <1>3, <1>5 DEF LogInv

LEMMA LogManyKept ==
  ASSUME LogInv, NEW d \in Destinations, NEW n \in {1, 2}, LG!LogMany(d, n) PROVE LogInv'
<1> DEFINE m == Len(lg_logged[d])
           events == [k \in 1 .. n |-> <<lg_clock, m + k>>]
           all == lg_logged[d] \o events
           l == LG!Filled(LG!Log(d), events)
<1>1. /\ LogSound(LG!Log(d), TRUE, lg_clock, lg_logged[d]) /\ lg_logged[d] \in Seq(Entry)
      /\ lg_clock \in Nat /\ m \in Nat /\ d \in lg_made
  <2>1. lg_clones[d] > 0
    BY Zenon DEF LG!LogMany
  <2>2. /\ LogSound(LG!Log(d), TRUE, lg_clock, lg_logged[d]) /\ lg_logged[d] \in Seq(Entry)
        /\ lg_clock \in Nat /\ d \in lg_made
    BY <2>1, OpenLog
  <2> QED
    BY <2>2, LenProperties
<1>2. LogSound(l, TRUE, lg_clock, all) /\ all \in Seq(Entry)
  <2> HIDE DEF m
  <2> QED
    BY <1>1, FilledSound, Zenon
<1>3. /\ LG!Becomes(d, l) /\ lg_logged' = [lg_logged EXCEPT ![d] = all]
      /\ UNCHANGED <<lg_clock, lg_made, lg_bound, lg_clones>> /\ lg_clones[d] > 0
  BY Zenon DEF LG!LogMany
<1> HIDE DEF l, all
<1>4. Loggers'
  BY <1>3 DEF LogInv, Loggers
<1>5. \A e \in Destinations : Open(e)' = Open(e)
  BY <1>3 DEF Open
<1>6. Open(d)' = TRUE
  BY <1>3 DEF Open
<1>7. LogSound(l, Open(d)', lg_clock, all)
  BY <1>2, <1>6
<1>8. Kept' /\ LogsSound'
  BY <1>2, <1>3, <1>5, <1>7, BecomesSound
<1> QED
  BY <1>4, <1>8 DEF LogInv

LEMMA FlushKept ==
  ASSUME LogInv, NEW d \in Destinations, LG!Flush(d) PROVE LogInv'
<1> DEFINE l == LG!Published(LG!Log(d), lg_clock)
<1>1. /\ LogSound(LG!Log(d), TRUE, lg_clock, lg_logged[d]) /\ lg_logged[d] \in Seq(Entry)
      /\ lg_clock \in Nat /\ d \in lg_made
  BY OpenLog DEF LG!Flush
<1>2. LogSound(l, TRUE, lg_clock, lg_logged[d])
  BY <1>1, PublishedSound
<1>3. /\ LG!Becomes(d, l) /\ lg_logged' = [lg_logged EXCEPT ![d] = lg_logged[d]]
      /\ UNCHANGED <<lg_clock, lg_made, lg_bound, lg_clones, lg_logged>>
      /\ d \in lg_bound \/ lg_clones[d] > 0
  BY LoggedSame, Zenon DEF LG!Flush
<1> HIDE DEF l
<1>4. Loggers'
  BY <1>3 DEF LogInv, Loggers
<1>5. \A e \in Destinations : Open(e)' = Open(e)
  BY <1>3 DEF Open
<1>6. Open(d)' = TRUE
  BY <1>3 DEF Open
<1>7. LogSound(l, Open(d)', lg_clock, lg_logged[d])
  BY <1>2, <1>6
<1>8. Kept' /\ LogsSound'
  BY <1>1, <1>3, <1>5, <1>7, BecomesSound
<1> QED
  BY <1>4, <1>8 DEF LogInv

LEMMA DropCloneKept ==
  ASSUME LogInv, NEW d \in Destinations, LG!DropClone(d) PROVE LogInv'
<1> DEFINE last == lg_clones[d] = 1 /\ d \notin lg_bound
           l == LG!Dropped(LG!Log(d), last)
<1>0. last \in BOOLEAN
  OBVIOUS
<1>1. /\ LogSound(LG!Log(d), TRUE, lg_clock, lg_logged[d]) /\ lg_logged[d] \in Seq(Entry)
      /\ lg_clock \in Nat /\ d \in lg_made /\ lg_clones[d] \in Nat
  BY OpenLog DEF LG!DropClone
<1>3. /\ LG!Becomes(d, l) /\ lg_logged' = [lg_logged EXCEPT ![d] = lg_logged[d]]
      /\ UNCHANGED <<lg_clock, lg_made, lg_bound, lg_logged>>
      /\ lg_clones[d] > 0 /\ lg_clones' = [lg_clones EXCEPT ![d] = lg_clones[d] - 1]
  BY LoggedSame, Zenon DEF LG!DropClone
<1>6. Open(d)' = ~last
  <2>1. lg_clones'[d] = lg_clones[d] - 1
    BY <1>3 DEF LogInv, Loggers
  <2> QED
    BY <1>1, <1>3, <2>1 DEF Open
<1> HIDE DEF last
<1>2. LogSound(l, ~last, lg_clock, lg_logged[d])
  BY <1>0, <1>1, DroppedSound
<1> HIDE DEF l
<1>4. Loggers'
  BY <1>1, <1>3 DEF LogInv, Loggers
<1>5. \A e \in Destinations \ {d} : Open(e)' = Open(e)
  BY <1>3 DEF Open, LogInv, Loggers
<1>7. LogSound(l, Open(d)', lg_clock, lg_logged[d])
  BY <1>2, <1>6
<1>8. Kept' /\ LogsSound'
  BY <1>1, <1>3, <1>5, <1>7, BecomesSound
<1> QED
  BY <1>4, <1>8 DEF LogInv

LEMMA RebindKept ==
  ASSUME LogInv, NEW to \in SUBSET (Destinations \ lg_made), \A d, e \in to : d = e,
         LG!Rebind(to)
  PROVE  LogInv'
<1>1. /\ lg_bound' = to /\ lg_made' = lg_made \cup to
      /\ UNCHANGED <<lg_clock, lg_logged>>
  BY DEF LG!Rebind
<1>c. lg_clock \in Nat /\ lg_clock' \in Nat /\ lg_clock <= lg_clock'
  BY <1>1 DEF LogInv, Loggers
<1>2. CASE lg_bound = {} /\ UNCHANGED <<lg_clones, lg_buffer, lg_time, lg_stream>>
  <2>1. Loggers'
    BY <1>1, <1>2 DEF LogInv, Loggers
  <2>2. \A e \in Destinations : Open(e)' = Open(e)
    BY <1>1, <1>2 DEF Open, LogInv, Loggers
  <2>3. Kept' /\ LogsSound'
    BY <1>1, <1>2, <1>c, <2>2, AloneSound
  <2> QED
    BY <2>1, <2>3 DEF LogInv
<1>3. ASSUME NEW d \in lg_bound,
             \/ /\ lg_clones' = [lg_clones EXCEPT ![d] = lg_clones[d] + 1]
                /\ LG!Becomes(d, LG!Dropped(LG!Log(d), FALSE))
             \/ LG!Becomes(d, LG!Dropped(LG!Log(d), lg_clones[d] = 0)) /\ UNCHANGED lg_clones
      PROVE  LogInv'
  <2>1. /\ d \in Destinations /\ d \notin to /\ lg_bound \ {d} = {}
        /\ LogSound(LG!Log(d), TRUE, lg_clock, lg_logged[d]) /\ lg_logged[d] \in Seq(Entry)
        /\ d \in lg_made /\ lg_clones[d] \in Nat
    <3>1. d \in Destinations /\ d \notin to /\ lg_bound \ {d} = {}
      BY DEF LogInv, Loggers
    <3> QED
      BY <3>1, OpenLog
  <2>2. PICK last \in BOOLEAN :
          /\ LG!Becomes(d, LG!Dropped(LG!Log(d), last))
          /\ \/ ~last /\ lg_clones' = [lg_clones EXCEPT ![d] = lg_clones[d] + 1]
             \/ last = (lg_clones[d] = 0) /\ UNCHANGED lg_clones
    <3>1. CASE LG!Becomes(d, LG!Dropped(LG!Log(d), FALSE))
               /\ lg_clones' = [lg_clones EXCEPT ![d] = lg_clones[d] + 1]
      BY <3>1, Zenon
    <3>2. CASE LG!Becomes(d, LG!Dropped(LG!Log(d), lg_clones[d] = 0)) /\ UNCHANGED lg_clones
      <4>1. (lg_clones[d] = 0) \in BOOLEAN
        OBVIOUS
      <4> QED
        BY <3>2, <4>1, Zenon
    <3> QED
      BY <1>3, <3>1, <3>2, Zenon
  <2> DEFINE l == LG!Dropped(LG!Log(d), last)
  <2>3. LogSound(l, ~last, lg_clock, lg_logged[d])
    BY <1>c, <2>1, DroppedSound
  <2>4. LG!Becomes(d, l)
    BY <2>2
  <2> HIDE DEF l
  <2>5. Open(d)' = ~last
    BY <1>1, <2>1, <2>2 DEF Open, LogInv, Loggers
  <2>6. \A e \in Destinations \ {d} : Open(e)' = Open(e)
    BY <1>1, <2>1, <2>2 DEF Open, LogInv, Loggers
  <2>7. Loggers'
    BY <1>1, <2>1, <2>2 DEF LogInv, Loggers
  <2>8. LogSound(l, Open(d)', lg_clock, lg_logged[d])
    BY <2>3, <2>5
  <2>9. lg_logged' = [lg_logged EXCEPT ![d] = lg_logged[d]]
    BY <1>1, <2>1, LoggedSame
  <2>10. Kept' /\ LogsSound'
    BY <1>1, <2>1, <2>4, <2>6, <2>8, <2>9, BecomesSound
  <2> QED
    BY <2>7, <2>10 DEF LogInv
<1> QED
  BY <1>2, <1>3, Zenon DEF LG!Rebind

LEMMA LogKept ==
  ASSUME LG!ClockAssumption PROVE LogInv /\ [LG!Next]_lg_vars => LogInv'
<1> SUFFICES ASSUME LogInv, [LG!Next]_lg_vars PROVE LogInv'
  OBVIOUS
<1>1. CASE LG!Tick
  BY <1>1, TickKept
<1>2. CASE LG!Rebind({})
  <2>1. {} \in SUBSET (Destinations \ lg_made) /\ \A d, e \in {} : d = e
    OBVIOUS
  <2> QED
    BY <1>2, <2>1, RebindKept
<1>3. ASSUME NEW d \in Destinations \ lg_made, LG!Rebind({d}) PROVE LogInv'
  <2>1. {d} \in SUBSET (Destinations \ lg_made) /\ \A e, f \in {d} : e = f
    OBVIOUS
  <2> QED
    BY <1>3, <2>1, RebindKept
<1>4. ASSUME NEW d \in Destinations,
             LG!Clone(d) \/ LG!LogMany(d, 1) \/ LG!LogMany(d, 2) \/ LG!Flush(d) \/ LG!DropClone(d)
      PROVE  LogInv'
  <2>1. 1 \in {1, 2} /\ 2 \in {1, 2}
    OBVIOUS
  <2> QED
    BY <1>4, <2>1, CloneKept, LogManyKept, FlushKept, DropCloneKept, Zenon
<1>5. CASE UNCHANGED lg_vars
  <2>1. /\ lg_clock' = lg_clock /\ lg_made' = lg_made /\ lg_bound' = lg_bound
        /\ lg_clones' = lg_clones /\ lg_buffer' = lg_buffer /\ lg_time' = lg_time
        /\ lg_stream' = lg_stream /\ lg_logged' = lg_logged
    BY <1>5 DEF lg_vars
  <2>2. Loggers'
    BY <2>1 DEF LogInv, Loggers
  <2>3. /\ \A d \in Destinations : Open(d)' = Open(d)
        /\ lg_clock' \in Nat /\ lg_clock <= lg_clock'
    BY <2>1 DEF LogInv, Loggers, Open
  <2>4. Kept' /\ LogsSound'
    BY <2>1, <2>3, AloneSound
  <2> QED
    BY <2>2, <2>4 DEF LogInv
<1> QED
  BY <1>1, <1>2, <1>3, <1>4, <1>5, Zenon DEF LG!Next

LEMMA SoundFaithful == ASSUME LG!ClockAssumption, LogInv PROVE LG!LogsFaithful
<1> SUFFICES ASSUME NEW d \in Destinations
    PROVE
    /\ LG!Contents(lg_stream[d]) \o lg_buffer[d] = lg_logged[d]
    /\ \A k \in DOMAIN lg_stream[d] :
         lg_stream[d][k].kind = "messages" =>
           /\ LG!HeldAfter(lg_stream[d], k, lg_stream[d][k].time) > 0
           /\ \A i \in DOMAIN lg_stream[d][k].data :
                \A t \in 0 .. MaxClock :
                  LG!HeldAfter(lg_stream[d], k, t) > 0 => t <= lg_stream[d][k].data[i][1]
    /\ (d \in lg_made /\ d \notin lg_bound /\ lg_clones[d] = 0) <=>
         \A t \in 0 .. MaxClock : LG!HeldAfter(lg_stream[d], Len(lg_stream[d]), t) = 0
  BY Zenon DEF LG!LogsFaithful
<1> DEFINE s == lg_stream[d]
           u == lg_time[d]
<1>1. /\ LG!Log(d).buffer = lg_buffer[d] /\ LG!Log(d).stream = s /\ LG!Log(d).time = u
  BY DEF LG!Log
<1>2. LogSound(LG!Log(d), Open(d), lg_clock, lg_logged[d])
  BY DEF LogInv, LogsSound
<1> HIDE DEF s, u
<1>3. /\ LG!Contents(s) \o lg_buffer[d] = lg_logged[d] /\ SentInTime(s)
      /\ u \in Nat /\ u <= lg_clock
      /\ \A t \in Nat : Holds(s, t) = (IF Open(d) /\ t = u THEN 1 ELSE 0)
  BY <1>1, <1>2 DEF LogSound
<1>4. 0 .. MaxClock \subseteq Nat /\ u \in 0 .. MaxClock
  BY <1>3 DEF LogInv, Loggers, LG!ClockAssumption
<1>5. \A k \in DOMAIN s : s[k].kind = "messages" =>
        /\ LG!HeldAfter(s, k, s[k].time) > 0
        /\ \A i \in DOMAIN s[k].data : \A t \in 0 .. MaxClock :
             LG!HeldAfter(s, k, t) > 0 => t <= s[k].data[i][1]
  BY <1>3, <1>4, Zenon DEF SentInTime
<1>6. Open(d) <=> ~(d \in lg_made /\ d \notin lg_bound /\ lg_clones[d] = 0)
  BY DEF Open, LogInv, Loggers
<1>7. ~Open(d) <=> \A t \in 0 .. MaxClock : Holds(s, t) = 0
  <2>1. CASE Open(d)
    BY <1>3, <1>4, <2>1
  <2>2. CASE ~Open(d)
    BY <1>3, <1>4, <2>2
  <2> QED
    BY <2>1, <2>2
<1> QED
  BY <1>3, <1>5, <1>6, <1>7, Zenon DEF s, Holds

\* A behaviour of the composition runs Logging, or leaves it alone.
LEMMA LogOnly ==
  /\ AnyInit => LG!Init
  /\ [AnyNext]_any_vars => [LG!Next]_lg_vars
<1>1. AnyInit => LG!Init
  BY DEF AnyInit
<1>2. ASSUME AnyNext PROVE [LG!Next]_lg_vars
  BY <1>2 DEF AnyNext
<1>3. ASSUME UNCHANGED any_vars PROVE UNCHANGED lg_vars
  BY <1>3 DEF any_vars
<1> QED
  BY <1>1, <1>2, <1>3

\* logging/src/lib.rs, Logger, with timely/src/logging.rs, BatchLogger: however clones are
\* made and dropped, names bound to other destinations, buffers filled and flushed, and
\* whatever the clock reads in between, streams have every event once and in order, under a
\* capability that is held, and are closed exactly when nobody can log to them.
THEOREM LogsAreFaithful ==
  ASSUME LG!ClockAssumption PROVE AnySpec => []LogsFaithful
<1>1. AnyInit => LogInv
  BY LogOnly, LogBegins
<1>2. LogInv /\ [AnyNext]_any_vars => LogInv'
  BY LogOnly, LogKept
<1>3. LogInv => LogsFaithful
  BY SoundFaithful DEF LogsFaithful
<1> QED
  BY <1>1, <1>2, <1>3, PTL DEF AnySpec

-----------------------------------------------------------------------------
(* Sums over the event streams *)

\* Total adds stream by stream.
TotalRun(f, g) ==
  /\ g \in [0 .. Instances -> Int]
  /\ g[0] = 0
  /\ \A n \in 1 .. Instances : g[n] = g[n - 1] + f[n]
  /\ CA!Total(f) = g[Instances]

LEMMA TotalSteps ==
  ASSUME Instances \in Nat, NEW f \in [CA!Capturer -> Int]
  PROVE  \E g : TotalRun(f, g)
<1> DEFINE L == Instances
           advance == [n \in 1 .. L |-> [v \in Int |-> v + f[n]]]
           Run(g) == g = [n \in 0 .. L |-> IF n = 0 THEN 0 ELSE g[n - 1] + f[n]]
           c == CHOOSE g : Run(g)
<1>1. \A n \in 1 .. L : f[n] \in Int
  BY DEF CA!Capturer
<1>2. CA!Total(f) = c[L]
  BY Zenon DEF CA!Total
<1>3. 0 \in Int /\ L \in Nat
  OBVIOUS
<1> HIDE DEF L
<1>4. advance \in [1 .. L -> [Int -> Int]]
  BY <1>1
<1>5. PICK g : Stepwise(Int, 0, L, advance, g)
  <2> HIDE DEF advance
  <2> QED
    BY <1>3, <1>4, Recurrence, Zenon
<1>6. \A n \in 1 .. L : g[n] = g[n - 1] + f[n]
  <2>1. \A n \in 1 .. L : g[n - 1] \in Int
    BY <1>3, <1>5 DEF Stepwise
  <2> QED
    BY <1>5, <2>1 DEF Stepwise
<1> HIDE DEF advance
<1>7. Run(g)
  <2>1. \A n \in 0 .. L : n = 0 \/ n \in 1 .. L
    BY <1>3
  <2>2. \A n \in 0 .. L : g[n] = IF n = 0 THEN 0 ELSE g[n - 1] + f[n]
    BY <1>5, <1>6, <2>1 DEF Stepwise
  <2>3. g = [n \in 0 .. L |-> g[n]]
    BY <1>5 DEF Stepwise
  <2> QED
    BY <2>2, <2>3
<1>8. Run(c)
  <2>1. \E h : Run(h)
    BY <1>7, Zenon
  <2> HIDE DEF Run
  <2> QED
    BY <2>1, Zenon
<1>9. c[L] = g[L]
  <2> HIDE DEF c
  <2>1. c[0] = 0 /\ \A n \in 1 .. L : c[n] = c[n - 1] + f[n]
    <3>1. \A n \in 1 .. L : n \in 0 .. L /\ n # 0
      BY <1>3
    <3>2. 0 \in 0 .. L
      BY <1>3
    <3> QED
      BY <1>8, <3>1, <3>2
  <2>2. \A n \in 0 .. L : c[n] = g[n]
    <3>1. Alike(c, g, L)
      BY <1>5, <1>6, <2>1 DEF Alike, Stepwise
    <3> QED
      BY <1>3, <3>1, SameSteps
  <2> QED
    BY <1>3, <2>2
<1> HIDE DEF c
<1>10. TotalRun(f, g)
  BY <1>2, <1>5, <1>6, <1>9 DEF L, TotalRun, Stepwise
<1> QED
  BY <1>10, Zenon

LEMMA TotalInt ==
  ASSUME Instances \in Nat, NEW f \in [CA!Capturer -> Int] PROVE CA!Total(f) \in Int
<1>1. PICK g : TotalRun(f, g)
  BY TotalSteps
<1> QED
  BY <1>1 DEF TotalRun

LEMMA TotalPlus ==
  ASSUME Instances \in Nat,
         NEW f \in [CA!Capturer -> Int], NEW h \in [CA!Capturer -> Int], NEW k \in [CA!Capturer -> Int],
         \A c \in CA!Capturer : k[c] = f[c] + h[c]
  PROVE  CA!Total(k) = CA!Total(f) + CA!Total(h)
<1>1. PICK p : TotalRun(f, p)
  BY TotalSteps
<1>2. PICK q : TotalRun(h, q)
  BY TotalSteps
<1>3. PICK r : TotalRun(k, r)
  BY TotalSteps
<1> DEFINE s == [n \in 0 .. Instances |-> p[n] + q[n]]
<1>4. Alike(r, s, Instances)
  <2>1. r[0] = s[0]
    BY <1>1, <1>2, <1>3 DEF TotalRun
  <2>2. ASSUME NEW n \in 1 .. Instances, r[n - 1] = s[n - 1] PROVE r[n] = s[n]
    <3>1. n \in 0 .. Instances /\ n - 1 \in 0 .. Instances /\ n \in CA!Capturer
      BY DEF CA!Capturer
    <3>2. s[n] = p[n] + q[n] /\ s[n - 1] = p[n - 1] + q[n - 1]
      BY <3>1
    <3>3. /\ p[n] = p[n - 1] + f[n] /\ q[n] = q[n - 1] + h[n] /\ r[n] = r[n - 1] + k[n]
          /\ p[n - 1] \in Int /\ q[n - 1] \in Int /\ f[n] \in Int /\ h[n] \in Int
          /\ k[n] = f[n] + h[n]
      BY <1>1, <1>2, <1>3, <3>1 DEF TotalRun
    <3> QED
      BY <2>2, <3>2, <3>3
  <2> QED
    BY <2>1, <2>2 DEF Alike
<1> HIDE DEF s
<1>5. r[Instances] = s[Instances] /\ Instances \in 0 .. Instances
  <2>1. \A n \in 0 .. Instances : r[n] = s[n]
    BY <1>4, SameSteps
  <2> QED
    BY <2>1
<1> QED
  BY <1>1, <1>2, <1>3, <1>5 DEF TotalRun, s

\* Counts cannot make up for each other.
LEMMA TotalAtLeast ==
  ASSUME Instances \in Nat, NEW f \in [CA!Capturer -> Nat], NEW c \in CA!Capturer
  PROVE  CA!Total(f) >= f[c]
<1>1. PICK g : TotalRun(f, g)
  BY TotalSteps
<1> DEFINE Good == {n \in 0 .. Instances : g[n] >= 0 /\ (c <= n => g[n] >= f[c])}
<1>c. c \in 1 .. Instances /\ f[c] \in Nat
  BY DEF CA!Capturer
<1>2. 0 \in Good
  BY <1>1, <1>c DEF TotalRun
<1>3. ASSUME NEW n \in 0 .. Instances, n \in Good, n < Instances PROVE n + 1 \in Good
  <2>1. n + 1 \in 1 .. Instances /\ (n + 1) - 1 = n /\ n + 1 \in CA!Capturer
    BY <1>3 DEF CA!Capturer
  <2>2. g[n + 1] = g[n] + f[n + 1] /\ g[n] \in Int /\ f[n + 1] \in Nat
    BY <1>1, <2>1 DEF TotalRun
  <2>3. c <= n + 1 => g[n + 1] >= f[c]
    <3>1. CASE c <= n
      BY <1>3, <1>c, <2>2, <3>1
    <3>2. CASE c = n + 1
      BY <1>3, <1>c, <2>2, <3>2
    <3> QED
      BY <1>c, <3>1, <3>2
  <2> QED
    BY <1>3, <2>1, <2>2, <2>3
<1> HIDE DEF Good
<1>4. 0 .. Instances \subseteq Good
  BY <1>2, <1>3, CountUp
<1>5. Instances \in Good
  BY <1>4
<1> QED
  BY <1>1, <1>5, <1>c DEF Good, TotalRun

\* Streams that all count the same.
LEMMA TotalSame ==
  ASSUME Instances \in Nat, NEW x \in Int, NEW f \in [CA!Capturer -> Int],
         \A c \in CA!Capturer : f[c] = x
  PROVE  CA!Total(f) = Instances * x
<1>1. PICK g : TotalRun(f, g)
  BY TotalSteps
<1> DEFINE s == [n \in 0 .. Instances |-> n * x]
<1>2. Alike(g, s, Instances)
  <2>1. g[0] = s[0]
    BY <1>1 DEF TotalRun
  <2>2. ASSUME NEW n \in 1 .. Instances, g[n - 1] = s[n - 1] PROVE g[n] = s[n]
    <3>1. n \in 0 .. Instances /\ n - 1 \in 0 .. Instances /\ n \in CA!Capturer
      BY DEF CA!Capturer
    <3>2. s[n] = n * x /\ s[n - 1] = (n - 1) * x
      BY <3>1
    <3>3. g[n] = g[n - 1] + x
      BY <1>1, <3>1 DEF TotalRun
    <3>4. (n - 1) * x + x = n * x
      OBVIOUS
    <3> QED
      BY <2>2, <3>2, <3>3, <3>4
  <2> QED
    BY <2>1, <2>2 DEF Alike
<1> HIDE DEF s
<1>3. g[Instances] = s[Instances]
  <2>1. \A n \in 0 .. Instances : g[n] = s[n]
    BY <1>2, SameSteps, ZenonT(60)
  <2> QED
    BY <2>1
<1> QED
  BY <1>1, <1>3 DEF TotalRun, s

-----------------------------------------------------------------------------
(* What replay makes of events *)

CaptureEvent == [kind : {"progress"}, changes : [Chain -> Int]]
                  \cup [kind : {"messages"}, time : Chain]

\* The time of a message, and the changes of a progress event.
TimeOf(e) == IF e.kind = "messages" THEN <<e.time>> ELSE <<>>
ChangeAt(e, t) == IF e.kind = "progress" THEN e.changes[t] ELSE 0

LEMMA EventTypes ==
  ASSUME NEW e \in CaptureEvent, NEW t \in Chain
  PROVE  TimeOf(e) \in Seq(Chain) /\ ChangeAt(e, t) \in Int
BY DEF CaptureEvent, TimeOf, ChangeAt

TimesRun(s, f) ==
  /\ f \in [0 .. Len(s) -> Seq(Chain)]
  /\ f[0] = <<>>
  /\ \A n \in 1 .. Len(s) : f[n] = f[n - 1] \o TimeOf(s[n])
  /\ CA!TimesOf(s) = f[Len(s)]

\* TimesOf goes from event to event.
LEMMA TimesSteps ==
  ASSUME NEW s \in Seq(CaptureEvent)
  PROVE  \E f : TimesRun(s, f)
<1>0. PICK L \in Nat : L = Len(s)
  OBVIOUS
<1> DEFINE V == Seq(Chain)
           x(n) == TimeOf(s[n])
           advance == [n \in 1 .. L |-> [v \in V |-> v \o x(n)]]
           Run(g) == g = [n \in 0 .. L |-> IF n = 0 THEN <<>> ELSE g[n - 1] \o x(n)]
           c == CHOOSE g : Run(g)
<1>1. \A n \in 1 .. L : x(n) \in V
  <2>1. \A n \in 1 .. L : s[n] \in CaptureEvent
    BY <1>0, ElementOfSeq
  <2>2. \A e \in CaptureEvent : TimeOf(e) \in V
    BY EmptySeq DEF CaptureEvent, TimeOf
  <2> QED
    BY <2>1, <2>2
<1>2. CA!TimesOf(s) = c[L]
  <2>1. CA!TimesOf(s) = (CHOOSE g : g = [n \in 0 .. Len(s) |-> IF n = 0 THEN <<>>
                 ELSE g[n - 1] \o (IF s[n].kind = "messages" THEN <<s[n].time>> ELSE <<>>)])[Len(s)]
    BY Zenon DEF CA!TimesOf
  <2> QED
    BY <1>0, <2>1, Zenon DEF TimeOf
<1>3. <<>> \in V
  BY EmptySeq
<1>a. \A v \in V, w \in V : v \o w \in V
  BY ConcatProperties
<1> HIDE DEF x, V
<1>4. advance \in [1 .. L -> [V -> V]]
  BY <1>1, <1>a
<1>5. PICK f : Stepwise(V, <<>>, L, advance, f)
  <2> HIDE DEF advance
  <2> QED
    BY <1>3, <1>4, Recurrence, Zenon
<1>6. \A n \in 1 .. L : f[n] = f[n - 1] \o x(n)
  <2>1. \A n \in 1 .. L : f[n - 1] \in V
    BY <1>5 DEF Stepwise
  <2> QED
    BY <1>5, <2>1 DEF Stepwise
<1> HIDE DEF advance
<1>7. Run(f)
  <2>1. \A n \in 0 .. L : n = 0 \/ n \in 1 .. L
    OBVIOUS
  <2>2. \A n \in 0 .. L : f[n] = IF n = 0 THEN <<>> ELSE f[n - 1] \o x(n)
    BY <1>5, <1>6, <2>1 DEF Stepwise
  <2>3. f = [n \in 0 .. L |-> f[n]]
    BY <1>5 DEF Stepwise
  <2> QED
    BY <2>2, <2>3
<1>8. Run(c)
  <2>1. \E g : Run(g)
    BY <1>7, Zenon
  <2> HIDE DEF Run
  <2> QED
    BY <2>1, Zenon
<1>9. c[L] = f[L]
  <2> HIDE DEF c
  <2>1. c[0] = <<>> /\ \A n \in 1 .. L : c[n] = c[n - 1] \o x(n)
    <3>1. \A n \in 1 .. L : n \in 0 .. L /\ n # 0
      OBVIOUS
    <3>2. 0 \in 0 .. L
      OBVIOUS
    <3> QED
      BY <1>8, <3>1, <3>2
  <2>2. \A n \in 0 .. L : c[n] = f[n]
    <3>1. Alike(c, f, L)
      BY <1>5, <1>6, <2>1 DEF Alike, Stepwise
    <3> QED
      BY <3>1, SameSteps, Zenon
  <2> QED
    BY <2>2
<1> HIDE DEF c
<1>10. TimesRun(s, f)
  BY <1>0, <1>2, <1>5, <1>6, <1>9 DEF x, V, TimesRun, Stepwise
<1> QED
  BY <1>10, Zenon

ChangesRun(s, t, f) ==
  /\ f \in [0 .. Len(s) -> Int]
  /\ f[0] = 0
  /\ \A n \in 1 .. Len(s) : f[n] = f[n - 1] + ChangeAt(s[n], t)
  /\ CA!ChangesAt(s, t) = f[Len(s)]

\* And so does ChangesAt.
LEMMA ChangesSteps ==
  ASSUME NEW s \in Seq(CaptureEvent), NEW t \in Chain
  PROVE  \E f : ChangesRun(s, t, f)
<1>0. PICK L \in Nat : L = Len(s)
  OBVIOUS
<1> DEFINE x(n) == ChangeAt(s[n], t)
           advance == [n \in 1 .. L |-> [v \in Int |-> v + x(n)]]
           Run(g) == g = [n \in 0 .. L |-> IF n = 0 THEN 0 ELSE g[n - 1] + x(n)]
           c == CHOOSE g : Run(g)
<1>1. \A n \in 1 .. L : x(n) \in Int
  <2>1. \A n \in 1 .. L : s[n] \in CaptureEvent
    BY <1>0, ElementOfSeq
  <2> QED
    BY <2>1, EventTypes
<1>2. CA!ChangesAt(s, t) = c[L]
  <2>1. CA!ChangesAt(s, t) = (CHOOSE g : g = [n \in 0 .. Len(s) |-> IF n = 0 THEN 0
                 ELSE g[n - 1] + (IF s[n].kind = "progress" THEN s[n].changes[t] ELSE 0)])[Len(s)]
    BY Zenon DEF CA!ChangesAt
  <2> QED
    BY <1>0, <2>1, Zenon DEF ChangeAt
<1>3. 0 \in Int
  OBVIOUS
<1> HIDE DEF x
<1>4. advance \in [1 .. L -> [Int -> Int]]
  BY <1>1
<1>5. PICK f : Stepwise(Int, 0, L, advance, f)
  <2> HIDE DEF advance
  <2> QED
    BY <1>3, <1>4, Recurrence, Zenon
<1>6. \A n \in 1 .. L : f[n] = f[n - 1] + x(n)
  <2>1. \A n \in 1 .. L : f[n - 1] \in Int
    BY <1>5 DEF Stepwise
  <2> QED
    BY <1>5, <2>1 DEF Stepwise
<1> HIDE DEF advance
<1>7. Run(f)
  <2>1. \A n \in 0 .. L : n = 0 \/ n \in 1 .. L
    OBVIOUS
  <2>2. \A n \in 0 .. L : f[n] = IF n = 0 THEN 0 ELSE f[n - 1] + x(n)
    BY <1>5, <1>6, <2>1 DEF Stepwise
  <2>3. f = [n \in 0 .. L |-> f[n]]
    BY <1>5 DEF Stepwise
  <2> QED
    BY <2>2, <2>3
<1>8. Run(c)
  <2>1. \E g : Run(g)
    BY <1>7, Zenon
  <2> HIDE DEF Run
  <2> QED
    BY <2>1, Zenon
<1>9. c[L] = f[L]
  <2> HIDE DEF c
  <2>1. c[0] = 0 /\ \A n \in 1 .. L : c[n] = c[n - 1] + x(n)
    <3>1. \A n \in 1 .. L : n \in 0 .. L /\ n # 0
      OBVIOUS
    <3>2. 0 \in 0 .. L
      OBVIOUS
    <3> QED
      BY <1>8, <3>1, <3>2
  <2>2. \A n \in 0 .. L : c[n] = f[n]
    <3>1. Alike(c, f, L)
      BY <1>5, <1>6, <2>1 DEF Alike, Stepwise
    <3> QED
      BY <3>1, SameSteps, Zenon
  <2> QED
    BY <2>2
<1> HIDE DEF c
<1>10. ChangesRun(s, t, f)
  BY <1>0, <1>2, <1>5, <1>6, <1>9 DEF x, ChangesRun, Stepwise
<1> QED
  BY <1>10, Zenon

LEMMA TimesEmpty == CA!TimesOf(<<>>) = <<>>
<1>1. <<>> \in Seq(CaptureEvent) /\ Len(<<>>) = 0
  BY EmptySeq
<1>2. PICK f : TimesRun(<<>>, f)
  BY <1>1, TimesSteps, Zenon
<1> QED
  BY <1>1, <1>2 DEF TimesRun

LEMMA TimesType == ASSUME NEW s \in Seq(CaptureEvent) PROVE CA!TimesOf(s) \in Seq(Chain)
<1>1. PICK f : TimesRun(s, f)
  BY TimesSteps
<1>2. Len(s) \in 0 .. Len(s)
  BY LenProperties
<1> QED
  BY <1>1, <1>2 DEF TimesRun

\* The messages of a stream are those of its two parts.
LEMMA TimesConcat ==
  ASSUME NEW s \in Seq(CaptureEvent), NEW r \in Seq(CaptureEvent)
  PROVE  CA!TimesOf(s \o r) = CA!TimesOf(s) \o CA!TimesOf(r)
<1>1. PICK K \in Nat : K = Len(s)
  OBVIOUS
<1>2. PICK L \in Nat : L = Len(r)
  OBVIOUS
<1> DEFINE u == s \o r
<1>3. /\ u \in Seq(CaptureEvent) /\ Len(u) = K + L
      /\ \A n \in 1 .. K : u[n] = s[n]
      /\ \A n \in 1 .. L : u[K + n] = r[n]
  <2>1. u \in Seq(CaptureEvent) /\ Len(u) = K + L
    BY <1>1, <1>2, ConcatProperties
  <2>2. \A n \in 1 .. K + L : u[n] = IF n <= K THEN s[n] ELSE r[n - K]
    BY <1>1, <1>2, ConcatProperties
  <2>3. \A n \in 1 .. K : n \in 1 .. K + L /\ n <= K
    OBVIOUS
  <2>4. \A n \in 1 .. L : K + n \in 1 .. K + L /\ ~(K + n <= K) /\ (K + n) - K = n
    OBVIOUS
  <2> HIDE DEF u
  <2> QED
    BY <2>1, <2>2, <2>3, <2>4
<1> HIDE DEF u
<1>4. PICK f : TimesRun(s, f)
  BY TimesSteps
<1>5. PICK g : TimesRun(r, g)
  BY TimesSteps
<1>6. PICK h : TimesRun(u, h)
  BY <1>3, TimesSteps
<1>7. h[K] = f[K]
  <2>1. Alike(h, f, K)
    <3>1. \A n \in 1 .. K : n \in 1 .. K + L
      OBVIOUS
    <3>2. h[0] = f[0]
      BY <1>4, <1>6 DEF TimesRun
    <3>3. \A n \in 1 .. K : h[n] = h[n - 1] \o TimeOf(u[n])
      BY <1>3, <1>6, <3>1, Zenon DEF TimesRun
    <3>4. \A n \in 1 .. K : f[n] = f[n - 1] \o TimeOf(s[n])
      BY <1>1, <1>4, Zenon DEF TimesRun
    <3>5. \A n \in 1 .. K : u[n] = s[n]
      BY <1>3, Zenon
    <3> QED
      BY <3>2, <3>3, <3>4, <3>5, Zenon DEF Alike
  <2>2. \A n \in 0 .. K : h[n] = f[n]
    BY <2>1, SameSteps, SMTT(30)
  <2> QED
    BY <2>2
<1> DEFINE Good == {n \in 0 .. L : h[K + n] = f[K] \o g[n]}
<1>a. \A x, y, z \in Seq(Chain) : (x \o y) \o z = x \o (y \o z)
  <2> DEFINE All == Seq(Chain)
  <2>1. ASSUME NEW x \in All, NEW y \in All, NEW z \in All PROVE (x \o y) \o z = x \o (y \o z)
    BY ConcatAssociative, SMTT(30)
  <2> HIDE DEF All
  <2>2. \A x \in All, y \in All, z \in All : (x \o y) \o z = x \o (y \o z)
    BY <2>1, Zenon
  <2> QED
    BY <2>2, Zenon DEF All
<1>8. f[K] \in Seq(Chain)
  BY <1>1, <1>4 DEF TimesRun
<1>9. 0 \in Good
  <2>1. h[K + 0] = h[K]
    BY <1>1
  <2>2. g[0] = <<>>
    BY <1>5 DEF TimesRun
  <2>3. f[K] \o <<>> = f[K]
    BY <1>8, SeqFacts
  <2>4. h[K + 0] = f[K] \o g[0]
    BY <1>7, <2>1, <2>2, <2>3, Zenon
  <2>5. 0 \in 0 .. L
    BY <1>2
  <2> QED
    BY <2>4, <2>5, Zenon
<1>10. ASSUME NEW n \in 0 .. L, n \in Good, n < L PROVE n + 1 \in Good
  <2>1. n + 1 \in 1 .. L /\ (n + 1) - 1 = n /\ K + (n + 1) \in 1 .. K + L /\ (K + (n + 1)) - 1 = K + n
    BY <1>10
  <2>2. h[K + (n + 1)] = h[K + n] \o TimeOf(u[K + (n + 1)])
    BY <1>3, <1>6, <2>1 DEF TimesRun
  <2>3. g[n + 1] = g[n] \o TimeOf(r[n + 1]) /\ g[n] \in Seq(Chain)
    BY <1>2, <1>5, <2>1 DEF TimesRun
  <2>4. u[K + (n + 1)] = r[n + 1] /\ r[n + 1] \in CaptureEvent
    BY <1>2, <1>3, <2>1
  <2>5. TimeOf(r[n + 1]) \in Seq(Chain)
    BY <2>4, EmptySeq DEF CaptureEvent, TimeOf
  <2>6. (f[K] \o g[n]) \o TimeOf(r[n + 1]) = f[K] \o (g[n] \o TimeOf(r[n + 1]))
    BY <1>8, <1>a, <2>3, <2>5, Zenon
  <2>7. h[K + n] = f[K] \o g[n]
    BY <1>10, Zenon
  <2>8. h[K + (n + 1)] = f[K] \o g[n + 1]
    BY <2>2, <2>3, <2>4, <2>6, <2>7, Zenon
  <2>9. n + 1 \in 0 .. L
    BY <2>1
  <2> QED
    BY <2>8, <2>9, Zenon
<1> HIDE DEF Good
<1>11. 0 .. L \subseteq Good
  BY <1>9, <1>10, CountUp
<1>12. L \in Good
  BY <1>11
<1> QED
  BY <1>1, <1>2, <1>3, <1>4, <1>5, <1>6, <1>12 DEF Good, TimesRun, u

\* Each of the times is a message's.
LEMMA TimesFrom ==
  ASSUME NEW s \in Seq(CaptureEvent), NEW k \in 1 .. Len(CA!TimesOf(s))
  PROVE  \E n \in 1 .. Len(s) : s[n].kind = "messages" /\ s[n].time = CA!TimesOf(s)[k]
<1>1. PICK L \in Nat : L = Len(s)
  OBVIOUS
<1>2. PICK f : TimesRun(s, f)
  BY TimesSteps
<1> DEFINE From(t) == \E n \in 1 .. L : s[n].kind = "messages" /\ s[n].time = t
           Good == {n \in 0 .. L : \A j \in 1 .. Len(f[n]) : From(f[n][j])}
<1>3. 0 \in Good
  BY <1>2 DEF TimesRun
<1>4. ASSUME NEW n \in 0 .. L, n \in Good, n < L PROVE n + 1 \in Good
  <2>1. n + 1 \in 1 .. L /\ (n + 1) - 1 = n
    BY <1>4
  <2>2. f[n + 1] = f[n] \o TimeOf(s[n + 1]) /\ f[n] \in Seq(Chain)
    BY <1>1, <1>2, <2>1 DEF TimesRun
  <2>3. \A j \in 1 .. Len(f[n]) : From(f[n][j])
    BY <1>4
  <2>4. CASE s[n + 1].kind = "messages"
    <3>1. From(s[n + 1].time)
      BY <2>1, <2>4
    <3>2. f[n + 1] = f[n] \o <<s[n + 1].time>>
      BY <2>2, <2>4 DEF TimeOf
    <3>3. s[n + 1].time \in Chain
      <4>1. s[n + 1] \in CaptureEvent
        BY <1>1, <2>1
      <4> QED
        BY <2>4, <4>1 DEF CaptureEvent
    <3> HIDE DEF From
    <3>4. f[n + 1] = Append(f[n], s[n + 1].time)
      BY <2>2, <3>2, <3>3, SeqFacts
    <3>5. \A j \in 1 .. Len(f[n + 1]) : From(f[n + 1][j])
      BY <2>2, <2>3, <3>1, <3>3, <3>4, AppendProperties, SMTT(30)
    <3> QED
      BY <2>1, <3>5
  <2>5. CASE s[n + 1].kind # "messages"
    <3>1. f[n + 1] = f[n]
      BY <2>2, <2>5, SeqFacts DEF TimeOf
    <3> QED
      BY <2>1, <2>3, <3>1, SMTT(30)
  <2> QED
    BY <2>4, <2>5
<1> HIDE DEF Good
<1>5. 0 .. L \subseteq Good
  BY <1>3, <1>4, CountUp
<1>6. L \in Good
  BY <1>5
<1>7. CA!TimesOf(s) = f[L]
  BY <1>1, <1>2 DEF TimesRun
<1>8. From(CA!TimesOf(s)[k])
  BY <1>6, <1>7 DEF Good
<1> QED
  BY <1>1, <1>8

\* The messages made of a queue are the queue's.
LEMMA TimesQueue ==
  ASSUME NEW q \in Seq(Chain), NEW s,
         s = [k \in 1 .. Len(q) |-> [kind |-> "messages", time |-> q[k]]]
  PROVE  s \in Seq(CaptureEvent) /\ Len(s) = Len(q) /\ CA!TimesOf(s) = q
<1>1. PICK L \in Nat : L = Len(q)
  OBVIOUS
<1>2. \A k \in 1 .. L : s[k] = [kind |-> "messages", time |-> q[k]] /\ s[k] \in CaptureEvent
  <2>1. \A k \in 1 .. L : q[k] \in Chain
    BY <1>1
  <2>2. \A k \in 1 .. L : s[k] = [kind |-> "messages", time |-> q[k]]
    BY <1>1
  <2> QED
    BY <2>1, <2>2 DEF CaptureEvent
<1>3. s \in Seq(CaptureEvent) /\ Len(s) = L
  <2>1. s \in [1 .. L -> CaptureEvent]
    BY <1>1, <1>2
  <2>2. s \in Seq(CaptureEvent)
    BY <2>1, IsASeq
  <2> QED
    BY <1>1, <2>1, <2>2, LenProperties
<1>4. PICK f : TimesRun(s, f)
  BY <1>3, TimesSteps
<1> DEFINE Good == {n \in 0 .. L : f[n] = SubSeq(q, 1, n)}
<1>5. 0 \in Good
  <2>1. SubSeq(q, 1, 0) = <<>>
    BY SubSeqEmpty
  <2> QED
    BY <1>4, <2>1 DEF TimesRun
<1>6. ASSUME NEW n \in 0 .. L, n \in Good, n < L PROVE n + 1 \in Good
  <2>1. n + 1 \in 1 .. L /\ (n + 1) - 1 = n
    BY <1>6
  <2>2. f[n + 1] = f[n] \o TimeOf(s[n + 1])
    BY <1>3, <1>4, <2>1 DEF TimesRun
  <2>3. TimeOf(s[n + 1]) = <<q[n + 1]>>
    <3>1. s[n + 1] = [kind |-> "messages", time |-> q[n + 1]]
      BY <1>2, <2>1
    <3>2. s[n + 1].kind = "messages" /\ s[n + 1].time = q[n + 1]
      BY <3>1
    <3> QED
      BY <3>2, Zenon DEF TimeOf
  <2>4. q[n + 1] \in Chain /\ SubSeq(q, 1, n) \in Seq(Chain)
    BY <1>1, <2>1
  <2>5. SubSeq(q, 1, n) \o <<q[n + 1]>> = Append(SubSeq(q, 1, n), q[n + 1])
    BY <2>4, SeqFacts
  <2>6. SubSeq(q, 1, n + 1) = Append(SubSeq(q, 1, n), q[n + 1])
    BY <1>1, <2>1
  <2>7. f[n] = SubSeq(q, 1, n)
    BY <1>6, Zenon
  <2>8. f[n + 1] = SubSeq(q, 1, n + 1)
    BY <2>2, <2>3, <2>5, <2>6, <2>7, Zenon
  <2>9. n + 1 \in 0 .. L
    BY <2>1
  <2> QED
    BY <2>8, <2>9, Zenon
<1> HIDE DEF Good
<1>7. 0 .. L \subseteq Good
  BY <1>5, <1>6, CountUp
<1>8. L \in Good
  BY <1>7
<1>9. CA!TimesOf(s) = SubSeq(q, 1, L)
  BY <1>3, <1>4, <1>8 DEF Good, TimesRun
<1>10. SubSeq(q, 1, L) = q
  BY <1>1
<1> QED
  BY <1>1, <1>3, <1>9, <1>10

-----------------------------------------------------------------------------
(* The frontiers that the events of a stream go through *)

Follows(A, B) == \A t \in B : \E x \in A : Leq(x, t)

\* A[n] is the captured stream's frontier behind the n-th of the events s: a progress event
\* leads from one to the next, a message is at one's times or later, and what is seen and not
\* yet written leads to the frontier F there is now.
Past(A, s, F, seen) ==
  /\ A \in [0 .. Len(s) -> SUBSET Chain]
  /\ \A n \in 1 .. Len(s) :
       \/ /\ s[n].kind = "progress" /\ Follows(A[n - 1], A[n])
          /\ \A t \in Chain : s[n].changes[t] = CA!Count(A[n], t) - CA!Count(A[n - 1], t)
       \/ s[n].kind = "messages" /\ A[n] = A[n - 1] /\ \E x \in A[n] : Leq(x, s[n].time)
  /\ F \in SUBSET Chain /\ Follows(A[Len(s)], F)
  /\ \A t \in Chain : seen[t] = CA!Count(F, t) - CA!Count(A[Len(s)], t)

\* What CA!TimeAssumption says, with the names of the composition.
LEMMA ChainOrder ==
  ASSUME CA!TimeAssumption
  PROVE  /\ Origin \in Chain /\ \A t \in Chain : Leq(t, t) /\ Leq(Origin, t)
         /\ \A s, t, u \in Chain : Leq(s, t) /\ Leq(t, u) => Leq(s, u)
         /\ Antichains(Chain) \subseteq SUBSET Chain
BY DEF CA!TimeAssumption

\* No event is before the frontier where the stream begins.
LEMMA PastEarly ==
  ASSUME CA!TimeAssumption, NEW A, NEW s \in Seq(CaptureEvent), NEW F, NEW seen,
         Past(A, s, F, seen)
  PROVE  /\ Follows(A[0], F)
         /\ \A n \in 1 .. Len(s) : s[n].kind = "messages" => \E x \in A[0] : Leq(x, s[n].time)
<1>1. PICK L \in Nat : L = Len(s)
  OBVIOUS
<1>2. /\ \A n \in 0 .. L : A[n] \in SUBSET Chain
      /\ \A n \in 1 .. L : Follows(A[n - 1], A[n]) \/ A[n] = A[n - 1]
      /\ F \in SUBSET Chain /\ Follows(A[L], F)
  BY <1>1 DEF Past
<1> DEFINE Good == {n \in 0 .. L : Follows(A[0], A[n])}
<1>3. 0 \in Good
  BY <1>2, ChainOrder DEF Follows
<1>t. ASSUME NEW X \in SUBSET Chain, NEW Y \in SUBSET Chain, NEW Z \in SUBSET Chain,
             Follows(X, Y), Follows(Y, Z)
      PROVE  Follows(X, Z)
  BY <1>t, ChainOrder DEF Follows
<1>4. ASSUME NEW n \in 0 .. L, n \in Good, n < L PROVE n + 1 \in Good
  <2>1. n + 1 \in 1 .. L /\ n + 1 \in 0 .. L /\ (n + 1) - 1 = n /\ 0 \in 0 .. L
    BY <1>4
  <2>2. A[n] \in SUBSET Chain /\ A[n + 1] \in SUBSET Chain /\ A[0] \in SUBSET Chain
    BY <1>2, <2>1
  <2>3. Follows(A[n], A[n + 1]) \/ A[n + 1] = A[n]
    BY <1>2, <2>1
  <2>4. Follows(A[0], A[n + 1])
    BY <1>4, <1>t, <2>2, <2>3
  <2> QED
    BY <2>1, <2>4
<1> HIDE DEF Good
<1>5. 0 .. L \subseteq Good
  BY <1>3, <1>4, CountUp
<1>6. \A n \in 0 .. L : Follows(A[0], A[n]) /\ A[n] \in SUBSET Chain
  BY <1>2, <1>5 DEF Good
<1>7. Follows(A[0], F)
  <2>1. L \in 0 .. L /\ 0 \in 0 .. L
    OBVIOUS
  <2> QED
    BY <1>2, <1>6, <1>t, <2>1
<1>8. ASSUME NEW n \in 1 .. L, s[n].kind = "messages"
      PROVE  \E x \in A[0] : Leq(x, s[n].time)
  <2>1. PICK y \in A[n] : Leq(y, s[n].time)
    BY <1>1, <1>8 DEF Past
  <2>2. n \in 0 .. L /\ s[n] \in CaptureEvent /\ 0 \in 0 .. L
    BY <1>1
  <2>3. s[n].time \in Chain
    BY <1>8, <2>2 DEF CaptureEvent
  <2>4. PICK x \in A[0] : Leq(x, y)
    BY <1>6, <2>2 DEF Follows
  <2>5. x \in Chain /\ y \in Chain
    BY <1>6, <2>2
  <2> QED
    BY <2>1, <2>3, <2>4, <2>5, ChainOrder
<1> QED
  BY <1>1, <1>7, <1>8

\* Changes that were seen are written.
LEMMA PastProgress ==
  ASSUME CA!TimeAssumption, NEW A, NEW s \in Seq(CaptureEvent), NEW F, NEW seen \in [Chain -> Int],
         Past(A, s, F, seen), NEW e \in CaptureEvent, e.kind = "progress", e.changes = seen
  PROVE  /\ Append(s, e) \in Seq(CaptureEvent)
         /\ \E B : Past(B, Append(s, e), F, CA!Zero) /\ B[0] = A[0]
<1>1. PICK L \in Nat : L = Len(s)
  OBVIOUS
<1>2. e \in CaptureEvent
  OBVIOUS
<1>3. /\ Append(s, e) \in Seq(CaptureEvent) /\ Len(Append(s, e)) = L + 1
      /\ Append(s, e)[L + 1] = e /\ \A n \in 1 .. L : Append(s, e)[n] = s[n]
  BY <1>1, <1>2, AppendProperties
<1> DEFINE r == Append(s, e)
           B == [n \in 0 .. L + 1 |-> IF n = L + 1 THEN F ELSE A[n]]
<1> HIDE DEF r
<1>4. /\ A \in [0 .. L -> SUBSET Chain] /\ F \in SUBSET Chain /\ Follows(A[L], F)
      /\ \A t \in Chain : seen[t] = CA!Count(F, t) - CA!Count(A[L], t)
  BY <1>1 DEF Past
<1>5. /\ B \in [0 .. L + 1 -> SUBSET Chain] /\ B[L + 1] = F /\ B[L] = A[L] /\ B[0] = A[0]
      /\ \A n \in 0 .. L : B[n] = A[n]
  <2>1. \A n \in 0 .. L : n \in 0 .. L + 1 /\ n # L + 1
    OBVIOUS
  <2>2. \A n \in 0 .. L + 1 : n = L + 1 \/ n \in 0 .. L
    OBVIOUS
  <2>3. L + 1 \in 0 .. L + 1 /\ L \in 0 .. L /\ 0 \in 0 .. L
    OBVIOUS
  <2> QED
    BY <1>4, <2>1, <2>2, <2>3
<1> HIDE DEF B
<1>6. Follows(F, F)
  BY <1>4, ChainOrder DEF Follows
<1>7. ASSUME NEW n \in 1 .. L + 1
      PROVE  \/ /\ r[n].kind = "progress" /\ Follows(B[n - 1], B[n])
                /\ \A t \in Chain : r[n].changes[t] = CA!Count(B[n], t) - CA!Count(B[n - 1], t)
             \/ r[n].kind = "messages" /\ B[n] = B[n - 1] /\ \E x \in B[n] : Leq(x, r[n].time)
  <2>1. CASE n = L + 1
    <3>1. r[n] = e /\ B[n] = F /\ B[n - 1] = A[L] /\ n - 1 = L
      BY <1>3, <1>5, <2>1 DEF r
    <3> QED
      BY <1>4, <3>1
  <2>2. CASE n # L + 1
    <3>1. n \in 1 .. L /\ n \in 0 .. L /\ n - 1 \in 0 .. L
      BY <2>2
    <3>2. r[n] = s[n] /\ B[n] = A[n] /\ B[n - 1] = A[n - 1]
      BY <1>3, <1>5, <3>1 DEF r
    <3> QED
      BY <1>1, <3>1, <3>2 DEF Past
  <2> QED
    BY <2>1, <2>2
<1>8. \A t \in Chain : CA!Zero[t] = CA!Count(F, t) - CA!Count(B[L + 1], t)
  BY <1>5 DEF CA!Zero, CA!Count
<1>9. Past(B, r, F, CA!Zero)
  BY <1>3, <1>4, <1>5, <1>6, <1>7, <1>8 DEF Past, r
<1> QED
  BY <1>2, <1>3, <1>5, <1>9 DEF r

\* Messages are at the frontier there is, or later.
LEMMA PastMessages ==
  ASSUME CA!TimeAssumption, NEW A, NEW s \in Seq(CaptureEvent), NEW F, NEW seen,
         Past(A, s, F, seen), NEW q \in Seq(Chain),
         \A k \in 1 .. Len(q) : \E x \in F : Leq(x, q[k]),
         NEW m \in Seq(CaptureEvent), Len(m) = Len(q),
         \A k \in 1 .. Len(q) : m[k].kind = "messages" /\ m[k].time = q[k]
  PROVE  s \o m \in Seq(CaptureEvent) /\ \E B : Past(B, s \o m, F, seen) /\ B[0] = A[0]
<1>1. PICK L \in Nat : L = Len(s)
  OBVIOUS
<1>2. PICK K \in Nat : K = Len(q)
  OBVIOUS
<1>3. m \in Seq(CaptureEvent) /\ Len(m) = K
  BY <1>2
<1> DEFINE r == s \o m
<1>4. /\ r \in Seq(CaptureEvent) /\ Len(r) = L + K
      /\ \A n \in 1 .. L + K : r[n] = IF n <= L THEN s[n] ELSE m[n - L]
  <2>1. /\ r \in Seq(CaptureEvent) /\ Len(r) = Len(s) + Len(m)
        /\ \A n \in 1 .. Len(s) + Len(m) : r[n] = IF n <= Len(s) THEN s[n] ELSE m[n - Len(s)]
    BY <1>3, ConcatProperties
  <2> HIDE DEF r
  <2> QED
    BY <1>1, <1>3, <2>1, Zenon
<1> DEFINE B == [n \in 0 .. L + K |-> IF n <= L THEN A[n] ELSE A[L]]
<1> HIDE DEF r
<1>5. /\ A \in [0 .. L -> SUBSET Chain] /\ F \in SUBSET Chain /\ Follows(A[L], F)
      /\ \A t \in Chain : seen[t] = CA!Count(F, t) - CA!Count(A[L], t)
  BY <1>1 DEF Past
<1>6. /\ B \in [0 .. L + K -> SUBSET Chain] /\ B[0] = A[0]
      /\ \A n \in 0 .. L : B[n] = A[n]
      /\ \A n \in L .. L + K : B[n] = A[L]
  <2>1. \A n \in 0 .. L : n \in 0 .. L + K /\ n <= L
    OBVIOUS
  <2>2. \A n \in L .. L + K : n \in 0 .. L + K /\ (n <= L => n = L)
    OBVIOUS
  <2>3. \A n \in 0 .. L + K : n <= L => n \in 0 .. L
    OBVIOUS
  <2>4. L \in 0 .. L /\ 0 \in 0 .. L
    OBVIOUS
  <2> QED
    BY <1>5, <2>1, <2>2, <2>3, <2>4
<1> HIDE DEF B
<1>7. ASSUME NEW n \in 1 .. L + K
      PROVE  \/ /\ r[n].kind = "progress" /\ Follows(B[n - 1], B[n])
                /\ \A t \in Chain : r[n].changes[t] = CA!Count(B[n], t) - CA!Count(B[n - 1], t)
             \/ r[n].kind = "messages" /\ B[n] = B[n - 1] /\ \E x \in B[n] : Leq(x, r[n].time)
  <2>1. CASE n <= L
    <3>1. n \in 1 .. L /\ n \in 0 .. L /\ n - 1 \in 0 .. L
      BY <2>1
    <3>2. r[n] = s[n] /\ B[n] = A[n] /\ B[n - 1] = A[n - 1]
      BY <1>4, <1>6, <2>1, <3>1
    <3> QED
      BY <1>1, <3>1, <3>2 DEF Past
  <2>2. CASE ~(n <= L)
    <3>1. n - L \in 1 .. K /\ n \in L .. L + K /\ n - 1 \in L .. L + K
      BY <2>2
    <3>2. B[n] = A[L] /\ B[n - 1] = A[L]
      BY <1>6, <3>1
    <3>3. r[n].kind = "messages" /\ r[n].time = q[n - L]
      BY <1>2, <1>4, <2>2, <3>1
    <3>4. PICK x \in F : Leq(x, q[n - L])
      BY <1>2, <3>1
    <3>5. PICK y \in A[L] : Leq(y, x)
      BY <1>5 DEF Follows
    <3>6. q[n - L] \in Chain /\ x \in Chain /\ y \in Chain
      BY <1>2, <1>5, <3>1
    <3>7. Leq(y, q[n - L])
      BY <3>4, <3>5, <3>6, ChainOrder
    <3> QED
      BY <3>2, <3>3, <3>7
  <2> QED
    BY <2>1, <2>2
<1>8. B[L + K] = A[L]
  BY <1>6
<1>9. Past(B, r, F, seen)
  BY <1>4, <1>5, <1>6, <1>7, <1>8 DEF Past
<1> QED
  BY <1>4, <1>6, <1>9 DEF r

\* A sequence is its two parts.
LEMMA TwoParts ==
  ASSUME NEW S, NEW s \in Seq(S), NEW k \in 0 .. Len(s)
  PROVE  /\ SubSeq(s, 1, k) \in Seq(S) /\ SubSeq(s, k + 1, Len(s)) \in Seq(S)
         /\ Len(SubSeq(s, 1, k)) = k /\ Len(SubSeq(s, k + 1, Len(s))) = Len(s) - k
         /\ s = SubSeq(s, 1, k) \o SubSeq(s, k + 1, Len(s))
<1>1. PICK L \in Nat : L = Len(s)
  OBVIOUS
<1> DEFINE p == SubSeq(s, 1, k)
           r == SubSeq(s, k + 1, L)
<1>2. p \in Seq(S) /\ Len(p) = k /\ \A n \in 1 .. k : p[n] = s[n]
  BY <1>1
<1>3. r \in Seq(S) /\ Len(r) = L - k /\ \A n \in 1 .. L - k : r[n] = s[n + k]
  BY <1>1
<1> HIDE DEF p, r
<1>4. Len(p) + Len(r) = L /\ k \in Nat
  BY <1>1, <1>2, <1>3
<1>5. p \o r \in Seq(S) /\ Len(p \o r) = L
  BY <1>2, <1>3, <1>4, ConcatProperties
<1>6. \A n \in 1 .. L : (p \o r)[n] = IF n <= k THEN p[n] ELSE r[n - k]
  <2>1. \A n \in 1 .. Len(p) + Len(r) : (p \o r)[n] = IF n <= Len(p) THEN p[n] ELSE r[n - Len(p)]
    BY <1>2, <1>3, ConcatProperties, SMTT(30)
  <2> QED
    BY <1>2, <1>4, <2>1, Zenon
<1>7. \A n \in 1 .. L : (n <= k => n \in 1 .. k) /\ (~(n <= k) => n - k \in 1 .. L - k /\ (n - k) + k = n)
  BY <1>1
<1>8. \A n \in 1 .. L : (p \o r)[n] = s[n]
  BY <1>2, <1>3, <1>6, <1>7
<1>9. s = p \o r
  BY <1>1, <1>5, <1>8, SeqEqual
<1> QED
  BY <1>1, <1>2, <1>3, <1>9 DEF p, r

\* Events that are read lead from one frontier to another, and leave the others.
LEMMA PastRead ==
  ASSUME NEW A, NEW s \in Seq(CaptureEvent), NEW F, NEW seen, Past(A, s, F, seen),
         NEW k \in 0 .. Len(s), NEW B \in [0 .. Len(s) - k -> SUBSET Chain],
         \A n \in 0 .. Len(s) - k : B[n] = A[n + k]
  PROVE  /\ Past(B, SubSeq(s, k + 1, Len(s)), F, seen) /\ B[0] = A[k]
         /\ \A t \in Chain : CA!ChangesAt(SubSeq(s, 1, k), t) = CA!Count(A[k], t) - CA!Count(A[0], t)
<1>1. PICK L \in Nat : L = Len(s)
  OBVIOUS
<1> DEFINE p == SubSeq(s, 1, k)
           r == SubSeq(s, k + 1, L)
<1>2. /\ p \in Seq(CaptureEvent) /\ Len(p) = k /\ \A n \in 1 .. k : p[n] = s[n]
  BY <1>1
<1>3. /\ r \in Seq(CaptureEvent) /\ Len(r) = L - k /\ \A n \in 1 .. L - k : r[n] = s[n + k]
  BY <1>1
<1> HIDE DEF p, r
<1>5. /\ A \in [0 .. L -> SUBSET Chain] /\ F \in SUBSET Chain /\ Follows(A[L], F)
      /\ \A t \in Chain : seen[t] = CA!Count(F, t) - CA!Count(A[L], t)
  BY <1>1 DEF Past
<1>6. /\ B \in [0 .. L - k -> SUBSET Chain] /\ B[0] = A[k] /\ B[L - k] = A[L]
      /\ \A n \in 0 .. L - k : B[n] = A[n + k]
  <2>1. \A n \in 0 .. L - k : n + k \in 0 .. L
    BY <1>1
  <2>2. 0 \in 0 .. L - k /\ L - k \in 0 .. L - k /\ 0 + k = k /\ (L - k) + k = L
    BY <1>1
  <2> QED
    BY <1>1, <1>5, <2>1, <2>2
<1>7. ASSUME NEW n \in 1 .. L - k
      PROVE  \/ /\ r[n].kind = "progress" /\ Follows(B[n - 1], B[n])
                /\ \A t \in Chain : r[n].changes[t] = CA!Count(B[n], t) - CA!Count(B[n - 1], t)
             \/ r[n].kind = "messages" /\ B[n] = B[n - 1] /\ \E x \in B[n] : Leq(x, r[n].time)
  <2>1. n + k \in 1 .. L /\ n \in 0 .. L - k /\ n - 1 \in 0 .. L - k /\ (n - 1) + k = (n + k) - 1
    BY <1>1
  <2>2. r[n] = s[n + k] /\ B[n] = A[n + k] /\ B[n - 1] = A[(n + k) - 1]
    BY <1>3, <1>6, <2>1
  <2> QED
    BY <1>1, <2>1, <2>2 DEF Past
<1>8. Past(B, r, F, seen)
  BY <1>3, <1>5, <1>6, <1>7 DEF Past
<1>9. ASSUME NEW t \in Chain PROVE CA!ChangesAt(p, t) = CA!Count(A[k], t) - CA!Count(A[0], t)
  <2>1. PICK f : ChangesRun(p, t, f)
    BY <1>2, ChangesSteps
  <2> DEFINE g == [n \in 0 .. k |-> CA!Count(A[n], t) - CA!Count(A[0], t)]
  <2>2. f[0] = 0 /\ \A n \in 1 .. k : f[n] = f[n - 1] + ChangeAt(p[n], t)
    BY <1>2, <2>1 DEF ChangesRun
  <2>3. Alike(f, g, k)
    <3>1. f[0] = g[0]
      BY <1>1, <2>2 DEF CA!Count
    <3>2. ASSUME NEW n \in 1 .. k, f[n - 1] = g[n - 1] PROVE f[n] = g[n]
      <4>1. n \in 0 .. k /\ n - 1 \in 0 .. k /\ n \in 1 .. L
        BY <1>1
      <4>2. g[n] = CA!Count(A[n], t) - CA!Count(A[0], t) /\ g[n - 1] = CA!Count(A[n - 1], t) - CA!Count(A[0], t)
        BY <4>1
      <4>3. ChangeAt(s[n], t) = CA!Count(A[n], t) - CA!Count(A[n - 1], t)
        <5>1. \/ /\ s[n].kind = "progress"
                 /\ s[n].changes[t] = CA!Count(A[n], t) - CA!Count(A[n - 1], t)
              \/ s[n].kind = "messages" /\ A[n] = A[n - 1]
          BY <1>1, <4>1 DEF Past
        <5>2. CA!Count(A[n], t) \in Int
          BY DEF CA!Count
        <5> QED
          BY <5>1, <5>2 DEF ChangeAt
      <4>4. f[n] = f[n - 1] + ChangeAt(s[n], t)
        BY <1>2, <2>2
      <4>5. CA!Count(A[n], t) \in Int /\ CA!Count(A[n - 1], t) \in Int /\ CA!Count(A[0], t) \in Int
        BY DEF CA!Count
      <4> HIDE DEF g
      <4> QED
        BY <3>2, <4>2, <4>3, <4>4, <4>5
    <3> HIDE DEF g
    <3> QED
      BY <3>1, <3>2 DEF Alike
  <2> HIDE DEF g
  <2>4. f[k] = g[k]
    <3>1. k \in Nat /\ k \in 0 .. k
      BY <1>1
    <3>2. \A n \in 0 .. k : f[n] = g[n]
      <4> PICK K \in Nat : K = k
        BY <3>1
      <4>1. Alike(f, g, K)
        BY <2>3
      <4>2. \A n \in 0 .. K : f[n] = g[n]
        BY <4>1, SameSteps
      <4> QED
        BY <4>2
    <3> QED
      BY <3>1, <3>2
  <2> QED
    BY <1>1, <1>2, <2>1, <2>4 DEF ChangesRun, g
<1> QED
  BY <1>1, <1>6, <1>8, <1>9 DEF p, r

-----------------------------------------------------------------------------
(* Captured streams and their replay *)

CapTypes ==
  /\ ca_frontier \in [CA!Capturer -> SUBSET Chain]
  /\ ca_changes \in [CA!Capturer -> [Chain -> Int]]
  /\ ca_queue \in [CA!Capturer -> Seq(Chain)]
  /\ ca_sent \in [CA!Capturer -> Seq(Chain)]
  /\ ca_captured \in [CA!Capturer -> BOOLEAN]
  /\ ca_stream \in [CA!Capturer -> Seq(CaptureEvent)]
  /\ ca_buff1 \in [CA!Capturer -> Nat]
  /\ ca_started \in BOOLEAN
  /\ ca_held \in [Chain -> Int]
  /\ ca_replayed \in [CA!Capturer -> Seq(Chain)]

\* The reader holds no more than was written.
CapBytes == \A c \in CA!Capturer : ca_buff1[c] <= Len(ca_stream[c]) * Parts

\* Each message was sent again, or is in the event stream, or waits at capture_into, in order.
CapOrder == \A c \in CA!Capturer : ca_replayed[c] \o CA!Waiting(c) = ca_sent[c]

\* Those that wait at capture_into are in time.
CapLate ==
  \A c \in CA!Capturer : \A k \in 1 .. Len(ca_queue[c]) :
    \E x \in ca_frontier[c] : Leq(x, ca_queue[c][k])

\* For each stream there are the frontiers its events go through, and what replay holds is
\* the sum of those it has come to.
CapHeld ==
  \E F : /\ \A c \in CA!Capturer :
              Past(F[c], ca_stream[c], ca_frontier[c], CA!Seen(c))
         /\ \A t \in Chain : ca_held[t] + CA!Start[t]
              = CA!Total([c \in CA!Capturer |-> CA!Count(F[c][0], t)])

CapFirst == ~ca_started => ca_held = CA!At(Origin, 1)

CapInv == CapTypes /\ CapBytes /\ CapOrder /\ CapLate /\ CapHeld /\ CapFirst

LEMMA CapBegins ==
  ASSUME CA!TimeAssumption, CA!SizeAssumption, CA!Init PROVE CapInv
<1>1. Origin \in Chain /\ \A t \in Chain : Leq(t, t)
  BY ChainOrder
<1>2. Instances \in Nat
  BY DEF CA!SizeAssumption
<1>3. CapTypes
  <2>1. CA!At(Origin, 1) \in [Chain -> Int]
    BY DEF CA!At
  <2>2. <<>> \in Seq(Chain) /\ <<>> \in Seq(CaptureEvent)
    BY EmptySeq
  <2>3. /\ ca_frontier = [c \in CA!Capturer |-> {Origin}]
        /\ ca_changes = [c \in CA!Capturer |-> CA!At(Origin, 1)]
        /\ ca_queue = [c \in CA!Capturer |-> <<>>]
        /\ ca_sent = [c \in CA!Capturer |-> <<>>]
        /\ ca_captured = [c \in CA!Capturer |-> FALSE]
        /\ ca_stream = [c \in CA!Capturer |-> <<>>]
        /\ ca_buff1 = [c \in CA!Capturer |-> 0]
        /\ ca_started = FALSE /\ ca_held = CA!At(Origin, 1)
        /\ ca_replayed = [c \in CA!Capturer |-> <<>>]
    BY DEF CA!Init
  <2> QED
    BY <1>1, <2>1, <2>2, <2>3 DEF CapTypes
<1>4. CapBytes
  <2>1. Parts \in Nat
    BY DEF CA!SizeAssumption
  <2>2. 0 <= 0 * Parts
    BY <2>1
  <2>3. \A c \in CA!Capturer : ca_buff1[c] = 0 /\ Len(ca_stream[c]) = 0
    BY EmptySeq DEF CA!Init
  <2> QED
    BY <2>2, <2>3 DEF CapBytes
<1>5. CapOrder
  <2>1. <<>> \o <<>> = <<>>
    BY EmptySeq, SeqFacts
  <2>2. ASSUME NEW c \in CA!Capturer PROVE ca_replayed[c] \o CA!Waiting(c) = ca_sent[c]
    <3>1. ca_replayed[c] = <<>> /\ ca_stream[c] = <<>> /\ ca_queue[c] = <<>> /\ ca_sent[c] = <<>>
      BY DEF CA!Init
    <3> QED
      BY <2>1, <3>1, TimesEmpty, Zenon DEF CA!Waiting
  <2> QED
    BY <2>2 DEF CapOrder
<1>6. CapLate
  BY EmptySeq DEF CA!Init, CapLate
<1>7. CapHeld
  <2> DEFINE A == [n \in 0 .. 0 |-> {Origin}]
             F == [c \in CA!Capturer |-> A]
  <2>1. ASSUME NEW c \in CA!Capturer
        PROVE  Past(F[c], ca_stream[c], ca_frontier[c], CA!Seen(c))
    <3>1. ca_stream[c] = <<>> /\ Len(<<>>) = 0 /\ ca_frontier[c] = {Origin} /\ F[c] = A
      BY EmptySeq DEF CA!Init
    <3>2. A \in [0 .. 0 -> SUBSET Chain] /\ A[0] = {Origin}
      BY <1>1
    <3>3. \A t \in Chain : CA!Seen(c)[t] = 0
      BY <1>1 DEF CA!Init, CA!Seen, CA!Plus, CA!At
    <3>4. \A t \in Chain : CA!Count(A[0], t) - CA!Count(A[0], t) = 0
      BY DEF CA!Count
    <3>5. Follows(A[0], {Origin}) /\ {Origin} \in SUBSET Chain
      BY <1>1, <3>2 DEF Follows
    <3>6. \A n \in 1 .. 0 : FALSE
      OBVIOUS
    <3> HIDE DEF A, F
    <3>7. \A t \in Chain : CA!Seen(c)[t] = CA!Count({Origin}, t) - CA!Count(A[0], t)
      BY <3>2, <3>3, <3>4
    <3> QED
      BY <3>1, <3>2, <3>5, <3>6, <3>7 DEF Past
  <2>2. ASSUME NEW t \in Chain
        PROVE  ca_held[t] + CA!Start[t] = CA!Total([c \in CA!Capturer |-> CA!Count(F[c][0], t)])
    <3>1. \A c \in CA!Capturer : F[c][0] = {Origin}
      OBVIOUS
    <3> DEFINE x == CA!Count({Origin}, t)
               f == [c \in CA!Capturer |-> CA!Count(F[c][0], t)]
    <3>2. x \in Int
      BY DEF CA!Count
    <3>3. f \in [CA!Capturer -> Int] /\ \A c \in CA!Capturer : f[c] = x
      BY <3>1, <3>2
    <3>4. CA!Total(f) = Instances * x
      <4> HIDE DEF f, x
      <4> QED
        BY <1>2, <3>2, <3>3, TotalSame
    <3>5. ca_held[t] + CA!Start[t] = Instances * x
      <4>1. ca_held[t] = (IF t = Origin THEN 1 ELSE 0)
        BY <1>1 DEF CA!Init, CA!At
      <4>2. CA!Start[t] = (IF t = Origin THEN Instances - 1 ELSE 0)
        BY <1>1 DEF CA!Init, CA!Start, CA!At
      <4>3. x = (IF t = Origin THEN 1 ELSE 0)
        BY DEF CA!Count
      <4> HIDE DEF x
      <4> QED
        BY <1>2, <4>1, <4>2, <4>3
    <3> QED
      BY <3>4, <3>5
  <2> HIDE DEF F
  <2> QED
    BY <2>1, <2>2, Zenon DEF CapHeld
<1>8. CapFirst
  BY DEF CA!Init, CapFirst
<1> QED
  BY <1>3, <1>4, <1>5, <1>6, <1>7, <1>8 DEF CapInv

\* A sequence in three parts, of which the last becomes longer.
LEMMA AppendThird ==
  ASSUME NEW S, NEW r \in Seq(S), NEW w \in Seq(S), NEW q \in Seq(S), NEW t \in S
  PROVE  r \o (w \o Append(q, t)) = Append(r \o (w \o q), t)
<1>1. <<t>> \in Seq(S) /\ w \o q \in Seq(S)
  BY ConcatProperties
<1>2. r \o (w \o q) \in Seq(S)
  BY <1>1, ConcatProperties
<1>3. w \o (q \o <<t>>) = (w \o q) \o <<t>>
  BY <1>1, ConcatAssociative
<1>4. r \o ((w \o q) \o <<t>>) = (r \o (w \o q)) \o <<t>>
  BY <1>1, ConcatAssociative
<1>5. q \o <<t>> = Append(q, t)
  BY SeqFacts
<1>6. (r \o (w \o q)) \o <<t>> = Append(r \o (w \o q), t)
  BY <1>2, SeqFacts
<1> QED
  BY <1>3, <1>4, <1>5, <1>6, Zenon

LEMMA CapSends ==
  ASSUME CA!TimeAssumption, CA!SizeAssumption, CapInv, NEW c \in CA!Capturer, CA!Send(c)
  PROVE  CapInv'
<1>1. PICK t \in Chain : /\ \E f \in ca_frontier[c] : Leq(f, t)
                         /\ ca_queue' = [ca_queue EXCEPT ![c] = Append(@, t)]
                         /\ ca_sent' = [ca_sent EXCEPT ![c] = Append(@, t)]
  BY DEF CA!Send
<1>2. UNCHANGED <<ca_frontier, ca_changes, ca_captured, ca_stream, ca_buff1, ca_started,
                  ca_held, ca_replayed>>
  BY DEF CA!Send, CA!replay
<1>3. CapTypes
  BY DEF CapInv
<1>4. CapTypes'
  <2>1. ca_queue[c] \in Seq(Chain) /\ ca_sent[c] \in Seq(Chain)
    BY <1>3 DEF CapTypes
  <2>2. Append(ca_queue[c], t) \in Seq(Chain) /\ Append(ca_sent[c], t) \in Seq(Chain)
    BY <2>1, AppendProperties
  <2>3. ca_queue' \in [CA!Capturer -> Seq(Chain)] /\ ca_sent' \in [CA!Capturer -> Seq(Chain)]
    BY <1>1, <1>3, <2>2 DEF CapTypes
  <2> QED
    BY <1>2, <1>3, <2>3 DEF CapTypes
<1>5. \A d \in CA!Capturer \ {c} : ca_queue'[d] = ca_queue[d] /\ ca_sent'[d] = ca_sent[d]
  BY <1>1, <1>3 DEF CapTypes
<1>6. ca_queue'[c] = Append(ca_queue[c], t) /\ ca_sent'[c] = Append(ca_sent[c], t)
  BY <1>1, <1>3 DEF CapTypes
<1>7. CapOrder'
  <2>1. ASSUME NEW d \in CA!Capturer
        PROVE  ca_replayed'[d] \o CA!Waiting(d)' = ca_sent'[d]
    <3>1. CA!Waiting(d)' = CA!TimesOf(ca_stream[d]) \o ca_queue'[d]
      BY <1>2 DEF CA!Waiting
    <3>2. ca_replayed[d] \o (CA!TimesOf(ca_stream[d]) \o ca_queue[d]) = ca_sent[d]
      BY DEF CapInv, CapOrder, CA!Waiting
    <3>3. CASE d # c
      BY <1>2, <1>5, <3>1, <3>2, <3>3
    <3>4. CASE d = c
      <4>1. /\ ca_replayed[c] \in Seq(Chain) /\ ca_queue[c] \in Seq(Chain)
            /\ ca_stream[c] \in Seq(CaptureEvent)
        BY <1>3 DEF CapTypes
      <4>2. CA!TimesOf(ca_stream[c]) \in Seq(Chain)
        BY <4>1, TimesType
      <4>3. ca_replayed[c] \o (CA!TimesOf(ca_stream[c]) \o Append(ca_queue[c], t))
              = Append(ca_replayed[c] \o (CA!TimesOf(ca_stream[c]) \o ca_queue[c]), t)
        <5> DEFINE w == CA!TimesOf(ca_stream[c])
                   r == ca_replayed[c]
                   q == ca_queue[c]
        <5>1. w \in Seq(Chain) /\ r \in Seq(Chain) /\ q \in Seq(Chain)
          BY <4>1, <4>2
        <5> HIDE DEF w, r, q
        <5>2. r \o (w \o Append(q, t)) = Append(r \o (w \o q), t)
          BY <5>1, AppendThird, SMTT(30)
        <5> QED
          BY <5>2 DEF w, r, q
      <4> QED
        BY <1>2, <1>6, <3>1, <3>2, <3>4, <4>3, Zenon
    <3> QED
      BY <3>3, <3>4
  <2> QED
    BY <2>1 DEF CapOrder
<1>8. CapLate'
  <2>1. ASSUME NEW d \in CA!Capturer, NEW k \in 1 .. Len(ca_queue'[d])
        PROVE  \E x \in ca_frontier'[d] : Leq(x, ca_queue'[d][k])
    <3>1. CASE d # c
      BY <1>2, <1>5, <2>1, <3>1 DEF CapInv, CapLate
    <3>2. CASE d = c
      <4>1. ca_queue[c] \in Seq(Chain)
        BY <1>3 DEF CapTypes
      <4>2. \/ k \in 1 .. Len(ca_queue[c]) /\ ca_queue'[c][k] = ca_queue[c][k]
            \/ ca_queue'[c][k] = t
        BY <1>6, <2>1, <3>2, <4>1, AppendProperties
      <4> QED
        BY <1>1, <1>2, <3>2, <4>2 DEF CapInv, CapLate
    <3> QED
      BY <3>1, <3>2
  <2> QED
    BY <2>1 DEF CapLate
<1>9. CapHeld'
  BY <1>2 DEF CapInv, CapHeld, CA!Seen, CA!Start
<1>10. CapBytes' /\ CapFirst'
  BY <1>2 DEF CapInv, CapBytes, CapFirst
<1> QED
  BY <1>4, <1>7, <1>8, <1>9, <1>10 DEF CapInv

LEMMA CapAdvances ==
  ASSUME CA!TimeAssumption, CA!SizeAssumption, CapInv, NEW c \in CA!Capturer, CA!Advance(c)
  PROVE  CapInv'
<1>1. PICK A \in Antichains(Chain) :
        /\ \A t \in A : \E f \in ca_frontier[c] : Leq(f, t)
        /\ \A k \in 1 .. Len(ca_queue[c]) : \E f \in A : Leq(f, ca_queue[c][k])
        /\ ca_frontier' = [ca_frontier EXCEPT ![c] = A]
        /\ ca_changes' = [ca_changes EXCEPT ![c] =
             [t \in Chain |-> @[t] + CA!Count(A, t) - CA!Count(ca_frontier[c], t)]]
  BY DEF CA!Advance
<1>2. UNCHANGED <<ca_queue, ca_sent, ca_captured, ca_stream, ca_buff1, ca_started,
                  ca_held, ca_replayed>>
  BY DEF CA!Advance, CA!replay
<1>3. CapTypes
  BY DEF CapInv
<1>4. A \in SUBSET Chain
  BY <1>1, ChainOrder
<1>5. \A t \in Chain : /\ CA!Count(A, t) \in Int /\ CA!Count(ca_frontier[c], t) \in Int
                       /\ ca_changes[c][t] \in Int
  BY <1>3 DEF CA!Count, CapTypes
<1>6. /\ ca_frontier'[c] = A
      /\ ca_changes'[c] = [t \in Chain |-> ca_changes[c][t] + CA!Count(A, t) - CA!Count(ca_frontier[c], t)]
      /\ \A d \in CA!Capturer \ {c} : ca_frontier'[d] = ca_frontier[d] /\ ca_changes'[d] = ca_changes[d]
  BY <1>1, <1>3 DEF CapTypes
<1>7. CapTypes'
  <2>1. ca_frontier' \in [CA!Capturer -> SUBSET Chain]
    BY <1>1, <1>3, <1>4 DEF CapTypes
  <2>2. ca_changes'[c] \in [Chain -> Int]
    BY <1>5, <1>6
  <2>3. ca_changes' = [d \in CA!Capturer |-> ca_changes'[d]]
    BY <1>1, <1>3 DEF CapTypes
  <2>4. \A d \in CA!Capturer : ca_changes'[d] \in [Chain -> Int]
    BY <1>3, <1>6, <2>2 DEF CapTypes
  <2>5. ca_changes' \in [CA!Capturer -> [Chain -> Int]]
    BY <2>3, <2>4
  <2> QED
    BY <1>2, <1>3, <2>1, <2>5 DEF CapTypes
<1>8. CapLate'
  BY <1>1, <1>2, <1>6 DEF CapInv, CapLate
<1>9. CapHeld'
  <2>1. PICK F :
          /\ \A d \in CA!Capturer : Past(F[d], ca_stream[d], ca_frontier[d], CA!Seen(d))
          /\ \A t \in Chain : ca_held[t] + CA!Start[t]
               = CA!Total([d \in CA!Capturer |-> CA!Count(F[d][0], t)])
    BY DEF CapInv, CapHeld
  <2>2. CA!Start' = CA!Start
    BY <1>2 DEF CA!Start
  <2>3. ASSUME NEW d \in CA!Capturer
        PROVE  Past(F[d], ca_stream[d], ca_frontier'[d], CA!Seen(d)')
    <3>1. CASE d # c
      <4>1. CA!Seen(d)' = CA!Seen(d) /\ ca_frontier'[d] = ca_frontier[d]
        BY <1>2, <1>6, <3>1 DEF CA!Seen
      <4> QED
        BY <2>1, <4>1
    <3>2. CASE d = c
      <4> DEFINE L == Len(ca_stream[c])
      <4>1. Past(F[c], ca_stream[c], ca_frontier[c], CA!Seen(c))
        BY <2>1
      <4>2. L \in 0 .. L /\ F[c][L] \in SUBSET Chain
        <5>1. L \in Nat
          BY <1>3 DEF CapTypes
        <5> HIDE DEF L
        <5>2. L \in 0 .. L
          BY <5>1
        <5> QED
          BY <4>1, <5>2 DEF Past, L
      <4>3. Follows(F[c][L], A)
        <5>1. Follows(F[c][L], ca_frontier[c]) /\ ca_frontier[c] \in SUBSET Chain
          BY <4>1 DEF Past
        <5> HIDE DEF L
        <5>2. Follows(ca_frontier[c], A)
          BY <1>1 DEF Follows
        <5> QED
          BY <1>4, <4>2, <5>1, <5>2, ChainOrder DEF Follows
      <4>4. ASSUME NEW t \in Chain
            PROVE  CA!Seen(c)'[t] = CA!Count(A, t) - CA!Count(F[c][L], t)
        <5>1. CA!Seen(c)[t] = CA!Count(ca_frontier[c], t) - CA!Count(F[c][L], t)
          BY <4>1 DEF Past
        <5>2. CA!Seen(c)'[t] = CA!Seen(c)[t] + CA!Count(A, t) - CA!Count(ca_frontier[c], t)
          <6>1. ca_changes'[c][t] = ca_changes[c][t] + CA!Count(A, t) - CA!Count(ca_frontier[c], t)
            BY <1>6
          <6>2. CASE ca_captured[c]
            <7>1. CA!Seen(c) = ca_changes[c] /\ CA!Seen(c)' = ca_changes'[c]
              BY <1>2, <6>2 DEF CA!Seen
            <7> QED
              BY <6>1, <7>1
          <6>3. CASE ~ca_captured[c]
            <7> DEFINE z == CA!At(Origin, -1)[t]
            <7>1. CA!Seen(c)[t] = ca_changes[c][t] + z
              BY <6>3 DEF CA!Seen, CA!Plus
            <7>2. CA!Seen(c)'[t] = ca_changes'[c][t] + z
              BY <1>2, <6>3 DEF CA!Seen, CA!Plus
            <7>3. z \in Int
              BY DEF CA!At
            <7> HIDE DEF z
            <7> QED
              BY <1>5, <6>1, <7>1, <7>2, <7>3
          <6> QED
            BY <6>2, <6>3
        <5>3. CA!Count(F[c][L], t) \in Int
          BY DEF CA!Count
        <5> HIDE DEF L
        <5> QED
          BY <1>5, <5>1, <5>2, <5>3
      <4>5. Past(F[c], ca_stream[c], A, CA!Seen(c)')
        BY <1>4, <4>1, <4>3, <4>4 DEF Past
      <4> QED
        BY <1>6, <3>2, <4>5
    <3> QED
      BY <3>1, <3>2
  <2> QED
    BY <1>2, <2>1, <2>2, <2>3 DEF CapHeld
<1>10. CapBytes' /\ CapOrder' /\ CapFirst'
  BY <1>2 DEF CapInv, CapBytes, CapOrder, CapFirst, CA!Waiting
<1> QED
  BY <1>7, <1>8, <1>9, <1>10 DEF CapInv

\* More was written, the reader holds no more.
LEMMA CapMore ==
  ASSUME NEW P \in Nat, NEW m \in Nat, NEW n \in Nat, m <= n PROVE m * P <= n * P
<1>1. PICK k \in Nat : n = m + k
  <2>1. n - m \in Nat /\ n = m + (n - m)
    OBVIOUS
  <2> QED
    BY <2>1
<1>2. n * P = m * P + k * P
  BY <1>1
<1>3. m * P \in Int /\ k * P \in Nat
  OBVIOUS
<1> QED
  BY <1>2, <1>3

LEMMA CapCaptures ==
  ASSUME CA!TimeAssumption, CA!SizeAssumption, CapInv, NEW c \in CA!Capturer, CA!Capture(c)
  PROVE  CapInv'
<1> DEFINE progress == IF CA!Seen(c) = CA!Zero THEN <<>>
                       ELSE <<[kind |-> "progress", changes |-> CA!Seen(c)]>>
           messages == [k \in 1 .. Len(ca_queue[c]) |-> [kind |-> "messages", time |-> ca_queue[c][k]]]
<1>1. /\ ca_captured' = [ca_captured EXCEPT ![c] = TRUE]
      /\ ca_changes' = [ca_changes EXCEPT ![c] = CA!Zero]
      /\ ca_queue' = [ca_queue EXCEPT ![c] = <<>>]
      /\ ca_stream' = [ca_stream EXCEPT ![c] = @ \o progress \o messages]
      /\ UNCHANGED <<ca_frontier, ca_sent, ca_buff1, ca_started, ca_held, ca_replayed>>
  BY DEF CA!Capture, CA!replay
<1>2. CapTypes
  BY DEF CapInv
<1>3. /\ ca_stream[c] \in Seq(CaptureEvent) /\ ca_queue[c] \in Seq(Chain)
      /\ ca_changes[c] \in [Chain -> Int] /\ ca_frontier[c] \in SUBSET Chain
      /\ ca_replayed[c] \in Seq(Chain)
  BY <1>2 DEF CapTypes
<1>4. CA!Seen(c) \in [Chain -> Int]
  BY <1>3 DEF CA!Seen, CA!Plus, CA!At
<1>5. /\ messages \in Seq(CaptureEvent) /\ CA!TimesOf(messages) = ca_queue[c]
      /\ Len(messages) = Len(ca_queue[c])
  BY <1>3, TimesQueue
<1>6. PICK F :
        /\ \A d \in CA!Capturer : Past(F[d], ca_stream[d], ca_frontier[d], CA!Seen(d))
        /\ \A t \in Chain : ca_held[t] + CA!Start[t]
             = CA!Total([d \in CA!Capturer |-> CA!Count(F[d][0], t)])
  BY DEF CapInv, CapHeld
<1> HIDE DEF messages, progress
\* First what was seen of the frontier is written.
<1>7. /\ ca_stream[c] \o progress \in Seq(CaptureEvent)
      /\ CA!TimesOf(ca_stream[c] \o progress) = CA!TimesOf(ca_stream[c])
      /\ \E B : /\ Past(B, ca_stream[c] \o progress, ca_frontier[c], CA!Zero)
                /\ B[0] = F[c][0]
  <2>1. CASE CA!Seen(c) = CA!Zero
    <3>1. progress = <<>>
      BY <2>1 DEF progress
    <3>2. ca_stream[c] \o progress = ca_stream[c]
      BY <1>3, <3>1, SeqFacts
    <3>3. Past(F[c], ca_stream[c], ca_frontier[c], CA!Zero)
      BY <1>6, <2>1
    <3> QED
      BY <1>3, <3>2, <3>3
  <2>2. CASE CA!Seen(c) # CA!Zero
    <3> DEFINE e == [kind |-> "progress", changes |-> CA!Seen(c)]
    <3>1. progress = <<e>>
      BY <2>2 DEF progress
    <3>2. Past(F[c], ca_stream[c], ca_frontier[c], CA!Seen(c))
      BY <1>6
    <3>3. /\ e \in CaptureEvent /\ Append(ca_stream[c], e) \in Seq(CaptureEvent)
          /\ \E B : /\ Past(B, Append(ca_stream[c], e), ca_frontier[c], CA!Zero)
                    /\ B[0] = F[c][0]
      <4> DEFINE seen == CA!Seen(c)
                 A == F[c]
                 r == ca_stream[c]
                 X == ca_frontier[c]
      <4>1. seen \in [Chain -> Int] /\ r \in Seq(CaptureEvent) /\ Past(A, r, X, seen)
        BY <1>3, <1>4, <3>2
      <4>2. e \in CaptureEvent /\ e.kind = "progress" /\ e.changes = seen
        BY <1>4 DEF CaptureEvent
      <4> HIDE DEF e, seen, A, r, X
      <4>3. /\ e \in CaptureEvent /\ Append(r, e) \in Seq(CaptureEvent)
            /\ \E B : Past(B, Append(r, e), X, CA!Zero) /\ B[0] = A[0]
        BY <4>1, <4>2, PastProgress
      <4> QED
        BY <4>3 DEF seen, A, r, X
    <3> HIDE DEF e
    <3>4. ca_stream[c] \o progress = Append(ca_stream[c], e)
      BY <1>3, <3>1, <3>3, SeqFacts
    <3>5. CA!TimesOf(<<e>>) = <<>>
      <4>1. <<e>> \in Seq(CaptureEvent) /\ Len(<<e>>) = 1 /\ <<e>>[1] = e
        BY <3>3
      <4>2. PICK f : TimesRun(<<e>>, f)
        BY <4>1, TimesSteps
      <4>3. TimeOf(e) = <<>>
        BY DEF TimeOf, e
      <4>4. f[1] = f[0] \o TimeOf(e) /\ f[0] = <<>> /\ CA!TimesOf(<<e>>) = f[1]
        <5>1. 1 \in 1 .. 1 /\ 1 - 1 = 0
          OBVIOUS
        <5> QED
          BY <4>1, <4>2, <5>1 DEF TimesRun
      <4>5. <<>> \o <<>> = <<>>
        BY EmptySeq, SeqFacts
      <4> QED
        BY <4>3, <4>4, <4>5
    <3>6. CA!TimesOf(ca_stream[c] \o <<e>>) = CA!TimesOf(ca_stream[c])
      <4>1. <<e>> \in Seq(CaptureEvent)
        BY <3>3
      <4>2. CA!TimesOf(ca_stream[c] \o <<e>>) = CA!TimesOf(ca_stream[c]) \o CA!TimesOf(<<e>>)
        BY <1>3, <4>1, TimesConcat
      <4>3. CA!TimesOf(ca_stream[c]) \in Seq(Chain)
        BY <1>3, TimesType
      <4>4. CA!TimesOf(ca_stream[c]) \o <<>> = CA!TimesOf(ca_stream[c])
        BY <4>3, SeqFacts
      <4> QED
        BY <3>5, <4>2, <4>4
    <3> QED
      BY <3>1, <3>3, <3>4, <3>6
  <2> QED
    BY <2>1, <2>2
<1> DEFINE s == ca_stream[c] \o progress
<1>8. PICK B : Past(B, s, ca_frontier[c], CA!Zero) /\ B[0] = F[c][0]
  BY <1>7
<1>9. s \in Seq(CaptureEvent) /\ CA!TimesOf(s) = CA!TimesOf(ca_stream[c])
  BY <1>7
<1>10. ca_stream'[c] = s \o messages
  BY <1>1, <1>2 DEF CapTypes
<1> HIDE DEF s
\* And then the messages.
<1>11. /\ s \o messages \in Seq(CaptureEvent)
       /\ \E D : Past(D, s \o messages, ca_frontier[c], CA!Zero) /\ D[0] = F[c][0]
  <2>1. \A k \in 1 .. Len(ca_queue[c]) : \E x \in ca_frontier[c] : Leq(x, ca_queue[c][k])
    BY DEF CapInv, CapLate
  <2>2. messages = [k \in 1 .. Len(ca_queue[c]) |-> [kind |-> "messages", time |-> ca_queue[c][k]]]
    BY DEF messages
  <2>3. s \o messages \in Seq(CaptureEvent)
    <3>1. s \in Seq(CaptureEvent) /\ messages \in Seq(CaptureEvent)
      BY <1>5, <1>9
    <3> QED
      BY <3>1, ConcatProperties
  <2>4. \E D : Past(D, s \o messages, ca_frontier[c], CA!Zero) /\ D[0] = B[0]
    <3> DEFINE q == ca_queue[c]
               X == ca_frontier[c]
               seen == CA!Zero
    <3>1. /\ q \in Seq(Chain) /\ Past(B, s, X, seen)
          /\ \A k \in 1 .. Len(q) : \E x \in X : Leq(x, q[k])
          /\ messages \in Seq(CaptureEvent) /\ Len(messages) = Len(q)
          /\ \A k \in 1 .. Len(q) : messages[k].kind = "messages" /\ messages[k].time = q[k]
      BY <1>3, <1>5, <1>8, <2>1, <2>2
    <3> HIDE DEF q, X, seen
    <3>2. \E D : Past(D, s \o messages, X, seen) /\ D[0] = B[0]
      BY <1>9, <3>1, PastMessages, SMTT(30)
    <3> QED
      BY <3>2 DEF X, seen
  <2> QED
    BY <1>8, <2>3, <2>4
<1>12. PICK D : Past(D, s \o messages, ca_frontier[c], CA!Zero) /\ D[0] = F[c][0]
  BY <1>11
<1>13. \A d \in CA!Capturer \ {c} :
         /\ ca_captured'[d] = ca_captured[d] /\ ca_changes'[d] = ca_changes[d]
         /\ ca_queue'[d] = ca_queue[d] /\ ca_stream'[d] = ca_stream[d]
  BY <1>1, <1>2 DEF CapTypes
<1>14. ca_captured'[c] = TRUE /\ ca_changes'[c] = CA!Zero /\ ca_queue'[c] = <<>>
  BY <1>1, <1>2 DEF CapTypes
<1>15. CapTypes'
  <2>1. CA!Zero \in [Chain -> Int] /\ <<>> \in Seq(Chain)
    BY EmptySeq DEF CA!Zero
  <2>2. /\ ca_captured' \in [CA!Capturer -> BOOLEAN]
        /\ ca_changes' \in [CA!Capturer -> [Chain -> Int]]
        /\ ca_queue' \in [CA!Capturer -> Seq(Chain)]
    BY <1>1, <1>2, <2>1 DEF CapTypes
  <2>3. ca_stream' \in [CA!Capturer -> Seq(CaptureEvent)]
    <3>1. ca_stream' = [d \in CA!Capturer |-> ca_stream'[d]]
      BY <1>1, <1>2 DEF CapTypes
    <3>2. \A d \in CA!Capturer : ca_stream'[d] \in Seq(CaptureEvent)
      BY <1>2, <1>10, <1>11, <1>13 DEF CapTypes
    <3> QED
      BY <3>1, <3>2
  <2> QED
    BY <1>1, <1>2, <2>2, <2>3 DEF CapTypes
<1>16. CapBytes'
  <2>1. ASSUME NEW d \in CA!Capturer PROVE ca_buff1'[d] <= Len(ca_stream'[d]) * Parts
    <3>1. ca_buff1'[d] = ca_buff1[d] /\ ca_buff1[d] <= Len(ca_stream[d]) * Parts
      BY <1>1 DEF CapInv, CapBytes
    <3>2. CASE d # c
      BY <1>13, <3>1, <3>2
    <3>3. CASE d = c
      <4>1. /\ Len(ca_stream[c]) \in Nat /\ Len(ca_stream'[c]) \in Nat
            /\ Len(ca_stream[c]) <= Len(ca_stream'[c])
        <5>1. Len(s) \in Nat /\ Len(s) >= Len(ca_stream[c]) /\ Len(ca_stream[c]) \in Nat
          <6>1. progress \in Seq(CaptureEvent)
            <7>1. [kind |-> "progress", changes |-> CA!Seen(c)] \in CaptureEvent
              BY <1>4 DEF CaptureEvent
            <7> QED
              BY <7>1 DEF progress
          <6>2. Len(ca_stream[c] \o progress) = Len(ca_stream[c]) + Len(progress)
            BY <1>3, <6>1, ConcatProperties
          <6>3. Len(progress) \in Nat /\ Len(ca_stream[c]) \in Nat
            BY <1>3, <6>1, LenProperties
          <6> QED
            BY <6>2, <6>3 DEF s
        <5>2. messages \in Seq(CaptureEvent)
          BY <1>5
        <5>3. s \in Seq(CaptureEvent)
          BY <1>9
        <5>4. Len(s \o messages) = Len(s) + Len(messages)
          BY <5>2, <5>3, ConcatProperties
        <5>5. Len(messages) \in Nat
          BY <5>2, LenProperties
        <5> QED
          BY <1>10, <5>1, <5>4, <5>5
      <4>2. Parts \in Nat
        BY DEF CA!SizeAssumption
      <4> DEFINE m == Len(ca_stream[c])
                 n == Len(ca_stream'[c])
      <4>3. m \in Nat /\ n \in Nat /\ m <= n
        BY <4>1
      <4>4. ca_buff1[c] \in Nat /\ ca_buff1[c] <= m * Parts
        BY <1>2, <3>1, <3>3 DEF CapTypes
      <4> HIDE DEF m, n
      <4>5. m * Parts <= n * Parts
        BY <4>2, <4>3, CapMore
      <4>6. m * Parts \in Int /\ n * Parts \in Int
        BY <4>2, <4>3
      <4>7. ca_buff1[c] <= n * Parts
        BY <4>4, <4>5, <4>6
      <4> QED
        BY <3>1, <3>3, <4>7 DEF n
    <3> QED
      BY <3>2, <3>3
  <2> QED
    BY <2>1 DEF CapBytes
<1>17. CapOrder'
  <2>1. ASSUME NEW d \in CA!Capturer
        PROVE  ca_replayed'[d] \o CA!Waiting(d)' = ca_sent'[d]
    <3>1. CA!Waiting(d)' = CA!TimesOf(ca_stream'[d]) \o ca_queue'[d]
      BY DEF CA!Waiting
    <3>2. ca_replayed[d] \o (CA!TimesOf(ca_stream[d]) \o ca_queue[d]) = ca_sent[d]
      BY DEF CapInv, CapOrder, CA!Waiting
    <3>3. CASE d # c
      BY <1>1, <1>13, <3>1, <3>2, <3>3
    <3>4. CASE d = c
      <4>1. CA!TimesOf(s \o messages) = CA!TimesOf(ca_stream[c]) \o ca_queue[c]
        BY <1>5, <1>9, TimesConcat
      <4>2. CA!TimesOf(s \o messages) \in Seq(Chain)
        BY <1>11, TimesType
      <4>3. CA!TimesOf(s \o messages) \o <<>> = CA!TimesOf(s \o messages)
        BY <4>2, SeqFacts
      <4>4. CA!Waiting(c)' = CA!TimesOf(ca_stream[c]) \o ca_queue[c]
        BY <1>10, <1>14, <3>1, <3>4, <4>1, <4>3, Zenon
      <4> QED
        BY <1>1, <3>2, <3>4, <4>4, Zenon
    <3> QED
      BY <3>3, <3>4
  <2> QED
    BY <2>1 DEF CapOrder
<1>18. CapLate'
  <2>1. ASSUME NEW d \in CA!Capturer, NEW k \in 1 .. Len(ca_queue'[d])
        PROVE  \E x \in ca_frontier'[d] : Leq(x, ca_queue'[d][k])
    <3>1. CASE d # c
      BY <1>1, <1>13, <2>1, <3>1 DEF CapInv, CapLate
    <3>2. CASE d = c
      <4>1. Len(ca_queue'[c]) = 0
        BY <1>14, EmptySeq
      <4> QED
        BY <2>1, <3>2, <4>1
    <3> QED
      BY <3>1, <3>2
  <2> QED
    BY <2>1 DEF CapLate
<1>19. CapHeld'
  <2> DEFINE G == [d \in CA!Capturer |-> IF d = c THEN D ELSE F[d]]
  <2>1. ASSUME NEW d \in CA!Capturer
        PROVE  Past(G[d], ca_stream'[d], ca_frontier'[d], CA!Seen(d)')
    <3>1. CASE d # c
      <4>1. CA!Seen(d)' = CA!Seen(d)
        BY <1>13, <3>1 DEF CA!Seen
      <4>2. G[d] = F[d] /\ ca_stream'[d] = ca_stream[d] /\ ca_frontier'[d] = ca_frontier[d]
        BY <1>1, <1>13, <3>1
      <4> QED
        BY <1>6, <4>1, <4>2
    <3>2. CASE d = c
      <4>1. CA!Seen(c)' = CA!Zero
        BY <1>14 DEF CA!Seen
      <4>2. G[c] = D /\ ca_frontier'[c] = ca_frontier[c]
        BY <1>1
      <4> QED
        BY <1>10, <1>12, <3>2, <4>1, <4>2
    <3> QED
      BY <3>1, <3>2
  <2>2. \A d \in CA!Capturer : G[d][0] = F[d][0]
    BY <1>12
  <2> HIDE DEF G
  <2>3. \A t \in Chain : ca_held'[t] + CA!Start'[t]
          = CA!Total([d \in CA!Capturer |-> CA!Count(G[d][0], t)])
    <3>1. CA!Start' = CA!Start
      BY <1>1 DEF CA!Start
    <3>2. ASSUME NEW t \in Chain
          PROVE  [d \in CA!Capturer |-> CA!Count(G[d][0], t)]
                   = [d \in CA!Capturer |-> CA!Count(F[d][0], t)]
      BY <2>2
    <3>3. ca_held' = ca_held
      BY <1>1
    <3> QED
      BY <1>6, <3>1, <3>2, <3>3
  <2> QED
    BY <2>1, <2>3 DEF CapHeld
<1>20. CapFirst'
  BY <1>1 DEF CapInv, CapFirst
<1> QED
  BY <1>15, <1>16, <1>17, <1>18, <1>19, <1>20 DEF CapInv

\* What a reader holds of whole events it decodes, and reads no more than there is.
LEMMA Quotient ==
  ASSUME NEW P \in Nat \ {0}, NEW b \in Nat, NEW L \in Nat, b <= L * P
  PROVE  b \div P \in 0 .. L /\ (b \div P) * P \in 0 .. b
<1>1. b \div P \in Nat /\ b = P * (b \div P) + (b % P) /\ b % P \in Nat
  BY SMT
<1>2. PICK n \in Nat : n = b \div P
  BY <1>1
<1>3. n * P \in Nat /\ n * P <= b
  BY <1>1, <1>2
<1>4. n <= L
  <2>1. SUFFICES ASSUME L + 1 <= n PROVE FALSE
    BY <1>2
  <2>2. (L + 1) * P <= n * P
    BY <2>1, CapMore
  <2>3. (L + 1) * P = L * P + P /\ L * P \in Nat
    BY SMT
  <2> QED
    BY <1>3, <2>2, <2>3
<1> QED
  BY <1>2, <1>3, <1>4

LEMMA CapNext ==
  ASSUME CA!SizeAssumption, CapTypes, CapBytes, NEW c \in CA!Capturer
  PROVE  \E k \in 0 .. Len(ca_stream[c]) :
           /\ CA!Next_(c) = SubSeq(ca_stream[c], 1, k) /\ Len(CA!Next_(c)) = k
           /\ \A r \in CA!MayRead(c) :
                CA!Rest(c) + r \in Nat /\ CA!Rest(c) + r <= (Len(ca_stream[c]) - k) * Parts
<1>1. PICK L \in Nat : L = Len(ca_stream[c])
  BY DEF CapTypes
<1>2. PICK b \in Nat : b = ca_buff1[c]
  BY DEF CapTypes
<1>3. b <= L * Parts /\ Parts \in Nat \ {0} /\ ca_stream[c] \in Seq(CaptureEvent)
  BY <1>1, <1>2 DEF CapBytes, CA!SizeAssumption, CapTypes
<1>4. L * Parts \in Nat
  BY <1>3
<1>5. \A k \in 0 .. L : Len(SubSeq(ca_stream[c], 1, k)) = k
  BY <1>1, <1>3
<1>6. CASE ca_medium = "link"
  <2>1. CA!Next_(c) = ca_stream[c] /\ CA!MayRead(c) = {0} /\ CA!Rest(c) = 0
    BY <1>6 DEF CA!Next_, CA!MayRead, CA!Rest
  <2>2. SubSeq(ca_stream[c], 1, L) = ca_stream[c]
    BY <1>1, <1>3
  <2>3. L \in 0 .. L /\ L - L = 0 /\ 0 * Parts = 0
    BY <1>3
  <2> QED
    BY <1>1, <2>1, <2>2, <2>3
<1>7. CASE ca_medium # "link"
  <2>1. PICK k \in 0 .. L : k = b \div Parts /\ k * Parts \in 0 .. b
    BY <1>3, Quotient
  <2>2. /\ CA!Next_(c) = SubSeq(ca_stream[c], 1, k)
        /\ CA!MayRead(c) = 0 .. L * Parts - b
        /\ CA!Rest(c) = b - k * Parts
    BY <1>1, <1>2, <1>7, <2>1 DEF CA!Next_, CA!MayRead, CA!Rest, CA!Decodable
  <2>3. (L - k) * Parts = L * Parts - k * Parts
    BY <1>3
  <2>4. ASSUME NEW r \in CA!MayRead(c)
        PROVE  CA!Rest(c) + r \in Nat /\ CA!Rest(c) + r <= (Len(ca_stream[c]) - k) * Parts
    BY <1>1, <1>4, <2>1, <2>2, <2>3, SMTT(30)
  <2> QED
    BY <1>1, <1>5, <2>2, <2>4
<1> QED
  BY <1>6, <1>7

LEMMA CapReplays ==
  ASSUME CA!TimeAssumption, CA!SizeAssumption, CapInv, CA!Replay
  PROVE  CapInv'
<1>1. CapTypes /\ CapBytes /\ Instances \in Nat
  BY DEF CapInv, CA!SizeAssumption
<1>2. PICK r :
        /\ \A c \in CA!Capturer : r[c] \in CA!MayRead(c)
        /\ ca_started' = TRUE
        /\ ca_held' = [t \in Chain |-> ca_held[t] + CA!Start[t]
                         + CA!Total([c \in CA!Capturer |-> CA!ChangesAt(CA!Next_(c), t)])]
        /\ ca_replayed' = [c \in CA!Capturer |-> ca_replayed[c] \o CA!TimesOf(CA!Next_(c))]
        /\ ca_buff1' = [c \in CA!Capturer |-> CA!Rest(c) + r[c]]
        /\ ca_stream' = [c \in CA!Capturer |->
             SubSeq(ca_stream[c], Len(CA!Next_(c)) + 1, Len(ca_stream[c]))]
        /\ UNCHANGED <<ca_frontier, ca_changes, ca_queue, ca_sent, ca_captured>>
  BY Zenon DEF CA!Replay, CA!source
<1>3. PICK F :
        /\ \A d \in CA!Capturer : Past(F[d], ca_stream[d], ca_frontier[d], CA!Seen(d))
        /\ \A t \in Chain : ca_held[t] + CA!Start[t]
             = CA!Total([d \in CA!Capturer |-> CA!Count(F[d][0], t)])
  BY DEF CapInv, CapHeld
<1> DEFINE k(c) == Len(CA!Next_(c))
           G == [c \in CA!Capturer |-> [n \in 0 .. Len(ca_stream[c]) - k(c) |-> F[c][n + k(c)]]]
\* One stream.
<1>4. ASSUME NEW c \in CA!Capturer
      PROVE  /\ k(c) \in 0 .. Len(ca_stream[c])
             /\ CA!Rest(c) + r[c] \in Nat
             /\ CA!Rest(c) + r[c] <= (Len(ca_stream[c]) - k(c)) * Parts
             /\ CA!Next_(c) \in Seq(CaptureEvent) /\ ca_stream'[c] \in Seq(CaptureEvent)
             /\ Len(ca_stream'[c]) = Len(ca_stream[c]) - k(c)
             /\ ca_stream[c] = CA!Next_(c) \o ca_stream'[c]
             /\ Past(G[c], ca_stream'[c], ca_frontier[c], CA!Seen(c)) /\ G[c][0] = F[c][k(c)]
             /\ \A t \in Chain : CA!ChangesAt(CA!Next_(c), t)
                                   = CA!Count(F[c][k(c)], t) - CA!Count(F[c][0], t)
  <2>1. PICK j \in 0 .. Len(ca_stream[c]) :
          /\ CA!Next_(c) = SubSeq(ca_stream[c], 1, j) /\ Len(CA!Next_(c)) = j
          /\ \A x \in CA!MayRead(c) :
               CA!Rest(c) + x \in Nat /\ CA!Rest(c) + x <= (Len(ca_stream[c]) - j) * Parts
    BY <1>1, CapNext
  <2>2. ca_stream'[c] = SubSeq(ca_stream[c], j + 1, Len(ca_stream[c]))
    BY <1>2, <2>1
  <2> DEFINE A == F[c]
             s == ca_stream[c]
             X == ca_frontier[c]
             seen == CA!Seen(c)
             B == [n \in 0 .. Len(s) - j |-> A[n + j]]
  <2>3. s \in Seq(CaptureEvent) /\ Past(A, s, X, seen) /\ j \in 0 .. Len(s)
    BY <1>1, <1>3, <2>1 DEF CapTypes
  <2>4. G[c] = B
    BY <2>1
  <2>5. B \in [0 .. Len(s) - j -> SUBSET Chain] /\ \A n \in 0 .. Len(s) - j : B[n] = A[n + j]
    <3>1. \A n \in 0 .. Len(s) - j : n + j \in 0 .. Len(s)
      BY <2>3
    <3>2. A \in [0 .. Len(s) -> SUBSET Chain]
      BY <2>3 DEF Past
    <3> HIDE DEF A, s
    <3> QED
      BY <3>1, <3>2
  <2> HIDE DEF A, s, X, seen
  <2>9. /\ SubSeq(s, 1, j) \in Seq(CaptureEvent) /\ SubSeq(s, j + 1, Len(s)) \in Seq(CaptureEvent)
        /\ Len(SubSeq(s, j + 1, Len(s))) = Len(s) - j
        /\ s = SubSeq(s, 1, j) \o SubSeq(s, j + 1, Len(s))
    BY <2>3, TwoParts
  <2>6. /\ Past(B, SubSeq(s, j + 1, Len(s)), X, seen) /\ B[0] = A[j]
        /\ \A t \in Chain : CA!ChangesAt(SubSeq(s, 1, j), t) = CA!Count(A[j], t) - CA!Count(A[0], t)
    <3> HIDE DEF B
    <3> QED
      BY <2>3, <2>5, PastRead
  <2>7. k(c) = j
    BY <2>1
  <2>8. r[c] \in CA!MayRead(c)
    BY <1>2
  <2> HIDE DEF B, G, k
  <2> QED
    BY <2>1, <2>2, <2>4, <2>6, <2>7, <2>8, <2>9 DEF A, s, X, seen
<1> HIDE DEF G, k
<1>5. CapTypes'
  <2>1. ca_replayed' \in [CA!Capturer -> Seq(Chain)]
    <3>1. ASSUME NEW c \in CA!Capturer
          PROVE  ca_replayed[c] \o CA!TimesOf(CA!Next_(c)) \in Seq(Chain)
      <4>1. CA!TimesOf(CA!Next_(c)) \in Seq(Chain)
        BY <1>4, TimesType
      <4>2. ca_replayed[c] \in Seq(Chain)
        BY <1>1 DEF CapTypes
      <4> QED
        BY <4>1, <4>2, ConcatProperties
    <3> QED
      BY <1>2, <3>1
  <2>2. ca_buff1' \in [CA!Capturer -> Nat]
    BY <1>2, <1>4
  <2>3. ca_stream' \in [CA!Capturer -> Seq(CaptureEvent)]
    <3>1. ca_stream' = [c \in CA!Capturer |-> ca_stream'[c]]
      BY <1>2
    <3> QED
      BY <1>4, <3>1
  <2>4. ca_held' \in [Chain -> Int]
    <3>1. ASSUME NEW t \in Chain PROVE ca_held'[t] \in Int
      <4> DEFINE f == [c \in CA!Capturer |-> CA!ChangesAt(CA!Next_(c), t)]
      <4>1. f \in [CA!Capturer -> Int]
        <5>1. ASSUME NEW c \in CA!Capturer PROVE CA!ChangesAt(CA!Next_(c), t) \in Int
          BY <1>4 DEF CA!Count
        <5> QED
          BY <5>1
      <4>2. ca_held'[t] = ca_held[t] + CA!Start[t] + CA!Total(f)
        BY <1>2
      <4> HIDE DEF f
      <4>3. CA!Total(f) \in Int
        BY <1>1, <4>1, TotalInt
      <4>4. ca_held[t] \in Int /\ CA!Start[t] \in Int
        BY <1>1 DEF CapTypes, CA!Start, CA!Zero, CA!At
      <4> QED
        BY <4>2, <4>3, <4>4
    <3>2. ca_held' = [t \in Chain |-> ca_held'[t]]
      BY <1>2
    <3> QED
      BY <3>1, <3>2
  <2> QED
    BY <1>1, <1>2, <2>1, <2>2, <2>3, <2>4 DEF CapTypes
<1>6. CapBytes'
  BY <1>2, <1>4 DEF CapBytes
<1>7. CapOrder'
  <2>1. ASSUME NEW c \in CA!Capturer PROVE ca_replayed'[c] \o CA!Waiting(c)' = ca_sent'[c]
    <3> DEFINE p == ca_replayed[c]
               n == CA!TimesOf(CA!Next_(c))
               w == CA!TimesOf(ca_stream'[c])
               q == ca_queue[c]
    <3>1. /\ n \in Seq(Chain) /\ w \in Seq(Chain)
      BY <1>4, TimesType
    <3>2. p \in Seq(Chain) /\ q \in Seq(Chain)
      BY <1>1 DEF CapTypes
    <3>3. CA!TimesOf(ca_stream[c]) = n \o w
      BY <1>4, TimesConcat
    <3>4. p \o (CA!TimesOf(ca_stream[c]) \o q) = ca_sent[c]
      BY DEF CapInv, CapOrder, CA!Waiting
    <3>5. ca_replayed'[c] = p \o n /\ CA!Waiting(c)' = w \o q /\ ca_sent'[c] = ca_sent[c]
      BY <1>2 DEF CA!Waiting
    <3> HIDE DEF p, n, w, q
    <3>6. (p \o n) \o (w \o q) = p \o (n \o (w \o q))
      <4>1. w \o q \in Seq(Chain)
        BY <3>1, <3>2, ConcatProperties
      <4> DEFINE x == w \o q
      <4>2. x \in Seq(Chain)
        BY <4>1
      <4> HIDE DEF x
      <4>3. p \in Seq(Chain) /\ n \in Seq(Chain)
        BY <3>1, <3>2
      <4>4. (p \o n) \o x = p \o (n \o x)
        BY <4>2, <4>3, ConcatAssociative, SMTT(30)
      <4> QED
        BY <4>4 DEF x
    <3>7. n \o (w \o q) = (n \o w) \o q
      BY <3>1, <3>2, ConcatAssociative, SMTT(30)
    <3> QED
      BY <3>3, <3>4, <3>5, <3>6, <3>7, Zenon
  <2> QED
    BY <2>1 DEF CapOrder
<1>8. CapLate'
  BY <1>2 DEF CapInv, CapLate
<1>9. CapHeld'
  <2>1. ASSUME NEW c \in CA!Capturer
        PROVE  Past(G[c], ca_stream'[c], ca_frontier'[c], CA!Seen(c)')
    <3>1. CA!Seen(c)' = CA!Seen(c) /\ ca_frontier' = ca_frontier
      BY <1>2 DEF CA!Seen
    <3> QED
      BY <1>4, <3>1
  <2>2. ASSUME NEW t \in Chain
        PROVE  ca_held'[t] + CA!Start'[t] = CA!Total([c \in CA!Capturer |-> CA!Count(G[c][0], t)])
    <3> DEFINE f == [c \in CA!Capturer |-> CA!Count(F[c][0], t)]
               h == [c \in CA!Capturer |-> CA!ChangesAt(CA!Next_(c), t)]
               g == [c \in CA!Capturer |-> CA!Count(G[c][0], t)]
    <3>1. ASSUME NEW c \in CA!Capturer
          PROVE  f[c] \in Int /\ h[c] \in Int /\ g[c] \in Int /\ g[c] = f[c] + h[c]
      <4>1. CA!Count(F[c][0], t) \in Int /\ CA!Count(F[c][k(c)], t) \in Int
        BY DEF CA!Count
      <4>2. h[c] = CA!Count(F[c][k(c)], t) - CA!Count(F[c][0], t)
        BY <1>4
      <4>3. g[c] = CA!Count(F[c][k(c)], t) /\ f[c] = CA!Count(F[c][0], t)
        BY <1>4
      <4> HIDE DEF f, g, h
      <4> QED
        BY <4>1, <4>2, <4>3
    <3>2. f \in [CA!Capturer -> Int] /\ h \in [CA!Capturer -> Int] /\ g \in [CA!Capturer -> Int]
      BY <3>1
    <3>3. ca_held[t] + CA!Start[t] = CA!Total(f)
      BY <1>3
    <3>4. ca_held'[t] = ca_held[t] + CA!Start[t] + CA!Total(h)
      BY <1>2
    <3>5. CA!Start'[t] = 0
      BY <1>2 DEF CA!Start, CA!Zero
    <3> HIDE DEF f, g, h
    <3>6. CA!Total(g) = CA!Total(f) + CA!Total(h)
      BY <1>1, <3>1, <3>2, TotalPlus
    <3>7. CA!Total(f) \in Int /\ CA!Total(h) \in Int
      BY <1>1, <3>2, TotalInt
    <3>8. ca_held'[t] + CA!Start'[t] = CA!Total(g)
      BY <3>3, <3>4, <3>5, <3>6, <3>7
    <3> QED
      BY <3>8 DEF g
  <2> QED
    BY <2>1, <2>2 DEF CapHeld
<1>10. CapFirst'
  BY <1>2 DEF CapFirst
<1> QED
  BY <1>5, <1>6, <1>7, <1>8, <1>9, <1>10 DEF CapInv

LEMMA CapKept ==
  ASSUME CA!TimeAssumption, CA!SizeAssumption, CapInv, [CA!Next]_ca_vars PROVE CapInv'
<1>1. ASSUME CA!Next PROVE CapInv'
  BY <1>1, CapSends, CapAdvances, CapCaptures, CapReplays DEF CA!Next
<1>2. ASSUME UNCHANGED ca_vars PROVE CapInv'
  <2>1. UNCHANGED <<ca_frontier, ca_changes, ca_queue, ca_sent, ca_captured, ca_stream,
                    ca_buff1, ca_started, ca_held, ca_replayed>>
    BY <1>2 DEF ca_vars
  <2>2. CapTypes' /\ CapBytes' /\ CapFirst'
    BY <2>1 DEF CapInv, CapTypes, CapBytes, CapFirst
  <2>3. CapOrder' /\ CapLate'
    BY <2>1 DEF CapInv, CapOrder, CapLate, CA!Waiting
  <2>4. CapHeld'
    BY <2>1 DEF CapInv, CapHeld, CA!Seen, CA!Start
  <2> QED
    BY <2>2, <2>3, <2>4 DEF CapInv
<1> QED
  BY <1>1, <1>2

\* What may still come is after a capability: each stream's frontier, where replay has come
\* to, has a time before it, and holds there cannot be made up for by other streams.
LEMMA SoundEarly ==
  ASSUME CA!TimeAssumption, CA!SizeAssumption, CapInv PROVE CA!ReplayNeverEarly
<1>1. CapTypes /\ Instances \in Nat
  BY DEF CapInv, CA!SizeAssumption
<1>2. PICK F :
        /\ \A d \in CA!Capturer : Past(F[d], ca_stream[d], ca_frontier[d], CA!Seen(d))
        /\ \A t \in Chain : ca_held[t] + CA!Start[t]
             = CA!Total([d \in CA!Capturer |-> CA!Count(F[d][0], t)])
  BY DEF CapInv, CapHeld
<1>3. SUFFICES ASSUME NEW c \in CA!Capturer,
                      NEW t, t \in {CA!Waiting(c)[k] : k \in DOMAIN CA!Waiting(c)} \cup ca_frontier[c]
               PROVE  \E s \in Chain : ca_held[s] > 0 /\ Leq(s, t)
  BY Zenon DEF CA!ReplayNeverEarly
<1> DEFINE r == ca_stream[c]
           q == ca_queue[c]
           X == ca_frontier[c]
           A == F[c]
           seen == CA!Seen(c)
           w == CA!TimesOf(r)
<1>4. /\ r \in Seq(CaptureEvent) /\ q \in Seq(Chain) /\ X \in SUBSET Chain
      /\ Past(A, r, X, seen)
      /\ \A k \in 1 .. Len(q) : \E x \in X : Leq(x, q[k])
  BY <1>1, <1>2 DEF CapTypes, CapInv, CapLate
<1>5. CA!Waiting(c) = w \o q
  BY DEF CA!Waiting
<1>6. t \in {CA!Waiting(c)[k] : k \in DOMAIN CA!Waiting(c)} \cup X
  BY <1>3
<1> HIDE DEF r, q, X, A, seen
<1>7. /\ Follows(A[0], X)
      /\ \A n \in 1 .. Len(r) : r[n].kind = "messages" => \E x \in A[0] : Leq(x, r[n].time)
  BY <1>4, PastEarly
<1>8. w \in Seq(Chain)
  BY <1>4, TimesType
<1>9. \A k \in 1 .. Len(w) : \E n \in 1 .. Len(r) : r[n].kind = "messages" /\ r[n].time = w[k]
  BY <1>4, TimesFrom
<1> HIDE DEF w
<1>10. A[0] \in SUBSET Chain
  <2>1. Len(r) \in Nat
    BY <1>4
  <2>2. 0 \in 0 .. Len(r)
    BY <2>1
  <2> QED
    BY <1>4, <2>2 DEF Past
<1>11. t \in Chain /\ \E x \in A[0] : Leq(x, t)
  <2>1. CASE t \in X
    BY <1>4, <1>7, <2>1 DEF Follows
  <2>2. CASE \E k \in DOMAIN (w \o q) : t = (w \o q)[k]
    <3>1. PICK k \in DOMAIN (w \o q) : t = (w \o q)[k]
      BY <2>2
    <3>2. /\ w \o q \in Seq(Chain) /\ Len(w \o q) = Len(w) + Len(q)
          /\ \A i \in 1 .. Len(w) + Len(q) : (w \o q)[i] = IF i <= Len(w) THEN w[i] ELSE q[i - Len(w)]
      BY <1>4, <1>8, ConcatProperties
    <3>3. k \in 1 .. Len(w) + Len(q)
      BY <3>1, <3>2, LenProperties
    <3>4. Len(w) \in Nat /\ Len(q) \in Nat
      BY <1>4, <1>8
    <3>5. CASE k <= Len(w)
      <4>1. k \in 1 .. Len(w) /\ t = w[k]
        BY <3>1, <3>2, <3>3, <3>4, <3>5
      <4>2. w[k] \in Chain
        BY <1>8, <4>1
      <4>3. PICK n \in 1 .. Len(r) : r[n].kind = "messages" /\ r[n].time = w[k]
        BY <1>9, <4>1
      <4> QED
        BY <1>7, <4>1, <4>2, <4>3
    <3>6. CASE ~(k <= Len(w))
      <4>1. k - Len(w) \in 1 .. Len(q) /\ t = q[k - Len(w)]
        BY <3>1, <3>2, <3>3, <3>4, <3>6
      <4>2. t \in Chain
        BY <1>4, <4>1
      <4>3. PICK x \in X : Leq(x, t)
        BY <1>4, <4>1
      <4>4. PICK y \in A[0] : Leq(y, x)
        BY <1>7 DEF Follows
      <4>5. x \in Chain /\ y \in Chain
        BY <1>4, <1>10
      <4> QED
        BY <4>2, <4>3, <4>4, <4>5, ChainOrder
    <3> QED
      BY <3>5, <3>6
  <2> QED
    BY <1>5, <1>6, <2>1, <2>2
<1>12. CASE ~ca_started
  <2>1. ca_held[Origin] = 1
    BY <1>12, ChainOrder DEF CapInv, CapFirst, CA!At
  <2> QED
    BY <1>11, <2>1, ChainOrder
<1>13. CASE ca_started
  <2>1. PICK x \in A[0] : Leq(x, t)
    BY <1>11
  <2>2. x \in Chain
    BY <1>10
  <2> DEFINE f == [d \in CA!Capturer |-> CA!Count(F[d][0], x)]
  <2>3. f \in [CA!Capturer -> Nat] /\ f[c] = 1
    BY <2>1 DEF CA!Count, A
  <2>4. ca_held[x] + CA!Start[x] = CA!Total(f)
    BY <1>2, <2>2
  <2>5. CA!Start[x] = 0 /\ ca_held[x] \in Int
    BY <1>1, <1>13, <2>2 DEF CA!Start, CA!Zero, CapTypes
  <2> HIDE DEF f
  <2>6. CA!Total(f) >= f[c]
    BY <1>1, <2>3, TotalAtLeast
  <2>7. CA!Total(f) \in Int
    <3>1. f \in [CA!Capturer -> Int]
      BY <2>3
    <3> QED
      BY <1>1, <3>1, TotalInt
  <2>8. ca_held[x] > 0
    BY <2>3, <2>4, <2>5, <2>6, <2>7
  <2> QED
    BY <2>1, <2>2, <2>8
<1> QED
  BY <1>12, <1>13

LEMMA SoundComplete ==
  ASSUME CA!TimeAssumption, CA!SizeAssumption, CapInv PROVE CA!ReplayComplete
<1>1. CapTypes /\ Instances \in Nat
  BY DEF CapInv, CA!SizeAssumption
<1>2. PICK F :
        /\ \A d \in CA!Capturer : Past(F[d], ca_stream[d], ca_frontier[d], CA!Seen(d))
        /\ \A t \in Chain : ca_held[t] + CA!Start[t]
             = CA!Total([d \in CA!Capturer |-> CA!Count(F[d][0], t)])
  BY DEF CapInv, CapHeld
<1>3. SUFFICES ASSUME \A c \in CA!Capturer :
                        /\ ca_frontier[c] = {} /\ ca_changes[c] = CA!Zero /\ ca_captured[c]
                        /\ ca_queue[c] = <<>> /\ ca_stream[c] = <<>>,
                      ca_started
               PROVE  ca_replayed = ca_sent /\ ca_held = CA!Zero
  BY Zenon DEF CA!ReplayComplete
<1>4. ca_replayed = ca_sent
  <2>1. ASSUME NEW c \in CA!Capturer PROVE ca_replayed[c] = ca_sent[c]
    <3>1. ca_replayed[c] \o (CA!TimesOf(<<>>) \o <<>>) = ca_sent[c]
      BY <1>3 DEF CapInv, CapOrder, CA!Waiting
    <3>2. <<>> \o <<>> = <<>>
      BY EmptySeq, SeqFacts
    <3>3. ca_replayed[c] \o <<>> = ca_replayed[c]
      BY <1>1, SeqFacts DEF CapTypes
    <3> QED
      BY <3>1, <3>2, <3>3, TimesEmpty, Zenon
  <2> QED
    BY <1>1, <2>1 DEF CapTypes
<1>5. ASSUME NEW t \in Chain PROVE ca_held[t] = 0
  <2> DEFINE f == [d \in CA!Capturer |-> CA!Count(F[d][0], t)]
  <2>1. ASSUME NEW d \in CA!Capturer PROVE f[d] = 0
    <3>1. Past(F[d], <<>>, {}, CA!Zero)
      <4>1. CA!Seen(d) = CA!Zero
        BY <1>3 DEF CA!Seen
      <4> QED
        BY <1>2, <1>3, <4>1
    <3>2. Len(<<>>) = 0
      BY EmptySeq
    <3>3. CA!Zero[t] = CA!Count({}, t) - CA!Count(F[d][0], t)
      BY <3>1, <3>2 DEF Past
    <3>4. CA!Zero[t] = 0 /\ CA!Count({}, t) = 0 /\ CA!Count(F[d][0], t) \in Int
      BY DEF CA!Zero, CA!Count
    <3>5. CA!Count(F[d][0], t) = 0
      BY <3>3, <3>4
    <3> QED
      BY <3>5
  <2>2. f \in [CA!Capturer -> Int]
    BY DEF CA!Count
  <2>3. ca_held[t] + CA!Start[t] = CA!Total(f)
    BY <1>2
  <2> HIDE DEF f
  <2>4. CA!Total(f) = Instances * 0
    BY <1>1, <2>1, <2>2, TotalSame
  <2>5. CA!Start[t] = 0 /\ ca_held[t] \in Int
    BY <1>1, <1>3 DEF CA!Start, CA!Zero, CapTypes
  <2> QED
    BY <1>1, <2>3, <2>4, <2>5
<1>6. ca_held = CA!Zero
  BY <1>1, <1>5 DEF CapTypes, CA!Zero
<1> QED
  BY <1>4, <1>6

LEMMA CaptureOnly ==
  /\ AnyInit => CA!Init
  /\ [AnyNext]_any_vars => [CA!Next]_ca_vars
<1>1. AnyInit => CA!Init
  BY DEF AnyInit
<1>2. ASSUME AnyNext PROVE [CA!Next]_ca_vars
  BY <1>2 DEF AnyNext
<1>3. ASSUME UNCHANGED any_vars PROVE UNCHANGED ca_vars
  BY <1>3 DEF any_vars
<1> QED
  BY <1>1, <1>2, <1>3

\* capture.rs, capture_into, event.rs, the event streams, and replay.rs, replay_core: however
\* the frontiers of any number of captured streams go on, whenever the operators are
\* scheduled, and in whatever parts the bytes of events come, replay holds a capability before
\* all that may still come, and when all has come it has sent each message and holds none.
THEOREM ReplaysFaithful ==
  ASSUME CA!TimeAssumption, CA!SizeAssumption PROVE AnySpec => []ReplayFaithful
<1>1. AnyInit => CapInv
  BY CaptureOnly, CapBegins
<1>2. CapInv /\ [AnyNext]_any_vars => CapInv'
  BY CaptureOnly, CapKept
<1>3. CapInv => ReplayFaithful
  BY SoundEarly, SoundComplete DEF ReplayFaithful
<1> QED
  BY <1>1, <1>2, <1>3, PTL DEF AnySpec

===============================================================================
