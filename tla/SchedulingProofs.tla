--------------------------- MODULE SchedulingProofs ---------------------------
(***************************************************************************)
(* A worker never sleeps on work, for any operators, channels, peers and   *)
(* wakers.  The invariant says of every kind of work, at every point of    *)
(* step_or_park, where it is known: what has been taken in since a point   *)
(* is in the activations, and whatever came later leaves a token or is in  *)
(* the hands of a thread that has yet to give one.                         *)
(***************************************************************************)
EXTENDS Scheduling, TLAPS

\* A peer that has pushed to channel c and not announced it.
Unannounced(c) == \E p \in Peer : pushing[p] = <<c, 2>>

\* A peer that has announced a channel and not buzzed.
Unbuzzed == \E p \in Peer : pushing[p] # Nowhere /\ pushing[p][2] = 3

\* A message of the built dataflow is announced, about to be, or its reader is listed.
MessageKnown ==
  built => \A c \in Channel : queue[c] > 0 =>
             \/ c \in events \cup counters
             \/ Unannounced(c)
             \/ TargetOf(c) \in fresh \cup clean \cup temp_active

\* Announcements and paths that came since the worker last looked leave a token.
AnnouncedKnown == counters # {} => pc = "idle" \/ token \/ Unbuzzed

PathsKnown == rx # {} => pc \in {"idle", "advance"} \/ token \/ waking # {}

\* What each point of the loop has established.
PointsKnown ==
  /\ pc # "schedule" => temp_active = {}
  /\ pc \in {"decide", "await", "parked", "step"} => fresh = {}
  /\ pc \notin {"decide", "step"} => clean = {}
  /\ pc \in {"await", "parked", "step", "schedule"} => built
  /\ pc \in {"await", "parked"} => (delayed # {} => timed)
  /\ pc = "parked" => events = {}
  /\ ~built => fresh = {} /\ clean = {} /\ rx = {} /\ delayed = {}

IInv ==
  /\ TypeOK
  /\ MessageKnown
  /\ AnnouncedKnown
  /\ PathsKnown
  /\ PointsKnown

-----------------------------------------------------------------------------
\* The invariant is enough: a parked worker has looked at everything, and what it could
\* not see is in the hands of a thread that will wake it.
LEMMA SleepsFollows == IInv => SleepsOnlyWhenIdle
<1> SUFFICES ASSUME IInv, pc = "parked", ~token
             PROVE  /\ events = {} /\ clean = {} /\ fresh = {}
                    /\ rx # {} => waking # {}
                    /\ \A c \in Channel : queue[c] > 0 => \E p \in Peer : pushing[p] # Nowhere
                    /\ delayed # {} => timed
  BY DEF SleepsOnlyWhenIdle
<1>1. events = {} /\ clean = {} /\ fresh = {} /\ temp_active = {} /\ built
  BY DEF IInv, PointsKnown
<1>2. delayed # {} => timed
  BY DEF IInv, PointsKnown
<1>3. rx # {} => waking # {}
  BY DEF IInv, PathsKnown
<1>4. ASSUME NEW c \in Channel, queue[c] > 0
      PROVE  \E p \in Peer : pushing[p] # Nowhere
  <2>1. c \in counters \/ Unannounced(c)
    BY <1>1, <1>4 DEF IInv, MessageKnown
  <2>2. CASE c \in counters
    BY <2>2 DEF IInv, AnnouncedKnown, Unbuzzed
  <2>3. CASE Unannounced(c)
    BY <2>3 DEF Unannounced, Nowhere
  <2> QED
    BY <2>1, <2>2, <2>3
<1> QED
  BY <1>1, <1>2, <1>3, <1>4

\* At the start nothing is pushed, announced or activated, and the worker is awake.
LEMMA InitIInv == Init => IInv
<1> SUFFICES ASSUME Init PROVE IInv
  OBVIOUS
<1>1. TypeOK
  BY DEF Init, TypeOK, Nowhere
<1> QED
  BY <1>1 DEF Init, IInv, MessageKnown, AnnouncedKnown, PathsKnown, PointsKnown

-----------------------------------------------------------------------------
(* The other threads *)

\* The three calls of ArcPusher::push: the message is queued before it is announced, and
\* announced before the token is given.
LEMMA ArcPushKeeps ==
  ASSUME IInv, NEW p \in Peer, NEW c \in RemoteChannel, ArcPush(p, c)
  PROVE  IInv'
<1> DEFINE at == IF pushing[p] = Nowhere THEN <<c, 1>> ELSE pushing[p]
<1> USE DEF IInv
<1>1. /\ pushing \in [Peer -> {Nowhere} \cup (RemoteChannel \X (1 .. 3))]
      /\ queue \in [Channel -> Nat] /\ RemoteChannel \subseteq Channel
  BY DEF TypeOK, PushOrder, Channel
<1>2. at \in RemoteChannel \X (1 .. 3) /\ at[1] = c /\ at = <<c, at[2]>>
  BY <1>1 DEF ArcPush
<1>3. /\ UNCHANGED <<events, rx, active, worker, waking>>
      /\ pushing' = [pushing EXCEPT ![p] = IF at[2] = 3 THEN Nowhere ELSE <<c, at[2] + 1>>]
      /\ queue' = IF at[2] = 1 THEN Fed({c}) ELSE queue
      /\ counters' = IF at[2] = 2 THEN counters \cup {c} ELSE counters
      /\ token' = (token \/ at[2] = 3)
  <2>1. /\ UNCHANGED <<events, rx, active, worker, waking>>
        /\ pushing' = [pushing EXCEPT ![p] = IF at[2] = 3 THEN Nowhere ELSE <<c, at[2] + 1>>]
        /\ queue' = IF PushOrder[at[2]] = "push" THEN Fed({c}) ELSE queue
        /\ counters' = IF PushOrder[at[2]] = "announce" THEN counters \cup {c} ELSE counters
        /\ token' = (token \/ PushOrder[at[2]] = "buzz")
    BY DEF ArcPush, PushOrder
  <2>2. \A k \in 1 .. 3 : /\ PushOrder[k] = "push" <=> k = 1
                          /\ PushOrder[k] = "announce" <=> k = 2
                          /\ PushOrder[k] = "buzz" <=> k = 3
    BY DEF PushOrder
  <2>3. at[2] \in 1 .. 3
    BY <1>2
  <2> HIDE DEF at
  <2> QED
    BY <2>1, <2>2, <2>3
<1>4. /\ queue' \in [Channel -> Nat] /\ token' \in BOOLEAN /\ counters' \subseteq RemoteChannel
      /\ pushing' \in [Peer -> {Nowhere} \cup (RemoteChannel \X (1 .. 3))]
      => TypeOK'
  BY <1>3 DEF TypeOK, active, worker, PushOrder
<1>5. PointsKnown' /\ (PathsKnown /\ (token => token') => PathsKnown')
  BY <1>3 DEF PointsKnown, PathsKnown, active, worker
<1>6. CASE at[2] = 1
  <2>1. /\ queue' = Fed({c}) /\ UNCHANGED <<counters, token>>
        /\ pushing[p] = Nowhere \/ pushing[p] = <<c, 1>>
        /\ pushing' = [pushing EXCEPT ![p] = <<c, 2>>]
    <3>1. pushing[p] = Nowhere \/ pushing[p] = <<c, 1>>
      BY <1>1, <1>2, <1>6
    <3>2. token \in BOOLEAN
      BY DEF TypeOK
    <3> HIDE DEF at
    <3>3. token' = (token \/ at[2] = 3) /\ at[2] = 1
      BY <1>3, <1>6
    <3>4. UNCHANGED token
      BY <3>2, <3>3
    <3> QED
      BY <1>3, <1>6, <3>1, <3>4
  <2>2. TypeOK'
    <3>1. queue' \in [Channel -> Nat]
      BY <1>1, <2>1 DEF Fed
    <3>2. pushing' \in [Peer -> {Nowhere} \cup (RemoteChannel \X (1 .. 3))]
      BY <1>1, <2>1
    <3> QED
      BY <1>4, <2>1, <3>1, <3>2 DEF TypeOK
  <2>3. Unannounced(c)'
    BY <1>1, <2>1 DEF Unannounced
  <2>4. \A d \in Channel : Unannounced(d) => Unannounced(d)'
    BY <1>1, <2>1 DEF Unannounced, Nowhere
  <2>5. MessageKnown'
    BY <1>1, <1>3, <2>1, <2>3, <2>4 DEF MessageKnown, Fed, active, worker
  <2>6. Unbuzzed => Unbuzzed'
    BY <1>1, <2>1 DEF Unbuzzed, Nowhere
  <2>7. AnnouncedKnown'
    BY <1>3, <2>1, <2>6 DEF AnnouncedKnown, worker
  <2> QED
    BY <1>5, <2>1, <2>2, <2>5, <2>7
<1>7. CASE at[2] = 2
  <2>1. /\ counters' = counters \cup {c} /\ UNCHANGED <<queue, token>>
        /\ pushing[p] = <<c, 2>>
        /\ pushing' = [pushing EXCEPT ![p] = <<c, 3>>]
    <3>1. pushing[p] = <<c, 2>>
      BY <1>1, <1>2, <1>7
    <3>2. token \in BOOLEAN
      BY DEF TypeOK
    <3> HIDE DEF at
    <3>3. token' = (token \/ at[2] = 3) /\ at[2] = 2
      BY <1>3, <1>7
    <3>4. UNCHANGED token
      BY <3>2, <3>3
    <3> QED
      BY <1>3, <1>7, <3>1, <3>4
  <2>2. TypeOK'
    <3>1. pushing' \in [Peer -> {Nowhere} \cup (RemoteChannel \X (1 .. 3))]
      BY <1>1, <2>1
    <3> QED
      BY <1>1, <1>4, <2>1, <3>1 DEF TypeOK
  <2>3. \A d \in Channel \ {c} : Unannounced(d) => Unannounced(d)'
    BY <1>1, <2>1 DEF Unannounced
  <2>4. MessageKnown'
    BY <1>3, <2>1, <2>3 DEF MessageKnown, active, worker
  <2>5. Unbuzzed'
    BY <1>1, <2>1 DEF Unbuzzed, Nowhere
  <2>6. AnnouncedKnown'
    BY <2>5 DEF AnnouncedKnown
  <2> QED
    BY <1>5, <2>1, <2>2, <2>4, <2>6
<1>8. CASE at[2] = 3
  <2>1. /\ token' = TRUE /\ UNCHANGED <<queue, counters>>
        /\ pushing[p] = <<c, 3>>
        /\ pushing' = [pushing EXCEPT ![p] = Nowhere]
    <3>1. pushing[p] = <<c, 3>>
      BY <1>1, <1>2, <1>8
    <3>2. token \in BOOLEAN
      BY DEF TypeOK
    <3> HIDE DEF at
    <3>3. token' = (token \/ at[2] = 3) /\ at[2] = 3
      BY <1>3, <1>8
    <3>4. token' = TRUE
      BY <3>2, <3>3
    <3> QED
      BY <1>3, <1>8, <3>1, <3>4
  <2>2. TypeOK'
    <3>1. pushing' \in [Peer -> {Nowhere} \cup (RemoteChannel \X (1 .. 3))]
      BY <1>1, <2>1
    <3> QED
      BY <1>1, <1>4, <2>1, <3>1 DEF TypeOK
  <2>3. \A d \in Channel : Unannounced(d) => Unannounced(d)'
    BY <1>1, <2>1 DEF Unannounced
  <2>4. MessageKnown'
    BY <1>3, <2>1, <2>3 DEF MessageKnown, active, worker
  <2>5. AnnouncedKnown' /\ PathsKnown'
    BY <2>1 DEF AnnouncedKnown, PathsKnown
  <2> QED
    BY <1>5, <2>2, <2>4, <2>5
<1> QED
  BY <1>2, <1>6, <1>7, <1>8

\* No other step touches what peers are pushing.
LEMMA PushingKept ==
  ASSUME pushing' = pushing
  PROVE  (\A c \in Channel : Unannounced(c)' <=> Unannounced(c)) /\ (Unbuzzed' <=> Unbuzzed)
BY DEF Unannounced, Unbuzzed

\* A SyncActivator sends its path before it unparks.
LEMMA WakersKeep ==
  ASSUME IInv, NEW a \in Waker, SyncActivate(a) \/ Unpark(a)
  PROVE  IInv'
<1> USE DEF IInv
<1>1. CASE SyncActivate(a)
  <2>1. TypeOK'
    <3>1. WakerTarget(a) \in Operator
      BY ShapeAssumption
    <3> QED
      BY <1>1, <3>1 DEF SyncActivate, TypeOK, active, worker
  <2>2. MessageKnown' /\ AnnouncedKnown'
    BY <1>1, PushingKept DEF SyncActivate, MessageKnown, AnnouncedKnown, active, worker
  <2>3. PathsKnown' /\ PointsKnown'
    BY <1>1 DEF SyncActivate, PathsKnown, PointsKnown, active, worker
  <2> QED
    BY <2>1, <2>2, <2>3
<1>2. CASE Unpark(a)
  <2>1. TypeOK'
    BY <1>2 DEF Unpark, TypeOK, inbox, active, worker
  <2>2. MessageKnown' /\ AnnouncedKnown'
    BY <1>2, PushingKept DEF Unpark, MessageKnown, AnnouncedKnown, inbox, active, worker
  <2>3. PathsKnown' /\ PointsKnown'
    BY <1>2 DEF Unpark, PathsKnown, PointsKnown, inbox, active, worker
  <2> QED
    BY <2>1, <2>2, <2>3
<1> QED
  BY <1>1, <1>2

-----------------------------------------------------------------------------
(* The program between steps *)

\* A dataflow that is built reads what its operators have been sent, and activates its
\* scope, which has yet to read.
LEMMA BuildKeeps ==
  ASSUME IInv, NEW fed \in SUBSET LocalChannel, Build(fed)
  PROVE  IInv'
<1> USE DEF IInv
<1>1. /\ pc = "idle" /\ ~built /\ built'
      /\ queue' = [c \in Channel |-> (IF c \in fed THEN 1 ELSE 0) +
                     (IF TargetOf(c) \in Operator THEN 0 ELSE queue[c])]
      /\ events' = events \cup Read(Operator) \cup fed
      /\ fresh' = fresh \cup Task
      /\ UNCHANGED <<counters, rx, clean, delayed, due, temp_active, pc, timed, token,
                     threads>>
  BY DEF Build, Drained
<1>2. TypeOK'
  <2>1. queue' \in [Channel -> Nat]
    BY <1>1 DEF TypeOK
  <2>2. Read(Operator) \subseteq Channel /\ fed \subseteq Channel
    BY DEF Read, Channel
  <2> QED
    BY <1>1, <2>1, <2>2 DEF TypeOK, threads
<1>3. MessageKnown'
  <2> SUFFICES ASSUME NEW c \in Channel, queue'[c] > 0
               PROVE  c \in events' \/ TargetOf(c) \in fresh'
    BY DEF MessageKnown
  <2>1. TargetOf(c) \in Task
    BY ShapeAssumption
  <2> QED
    BY <1>1, <2>1
<1>4. AnnouncedKnown' /\ PathsKnown' /\ PointsKnown'
  BY <1>1 DEF AnnouncedKnown, PathsKnown, PointsKnown
<1> QED
  BY <1>2, <1>3, <1>4

\* Activations between steps are made where they will be presented.
LEMMA ActivateKeeps ==
  ASSUME IInv, NEW n \in Operator, Activate(n) \/ ActivateAfter(n) \/ Elapse(n)
  PROVE  IInv'
<1> USE DEF IInv
<1>1. /\ UNCHANGED <<inbox, clean, temp_active, worker, token, threads>>
      /\ fresh \subseteq fresh'
      /\ (pc = "idle" /\ built) \/ UNCHANGED <<fresh, delayed>>
  BY DEF Activate, ActivateAfter, Elapse
<1>2. TypeOK'
  <2>1. n \in Task
    BY DEF Task
  <2>2. fresh' \subseteq Task /\ delayed' \subseteq Operator /\ due' \subseteq delayed'
    BY <2>1 DEF TypeOK, Activate, ActivateAfter, Elapse
  <2> QED
    BY <1>1, <2>2 DEF TypeOK, inbox, worker, threads
<1>3. MessageKnown'
  BY <1>1, PushingKept DEF MessageKnown, inbox, worker, threads
<1>4. AnnouncedKnown' /\ PathsKnown'
  BY <1>1, PushingKept DEF AnnouncedKnown, PathsKnown, inbox, worker, threads
<1>5. PointsKnown'
  BY <1>1 DEF PointsKnown, inbox, worker
<1> QED
  BY <1>2, <1>3, <1>4, <1>5

-----------------------------------------------------------------------------
(* step_or_park *)

\* Announcements become activations.
LEMMA ReceiveKeeps == IInv /\ Receive => IInv'
<1> SUFFICES ASSUME IInv, Receive PROVE IInv'
  OBVIOUS
<1> USE DEF IInv
<1>1. /\ pc = "idle" /\ pc' = "advance" /\ counters' = {} /\ events' = {}
      /\ fresh' = fresh \cup {TargetOf(c) : c \in IF built THEN events \cup counters ELSE {}}
      /\ UNCHANGED <<queue, rx, clean, delayed, due, temp_active, built, timed, token,
                     threads>>
  BY DEF Receive
<1>2. TypeOK'
  <2>1. events \cup counters \subseteq Channel
    BY DEF TypeOK, Channel
  <2>2. fresh' \subseteq Task
    BY <1>1, <2>1, ShapeAssumption DEF TypeOK
  <2> QED
    BY <1>1, <2>2 DEF TypeOK, threads
<1>3. MessageKnown'
  BY <1>1, PushingKept DEF MessageKnown, threads
<1>4. AnnouncedKnown' /\ PathsKnown' /\ PointsKnown'
  BY <1>1 DEF AnnouncedKnown, PathsKnown, PointsKnown
<1> QED
  BY <1>2, <1>3, <1>4

\* What advance discards has been scheduled.
LEMMA AdvanceKeeps == IInv /\ Advance => IInv'
<1> SUFFICES ASSUME IInv, Advance PROVE IInv'
  OBVIOUS
<1> USE DEF IInv
<1>1. /\ pc = "advance" /\ clean = {} /\ pc' = "decide"
      /\ clean' = fresh \cup rx \cup due /\ fresh' = {} /\ rx' = {}
      /\ delayed' = delayed \ due /\ due' = {}
      /\ UNCHANGED <<queue, counters, events, temp_active, built, timed, token, threads>>
  BY DEF Advance, PointsKnown
<1>2. TypeOK'
  BY <1>1 DEF TypeOK, Task, threads
<1>3. MessageKnown'
  BY <1>1, PushingKept DEF MessageKnown, threads
<1>4. AnnouncedKnown' /\ PathsKnown'
  BY <1>1, PushingKept DEF AnnouncedKnown, PathsKnown, threads
<1>5. PointsKnown'
  BY <1>1 DEF PointsKnown, TypeOK
<1> QED
  BY <1>2, <1>3, <1>4, <1>5

\* A worker decides to park only with nothing presented, and then looks at its events.
LEMMA ParkingKeeps ==
  ASSUME IInv,
         \/ \E fed \in SUBSET LoggedChannel : DecideToPark(fed)
         \/ DecideToRun \/ AwaitEvents \/ Unparked
  PROVE  IInv'
<1> USE DEF IInv
<1>1. ASSUME NEW fed \in SUBSET LoggedChannel, DecideToPark(fed) PROVE IInv'
  <2>1. /\ pc = "decide" /\ pc' = "await" /\ built /\ clean = {} /\ due = {}
        /\ queue' = Fed(fed) /\ events' = events \cup fed
        /\ timed' \in IF delayed = {} THEN BOOLEAN ELSE {TRUE}
        /\ UNCHANGED <<counters, rx, active, built, token, threads>>
    BY <1>1 DEF DecideToPark, MaySleep
  <2>2. TypeOK'
    <3>1. queue' \in [Channel -> Nat]
      BY <2>1 DEF TypeOK, Fed
    <3>2. fed \subseteq Channel /\ timed' \in BOOLEAN
      BY <2>1, ShapeAssumption DEF Channel
    <3> QED
      BY <2>1, <3>1, <3>2 DEF TypeOK, active, threads
  <2>3. MessageKnown'
    BY <2>1, PushingKept DEF MessageKnown, Fed, active, threads
  <2>4. AnnouncedKnown' /\ PathsKnown'
    BY <2>1, PushingKept DEF AnnouncedKnown, PathsKnown, threads
  <2>5. PointsKnown'
    BY <2>1 DEF PointsKnown, active
  <2> QED
    BY <2>2, <2>3, <2>4, <2>5
<1>2. CASE DecideToRun
  <2>1. /\ pc = "decide" /\ pc' = (IF built /\ clean # {} THEN "step" ELSE "idle")
        /\ UNCHANGED <<inbox, active, built, timed, token, threads>>
    BY <1>2 DEF DecideToRun
  <2>2. TypeOK'
    BY <2>1 DEF TypeOK, inbox, active, threads
  <2>3. MessageKnown' /\ AnnouncedKnown' /\ PathsKnown'
    BY <2>1, PushingKept DEF MessageKnown, AnnouncedKnown, PathsKnown, inbox, active, threads
  <2>4. PointsKnown'
    BY <2>1 DEF PointsKnown, inbox, active
  <2> QED
    BY <2>2, <2>3, <2>4
<1>3. CASE AwaitEvents
  <2>1. /\ pc = "await" /\ pc' = (IF events = {} THEN "parked" ELSE "idle")
        /\ timed' = (timed /\ events = {})
        /\ UNCHANGED <<inbox, active, built, token, threads>>
    BY <1>3 DEF AwaitEvents
  <2>2. TypeOK'
    <3>1. timed' \in BOOLEAN
      BY <2>1 DEF TypeOK
    <3> QED
      BY <2>1, <3>1 DEF TypeOK, inbox, active, threads
  <2>3. MessageKnown' /\ AnnouncedKnown' /\ PathsKnown'
    BY <2>1, PushingKept DEF MessageKnown, AnnouncedKnown, PathsKnown, inbox, active, threads
  <2>4. PointsKnown'
    BY <2>1 DEF PointsKnown, inbox, active
  <2> QED
    BY <2>2, <2>3, <2>4
<1>4. CASE Unparked
  <2>1. /\ pc = "parked" /\ pc' = "idle" /\ timed' = FALSE /\ token' = FALSE
        /\ UNCHANGED <<inbox, active, built, threads>>
    BY <1>4 DEF Unparked
  <2>2. TypeOK'
    BY <2>1 DEF TypeOK, inbox, active, threads
  <2>3. MessageKnown'
    BY <2>1, PushingKept DEF MessageKnown, inbox, active, threads
  <2>4. AnnouncedKnown' /\ PathsKnown' /\ PointsKnown'
    BY <2>1 DEF AnnouncedKnown, PathsKnown, PointsKnown, inbox, active
  <2> QED
    BY <2>2, <2>3, <2>4
<1> QED
  BY <1>1, <1>2, <1>3, <1>4

\* The scope reads its channels; every operator presented is in the list.
LEMMA BeginScheduleKeeps ==
  ASSUME IInv, NEW moved \in SUBSET Operator, NEW since \in SUBSET Operator,
         BeginSchedule(moved, since)
  PROVE  IInv'
<1> USE DEF IInv
<1>1. /\ pc = "step" /\ pc' = "schedule" /\ temp_active = {} /\ clean' = {}
      /\ queue' = [c \in Channel |-> IF c \in Read({Scope}) THEN 0 ELSE queue[c]]
      /\ events' = events \cup Read({Scope})
      /\ temp_active' = (clean \cup moved \cup since) \ {Scope}
      /\ UNCHANGED <<counters, rx, fresh, delayed, due, built, timed, token, threads>>
  BY DEF BeginSchedule, Drained, PointsKnown
<1>2. TypeOK'
  <2>1. queue' \in [Channel -> Nat]
    BY <1>1 DEF TypeOK
  <2>2. Read({Scope}) \subseteq Channel
    BY DEF Read
  <2>3. temp_active' \subseteq Operator
    BY <1>1 DEF TypeOK, Task
  <2> QED
    BY <1>1, <2>1, <2>2, <2>3 DEF TypeOK, threads
<1>3. MessageKnown'
  <2> SUFFICES ASSUME built', NEW c \in Channel, queue'[c] > 0
               PROVE  \/ c \in events' \cup counters'
                      \/ Unannounced(c)'
                      \/ TargetOf(c) \in fresh' \cup clean' \cup temp_active'
    BY DEF MessageKnown
  <2>1. c \notin Read({Scope}) /\ queue'[c] = queue[c]
    BY <1>1
  <2>2. TargetOf(c) # Scope
    BY <2>1 DEF Read
  <2> QED
    BY <1>1, <2>1, <2>2, PushingKept DEF MessageKnown, threads
<1>4. AnnouncedKnown' /\ PathsKnown'
  BY <1>1, PushingKept DEF AnnouncedKnown, PathsKnown, threads
<1>5. PointsKnown'
  BY <1>1 DEF PointsKnown
<1> QED
  BY <1>2, <1>3, <1>4, <1>5

\* An operator reads its channels and drops out of the list; what it feeds has events.
LEMMA RunOperatorKeeps ==
  ASSUME IInv, NEW n \in Operator, NEW fed \in SUBSET LocalChannel, NEW again \in BOOLEAN,
         RunOperator(n, fed, again)
  PROVE  IInv'
<1> USE DEF IInv
<1>1. /\ pc = "schedule" /\ n \in temp_active /\ \A m \in temp_active : n <= m
      /\ queue' = [c \in Channel |-> (IF c \in fed THEN 1 ELSE 0) +
                                     (IF TargetOf(c) = n THEN 0 ELSE queue[c])]
      /\ events' = events \cup Read({n}) \cup fed
      /\ temp_active' = {m \in temp_active \cup {TargetOf(c) : c \in fed} : m > n}
      /\ fresh' = IF again THEN fresh \cup {n} ELSE fresh
      /\ UNCHANGED <<counters, rx, clean, delayed, due, worker, token, threads>>
  BY DEF RunOperator, Drained
<1>2. fed \subseteq Channel /\ n \in Nat \ {0} /\ Operator \subseteq Nat
  BY ShapeAssumption DEF Channel
<1>3. TypeOK'
  <2>1. queue' \in [Channel -> Nat]
    BY <1>1 DEF TypeOK
  <2>2. Read({n}) \subseteq Channel
    BY DEF Read
  <2>3. temp_active' \subseteq Operator
    <3> SUFFICES ASSUME NEW m \in temp_active \cup {TargetOf(c) : c \in fed}, m > n
                 PROVE  m \in Operator
      BY <1>1
    <3>1. m \in Operator \/ m = 0
      BY <1>2, ShapeAssumption DEF TypeOK, Task, Scope
    <3> QED
      BY <1>2, <3>1
  <2>4. fresh' \subseteq Task
    BY <1>1 DEF TypeOK, Task
  <2> QED
    BY <1>1, <1>2, <2>1, <2>2, <2>3, <2>4 DEF TypeOK, worker, threads
<1>4. MessageKnown'
  <2> SUFFICES ASSUME built', NEW c \in Channel, queue'[c] > 0, c \notin fed
               PROVE  \/ c \in events' \cup counters'
                      \/ Unannounced(c)'
                      \/ TargetOf(c) \in fresh' \cup clean' \cup temp_active'
    BY <1>1 DEF MessageKnown
  <2>1. TargetOf(c) # n /\ queue'[c] = queue[c]
    BY <1>1 DEF TypeOK
  <2>2. ASSUME TargetOf(c) \in temp_active PROVE TargetOf(c) \in temp_active'
    <3> DEFINE m == TargetOf(c)
    <3>1. m \in Nat /\ n \in Nat /\ n <= m /\ m # n
      BY <1>1, <1>2, <2>1, <2>2 DEF TypeOK
    <3>2. m > n
      BY <3>1
    <3> QED
      BY <1>1, <2>2, <3>2
  <2> QED
    BY <1>1, <2>1, <2>2, PushingKept DEF MessageKnown, worker, threads
<1>5. AnnouncedKnown' /\ PathsKnown'
  BY <1>1, PushingKept DEF AnnouncedKnown, PathsKnown, worker, threads
<1>6. PointsKnown'
  BY <1>1 DEF PointsKnown, worker
<1> QED
  BY <1>3, <1>4, <1>5, <1>6

\* The end of a schedule call.
LEMMA EndScheduleKeeps ==
  ASSUME IInv, NEW again \in BOOLEAN, EndSchedule(again)
  PROVE  IInv'
<1> USE DEF IInv
<1>1. /\ pc = "schedule" /\ pc' = "idle" /\ temp_active = {}
      /\ fresh' = IF again THEN fresh \cup {Scope} ELSE fresh
      /\ UNCHANGED <<inbox, clean, delayed, due, temp_active, built, timed, token, threads>>
  BY DEF EndSchedule
<1>2. TypeOK'
  BY <1>1 DEF TypeOK, Task, inbox, threads
<1>3. MessageKnown'
  BY <1>1, PushingKept DEF MessageKnown, inbox, threads
<1>4. AnnouncedKnown' /\ PathsKnown' /\ PointsKnown'
  BY <1>1, PushingKept DEF AnnouncedKnown, PathsKnown, PointsKnown, inbox, threads
<1> QED
  BY <1>2, <1>3, <1>4

-----------------------------------------------------------------------------
\* Every step of every thread keeps the invariant.
LEMMA NextIInv == IInv /\ [Next]_vars => IInv'
<1> SUFFICES ASSUME IInv, [Next]_vars PROVE IInv'
  OBVIOUS
<1>1. CASE WorkerStep
  BY <1>1, ReceiveKeeps, AdvanceKeeps, ParkingKeeps, BeginScheduleKeeps, RunOperatorKeeps,
     EndScheduleKeeps DEF WorkerStep
<1>2. CASE \E fed \in SUBSET LocalChannel : Build(fed)
  BY <1>2, BuildKeeps
<1>3. CASE \E n \in Operator : Activate(n) \/ ActivateAfter(n) \/ Elapse(n)
  BY <1>3, ActivateKeeps
<1>4. CASE \E p \in Peer, c \in RemoteChannel : ArcPush(p, c)
  BY <1>4, ArcPushKeeps
<1>5. CASE \E a \in Waker : SyncActivate(a) \/ Unpark(a)
  BY <1>5, WakersKeep
<1>6. CASE UNCHANGED vars
  <2>1. TypeOK'
    BY <1>6 DEF IInv, TypeOK, vars, inbox, active, worker, threads
  <2>2. MessageKnown' /\ AnnouncedKnown'
    BY <1>6, PushingKept DEF IInv, MessageKnown, AnnouncedKnown, vars, inbox, active,
                             worker, threads
  <2>3. PathsKnown' /\ PointsKnown'
    BY <1>6 DEF IInv, PathsKnown, PointsKnown, vars, inbox, active, worker, threads
  <2> QED
    BY <2>1, <2>2, <2>3 DEF IInv
<1> QED
  BY <1>1, <1>2, <1>3, <1>4, <1>5, <1>6 DEF Next

\* The inductive invariant holds in every reachable state.
THEOREM Invariance == Spec => []IInv
BY InitIInv, NextIInv, PTL DEF Spec

\* Type correctness, for every shape of dataflow and any number of threads.
THEOREM TypeCorrect == Spec => []TypeOK
<1>1. IInv => TypeOK
  BY DEF IInv
<1> QED
  BY <1>1, Invariance, PTL

\* No lost wakeup: whatever peers and wakers do between the worker's last look and its
\* park, it does not sleep on a message, an activation or a delayed activation.
THEOREM NeverSleepsOnWork == Spec => []SleepsOnlyWhenIdle
BY SleepsFollows, Invariance, PTL

=============================================================================
