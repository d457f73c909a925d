--------------------------- MODULE FpgaWrapperProofs ---------------------------
(***************************************************************************)
(* Ghosts are never scheduled, for any number of them, any number of       *)
(* times and whatever the device answers: a wrapper is the last of its     *)
(* ghosts, and a child before the one last scheduled is not revisited.     *)
(* And as long as the device answers at once, the counts that are reported *)
(* in their names are of what the device was given and keeps.              *)
(***************************************************************************)
EXTENDS FpgaWrapper, TLAPS, WellFoundedInduction

\* Children are scheduled in the order of their indexes, the wrapper's counts come out
\* while it is scheduled, and only they put ghosts on the list.
SchedulingTypes ==
  /\ cursor \in Int
  /\ temp_active \subseteq Child /\ stale \subseteq Ghost

IInv ==
  /\ SchedulingTypes
  /\ activations \cap Ghost = {} /\ activations \subseteq Child
  /\ calling => cursor = Wrapper
  /\ temp_active \cap Ghost # {} => cursor >= Wrapper
  /\ GhostsNeverRun

\* No ghost is on the list of children to schedule at the start.
LEMMA InitIInv == ASSUME Ghosts \in Nat \ {0} PROVE Init => IInv
BY DEF Init, IInv, SchedulingTypes, GhostsNeverRun, Child, Ghost, Wrapper, Inspect, Probe,
       Input, Idle

\* What the wrapper produces for is a child.
LEMMA FollowsChild ==
  ASSUME Ghosts \in Nat \ {0}, NEW g \in Ghost
  PROVE  Follows(g) \in Child
BY DEF Follows, Ghost, Window, Inspect, Child, Input, Probe, FirstGhost

\* One request to the device schedules nothing but the wrapper and those that read from it.
LEMMA ExchangeKeeps ==
  ASSUME Ghosts \in Nat \ {0}, IInv,
         \E survives, late \in BOOLEAN : ExchangeMessage(survives, late) \/ ExchangeNothing(late)
  PROVE  IInv'
<1>1. UNCHANGED <<stale, temp_active, cursor, calling>>
  BY DEF ExchangeMessage, ExchangeNothing
<1>2. activations' \subseteq activations \cup {Wrapper, Inspect}
  BY DEF ExchangeMessage, ExchangeNothing
<1>3. Wrapper \in Child \ Ghost /\ Inspect \in Child \ Ghost
  BY DEF Wrapper, Inspect, Child, Ghost, Input, Probe
<1> QED
  BY <1>1, <1>2, <1>3 DEF IInv, SchedulingTypes, GhostsNeverRun

\* The next child on the list is scheduled only if it is behind those that were: a ghost
\* on the list is before the wrapper.
LEMMA ActivateKeeps ==
  ASSUME Ghosts \in Nat \ {0}, IInv, ActivateChild
  PROVE  IInv'
<1>1. PICK n \in temp_active :
        /\ ~calling /\ temp_active' = temp_active \ {n}
        /\ Skip(n) \/ Operate(n) \/ CallWrapper(n) \/ ShowProbe(n)
  BY DEF ActivateChild
<1>2. n \in Child /\ n \in Nat
  BY DEF IInv, SchedulingTypes, Child, Input, Probe
<1>3. CASE Skip(n)
  BY <1>1, <1>2, <1>3 DEF Skip, counts, IInv, SchedulingTypes, GhostsNeverRun
<1>4. CASE ~Revisited(n)
  <2>1. n > cursor /\ n \notin Ghost
    BY <1>1, <1>2, <1>4 DEF Revisited, IInv, SchedulingTypes, Ghost, Wrapper
  <2>2. cursor' = n /\ stale' = stale
    BY <1>1, <1>2, <1>4, <2>1 DEF Skip, Operate, CallWrapper, ShowProbe, counts, IInv,
       SchedulingTypes, GhostsNeverRun
  <2>3. calling' => n = Wrapper
    BY <1>1, <1>2, <1>4 DEF Skip, Operate, CallWrapper, ShowProbe
  <2>4. activations' \subseteq activations \cup {Inspect}
    BY <1>1, <1>2, <1>4 DEF Skip, Operate, CallWrapper, ShowProbe
  <2>5. Inspect \in Child \ Ghost
    BY DEF Inspect, Child, Ghost, Input, Probe
  <2>6. Wrapper \in Int /\ cursor \in Int /\ (temp_active \cap Ghost # {} => cursor >= Wrapper)
    BY DEF Wrapper, IInv, SchedulingTypes
  <2>7. temp_active' \cap Ghost # {} => cursor' >= Wrapper
    BY <1>1, <1>2, <2>1, <2>2, <2>6
  <2>8. activations' \cap Ghost = {} /\ activations' \subseteq Child
    BY <2>4, <2>5 DEF IInv
  <2> QED
    BY <1>1, <1>2, <2>2, <2>3, <2>7, <2>8 DEF IInv, SchedulingTypes, GhostsNeverRun
<1> QED
  BY <1>1, <1>3, <1>4 DEF Operate, CallWrapper, ShowProbe

\* The program, the ends of a call, and what the wrapper reports.
LEMMA RestKeeps ==
  ASSUME Ghosts \in Nat \ {0}, IInv,
         Send \/ Close \/ BeginSchedule \/ EndSchedule \/ WrapperReturns \/ UNCHANGED vars
  PROVE  IInv'
<1>1. {Input, Wrapper, Probe} \subseteq Child \ Ghost
  BY DEF Wrapper, Child, Ghost, Input, Probe
<1>2. CASE Send \/ Close
  BY <1>1, <1>2 DEF Send, Close, counts, IInv, SchedulingTypes, GhostsNeverRun
<1>3. CASE BeginSchedule
  <2>1. \A moved : Notified(moved) \subseteq {Wrapper, Probe}
    BY DEF Notified
  <2>2. cursor = -1 /\ cursor' = 0 /\ activations' = {} /\ UNCHANGED <<stale, calling>>
        /\ temp_active' \cap Ghost = {} /\ temp_active' \subseteq Child
    BY <1>1, <1>3, <2>1 DEF BeginSchedule, Idle, IInv
  <2> QED
    BY <2>2 DEF IInv, SchedulingTypes, GhostsNeverRun, Wrapper
<1>4. CASE EndSchedule
  BY <1>4 DEF EndSchedule, Idle, counts, IInv, SchedulingTypes, GhostsNeverRun
<1>5. CASE WrapperReturns
  BY <1>5, FollowsChild DEF WrapperReturns, IInv, SchedulingTypes, GhostsNeverRun, Wrapper
<1>6. CASE UNCHANGED vars
  BY <1>6 DEF vars, counts, scheduling, IInv, SchedulingTypes, GhostsNeverRun
<1> QED
  BY <1>2, <1>3, <1>4, <1>5, <1>6

\* Every step keeps the inductive invariant.
LEMMA NextIInv == ASSUME Ghosts \in Nat \ {0} PROVE IInv /\ [Next]_vars => IInv'
BY ExchangeKeeps, ActivateKeeps, RestKeeps DEF Next, Step

\* subgraph.rs: ghosts get on the list of children once the pass has come to the wrapper,
\* and none has been scheduled.
THEOREM Invariance == ASSUME Ghosts \in Nat \ {0} PROVE Spec => []IInv
BY InitIInv, NextIInv, PTL DEF Spec

\* subgraph.rs: the wrapper puts ghosts on the list of children to schedule, and none is
\* ever scheduled, which would report its initial capabilities a second time.
THEOREM GhostsNeverScheduled == ASSUME Ghosts \in Nat \ {0} PROVE Spec => []GhostsNeverRun
<1>1. IInv => GhostsNeverRun
  BY DEF IInv
<1> QED
  BY <1>1, Invariance, PTL

-----------------------------------------------------------------------------
(* The counts are those of the device *)

\* A message is sent once and is either waiting or was given to the device, and as long
\* as the device answers at once, it keeps at most a window of it, or the results wait.
MessagesKnown ==
  /\ \A t \in queue \cup received : t < epoch
  /\ queue \cap received = {}
  /\ first # None => calling
  /\ first = NoMessage => queue = {}
  /\ first \in Epochs => first \in received
  /\ answers = <<>> =>
       /\ windows \subseteq received /\ outbox \subseteq received
       /\ windows \cap outbox = {} /\ first \notin outbox

CInv == TypeOK /\ MessagesKnown /\ CountsConserved

\* How many counts at p have been reported, wherever they are, and how many there are.
Reports(p) == known[p] + batch[p] + shared[p] + pending[p]

Holds(p) == IF p \in Held THEN 1 ELSE 0

Sizes == Ghosts \in Nat \ {0} /\ MaxTime \in Nat

-----------------------------------------------------------------------------
(* Definitions in the form the proofs use *)

LEMMA Indexes ==
  ASSUME Sizes
  PROVE  /\ Ghost \subseteq Nat \ {0, Input, Wrapper, Inspect, Probe} /\ Ghost \subseteq Child
         /\ {FirstGhost, Window} \subseteq Ghost
         /\ {Input, Wrapper, Inspect, Probe} \subseteq Child /\ Child \subseteq Nat \ {0}
         /\ Input # Inspect /\ Never \in Nat \ Epochs /\ Epochs \subseteq Nat
BY DEF Sizes, Ghost, Input, FirstGhost, Window, Wrapper, Inspect, Probe, Child, Never, Epochs

LEMMA PointstampMeans ==
  \A p \in Pointstamp :
    /\ p = <<p[1], p[2]>> /\ p[2] \in Epochs
    /\ p[1] = <<p[1][1], p[1][2]>> /\ p[1][1] \in Child /\ p[1][2] \in {"in", "out"}
BY DEF Pointstamp, Place

LEMMA HeldMeans ==
  \A p \in Pointstamp :
    p \in Held <=>
      \/ p[1] = <<Input, "out">> /\ p[2] = epoch
      \/ p[1] = <<FirstGhost, "in">> /\ p[2] \in queue
      \/ p[1] = <<Window, "out">> /\ p[2] \in windows
      \/ p[1] = <<Inspect, "in">> /\ p[2] \in outbox
<1> TAKE p \in Pointstamp
<1>1. p = <<p[1], p[2]>> /\ p[2] \in Epochs
  BY PointstampMeans
<1> QED
  BY <1>1 DEF Held

LEMMA CountsMean ==
  ASSUME TypeOK
  PROVE  CountsConserved <=>
           (answers = <<>> => \A p \in Pointstamp : Reports(p) = Holds(p))
<1>1. /\ known \in [Pointstamp -> Int] /\ batch \in [Pointstamp -> Int]
      /\ shared \in [Pointstamp -> Int] /\ pending \in [Pointstamp -> Int]
  BY DEF TypeOK
<1>2. Plus(Plus(known, batch), Plus(shared, pending)) = [p \in Pointstamp |-> Reports(p)]
  BY <1>1 DEF Plus, Reports
<1>3. Indicator(Held) = [p \in Pointstamp |-> Holds(p)]
  BY DEF Indicator, Holds
<1> QED
  BY <1>2, <1>3 DEF CountsConserved

LEMMA CountsMeanNext ==
  TypeOK' => (CountsConserved <=>
                (answers = <<>> => \A p \in Pointstamp : Reports(p) = Holds(p)))'
<1>1. TypeOK => (CountsConserved <=>
                (answers = <<>> => \A p \in Pointstamp : Reports(p) = Holds(p)))
  BY CountsMean
<1> QED
  BY <1>1, PTL

LEMMA HeldMeansNext ==
  \A p \in Pointstamp :
    p \in Held' <=>
      \/ p[1] = <<Input, "out">> /\ p[2] = epoch'
      \/ p[1] = <<FirstGhost, "in">> /\ p[2] \in queue'
      \/ p[1] = <<Window, "out">> /\ p[2] \in windows'
      \/ p[1] = <<Inspect, "in">> /\ p[2] \in outbox'
<1>1. (\A p \in Pointstamp :
    p \in Held <=>
      \/ p[1] = <<Input, "out">> /\ p[2] = epoch
      \/ p[1] = <<FirstGhost, "in">> /\ p[2] \in queue
      \/ p[1] = <<Window, "out">> /\ p[2] \in windows
      \/ p[1] = <<Inspect, "in">> /\ p[2] \in outbox)'
  BY HeldMeans, PTL
<1> QED
  BY <1>1

LEMMA LeastIn ==
  ASSUME NEW S, S \subseteq Nat, S # {}
  PROVE  Least(S) \in S /\ \A s \in S : Least(S) <= s
<1>1. PICK t \in S : \A s \in S : ~(<<s, t>> \in OpToRel(<, Nat))
  BY NatLessThanWellFounded, WFMin
<1>2. ASSUME NEW s \in S PROVE t <= s
  <2> SUFFICES ASSUME s < t PROVE FALSE
    OBVIOUS
  <2>1. s \in Nat /\ t \in Nat /\ s < t
    OBVIOUS
  <2>2. <<s, t>> \in OpToRel(<, Nat)
    BY <2>1 DEF OpToRel
  <2> QED
    BY <1>1, <2>2
<1> QED
  BY <1>2 DEF Least

LEMMA FrontierType ==
  ASSUME Sizes, NEW c, NEW n
  PROVE  Frontier(c, n) \in Epochs \cup {Never}
<1> DEFINE before == {t \in Epochs : \E p \in Pointstamp :
                         c[p] > 0 /\ p[2] = t /\ (p[1][1] < n \/ p[1] = <<n, "in">>)}
<1>1. before \subseteq Epochs /\ before \subseteq Nat
  BY Indexes
<1>2. Frontier(c, n) = IF before = {} THEN Never ELSE Least(before)
  BY DEF Frontier, Least
<1>3. before # {} => Least(before) \in before
  BY <1>1, LeastIn
<1> QED
  BY <1>1, <1>2, <1>3

LEMMA PlusInt ==
  ASSUME NEW a \in [Pointstamp -> Int], NEW b \in [Pointstamp -> Int]
  PROVE  /\ Plus(a, b) \in [Pointstamp -> Int]
         /\ \A p \in Pointstamp : Plus(a, b)[p] = a[p] + b[p]
BY DEF Plus

-----------------------------------------------------------------------------
(* What the device answers *)

LEMMA AnswerTypes ==
  ASSUME Sizes, NEW t \in Epochs, NEW survives \in BOOLEAN
  PROVE  Processed(t, survives) \in Answer /\ Emitted(t) \in Answer /\ Nothing \in Answer
BY DEF Sizes, Processed, Emitted, Nothing, Answer, NoCounts, Epochs

LEMMA ReportedType ==
  ASSUME Sizes, NEW a \in Answer, NEW time
  PROVE  Reported(a, time) \in [Pointstamp -> Int]
<1>1. /\ a.internal \in Int /\ \A g \in Ghost : a.consumed[g] \in Int
      /\ a.produced[Window] \in Int
  BY Indexes DEF Answer
<1> QED
  BY <1>1 DEF Reported

\* The answer to a message of time f, with a change of i at the last ghost.
Answering(f, survives, i) ==
  [data |-> FALSE, time |-> f,
   consumed |-> [g \in Ghost |-> IF g = FirstGhost \/ survives THEN 1 ELSE 0],
   produced |-> [g \in Ghost |-> IF g # Window /\ survives THEN 1 ELSE 0],
   internal |-> i]

\* A message is consumed by the first ghost and leaves nothing between the ghosts.
LEMMA ReportedAnswering ==
  ASSUME Sizes, NEW f \in Epochs, NEW m \in Epochs, NEW survives \in BOOLEAN, NEW i,
         NEW p \in Pointstamp
  PROVE  Reported(Answering(f, survives, i), m)[p] =
           CASE p = <<<<Window, "out">>, f>> -> i
             [] p = <<<<FirstGhost, "in">>, m>> -> -1
             [] OTHER -> 0
<1> DEFINE a == Answering(f, survives, i)
           n == p[1][1]
           new == IF \E g \in Ghost : Follows(g) = n /\ a.produced[g] = 1 THEN 1 ELSE 0
           old == IF n \in Ghost THEN a.consumed[n] ELSE 0
<1>1. /\ a.data = FALSE /\ a.time = f /\ a.internal = i
      /\ \A g \in Ghost : /\ a.consumed[g] = IF g = FirstGhost \/ survives THEN 1 ELSE 0
                          /\ a.produced[g] = IF g # Window /\ survives THEN 1 ELSE 0
  BY DEF Answering
<1> HIDE DEF a
<1>2. \A g \in Ghost : g # Window => Follows(g) = g + 1
  BY DEF Follows, Ghost, Input
<1>3. (\E g \in Ghost : Follows(g) = n /\ a.produced[g] = 1)
        <=> survives /\ n \in Ghost \ {FirstGhost}
  <2>1. ASSUME NEW g \in Ghost, Follows(g) = n, a.produced[g] = 1
        PROVE  survives /\ n \in Ghost \ {FirstGhost}
    <3>1. g # Window /\ survives
      BY <1>1, <2>1
    <3>2. n = g + 1
      BY <1>2, <2>1, <3>1
    <3> QED
      BY <3>1, <3>2 DEF Sizes, Ghost, Window, FirstGhost
  <2>2. ASSUME survives, n \in Ghost \ {FirstGhost}
        PROVE  \E g \in Ghost : Follows(g) = n /\ a.produced[g] = 1
    <3>1. n - 1 \in Ghost /\ n - 1 # Window /\ (n - 1) + 1 = n
      BY <2>2 DEF Sizes, Ghost, Window, FirstGhost
    <3> QED
      BY <1>1, <1>2, <2>2, <3>1
  <2> QED
    BY <2>1, <2>2
<1>4. new - old = IF n = FirstGhost THEN -1 ELSE 0
  BY <1>1, <1>3, Indexes
<1>5. p = <<p[1], p[2]>> /\ p[1] = <<n, p[1][2]>>
  BY PointstampMeans
<1>6. p = <<<<Window, "out">>, f>> => p[1][2] # "in"
  BY <1>5
<1>7. p = <<<<Window, "out">>, f>> => Reported(a, m)[p] = a.internal
  BY <1>1 DEF Reported
<1>8. p # <<<<Window, "out">>, f>> /\ p[1][2] = "in" /\ p[2] = m
        => Reported(a, m)[p] = new - old
  BY <1>1 DEF Reported
<1>9. p # <<<<Window, "out">>, f>> /\ ~(p[1][2] = "in" /\ p[2] = m) => Reported(a, m)[p] = 0
  BY <1>1 DEF Reported
<1>10. p = <<<<FirstGhost, "in">>, m>> <=> n = FirstGhost /\ p[1][2] = "in" /\ p[2] = m
  BY <1>5
<1> HIDE DEF new, old, n
<1> QED
  BY <1>1, <1>4, <1>6, <1>7, <1>8, <1>9, <1>10 DEF a

\* An answer to a message, as the device makes it.
LEMMA ReportedMessage ==
  ASSUME Sizes, NEW f \in Epochs, NEW m \in Epochs, NEW survives \in BOOLEAN,
         NEW p \in Pointstamp
  PROVE  Reported(Processed(f, survives), m)[p] =
           CASE p = <<<<Window, "out">>, f>> -> IF survives /\ f \notin windows THEN 1 ELSE 0
             [] p = <<<<FirstGhost, "in">>, m>> -> -1
             [] OTHER -> 0
<1>1. Processed(f, survives) =
        Answering(f, survives, IF survives /\ f \notin windows THEN 1 ELSE 0)
  BY DEF Processed, Answering
<1> QED
  BY <1>1, ReportedAnswering

\* A window that is emitted becomes a result.
LEMMA ReportedWindow ==
  ASSUME Sizes, NEW t \in Epochs, NEW m, NEW p \in Pointstamp
  PROVE  Reported(Emitted(t), m)[p] =
           CASE p = <<<<Window, "out">>, t>> -> -1
             [] p = <<<<Inspect, "in">>, t>> -> 1
             [] OTHER -> 0
<1> DEFINE a == Emitted(t)
<1>1. a.data = TRUE /\ a.time = t /\ a.internal = -1 /\ a.produced[Window] = 1
  BY Indexes DEF Emitted
<1> QED
  BY <1>1 DEF Reported

LEMMA ReportedNothing ==
  ASSUME Sizes, NEW m, NEW p \in Pointstamp
  PROVE  Reported(Nothing, m)[p] = 0
<1> DEFINE a == Nothing
<1>1. /\ a.data = FALSE /\ a.internal = 0
      /\ \A g \in Ghost : a.consumed[g] = 0 /\ a.produced[g] = 0
  BY DEF Nothing, NoCounts
<1> HIDE DEF a
<1> QED
  BY <1>1 DEF Reported, a

-----------------------------------------------------------------------------
(* Types *)

LEMMA ZeroType == Zero \in [Pointstamp -> Int] /\ \A p \in Pointstamp : Zero[p] = 0
BY DEF Zero

LEMMA TypeInit == Sizes /\ Init => TypeOK
<1> SUFFICES ASSUME Sizes, Init PROVE TypeOK
  OBVIOUS
<1>1. 0 \in Epochs
  BY DEF Sizes, Epochs
<1>2. known \in [Pointstamp -> Int] /\ shared \in [Pointstamp -> Int]
  BY DEF Init, Indicator
<1>3. answers \in Seq(Answer)
  <2>1. Nothing \in Answer
    BY <1>1, AnswerTypes
  <2>2. <<Nothing>> \in Seq(Answer) /\ <<>> \in Seq(Answer)
    BY <2>1
  <2> QED
    BY <2>2 DEF Init
<1>4. produceds \in [Ghost -> Seq({0, 1})]
  <2>1. <<0>> \in Seq({0, 1}) /\ <<>> \in Seq({0, 1})
    OBVIOUS
  <2> QED
    BY <2>1 DEF Init
<1> QED
  BY <1>1, <1>2, <1>3, <1>4, ZeroType, Indexes DEF Init, TypeOK

LEMMA SendType ==
  ASSUME Sizes, TypeOK, Send \/ Close
  PROVE  TypeOK'
<1>1. epoch' \in Epochs \cup {Never} /\ queue' \subseteq Epochs
  BY DEF Send, Close, TypeOK, Sizes, Epochs, Never
<1>2. pending' \in [Pointstamp -> Int]
  <2> DEFINE d == [p \in Pointstamp |->
                    IF p \in {<<<<FirstGhost, "in">>, epoch>>, <<<<Input, "out">>, epoch + 1>>}
                    THEN 1 ELSE IF p = <<<<Input, "out">>, epoch>> THEN -1 ELSE 0]
             e == [p \in Pointstamp |-> IF p = <<<<Input, "out">>, epoch>> THEN -1 ELSE 0]
  <2>1. d \in [Pointstamp -> Int] /\ e \in [Pointstamp -> Int]
    OBVIOUS
  <2>2. Send => pending' = Plus(pending, d)
    BY DEF Send
  <2>3. Close => pending' = Plus(pending, e)
    BY DEF Close
  <2> HIDE DEF d, e
  <2> QED
    <3>1. pending \in [Pointstamp -> Int]
      BY DEF TypeOK
    <3>2. Plus(pending, d) \in [Pointstamp -> Int] /\ Plus(pending, e) \in [Pointstamp -> Int]
      BY <2>1, <3>1, PlusInt
    <3> QED
      BY <2>2, <2>3, <3>2
<1>3. activations' \subseteq Child
  BY Indexes DEF Send, Close, TypeOK
<1>4. UNCHANGED <<outbox, device, counts, temp_active, cursor, calling, first, probe>>
  BY DEF Send, Close
<1> QED
  BY <1>1, <1>2, <1>3, <1>4 DEF TypeOK, device, counts

LEMMA TakeType ==
  ASSUME Sizes, TypeOK, NEW a \in Answer, NEW time, NEW late, Take(Append(answers, a), time, late)
  PROVE  /\ answers' \in Seq(Answer) /\ shared' \in [Pointstamp -> Int]
         /\ produceds' \in [Ghost -> Seq({0, 1})] /\ outbox' \subseteq Epochs
<1> DEFINE all == Append(answers, a)
           h == Head(all)
           r == Reported(h, IF time = NoMessage THEN h.time ELSE time)
<1>1. answers \in Seq(Answer)
  BY DEF TypeOK
<1>2. all \in Seq(Answer) /\ all # <<>>
  <2>1. Append(answers, a) \in Seq(Answer) /\ Len(Append(answers, a)) = Len(answers) + 1
    BY <1>1
  <2>2. Len(answers) \in Nat /\ Len(<<>>) = 0
    BY <1>1
  <2> QED
    BY <2>1, <2>2
<1>3. h \in Answer /\ Tail(all) \in Seq(Answer)
  BY <1>2
<1>4. r \in [Pointstamp -> Int]
  BY <1>3, ReportedType
<1>5. h.produced \in [Ghost -> {0, 1}]
  BY <1>3 DEF Answer
<1>6. h.time \in Epochs
  BY <1>3 DEF Answer
<1> HIDE DEF all, h, r
<1>7. CASE late
  BY <1>2, <1>7 DEF Take, TypeOK, all
<1>8. CASE ~late
  <2>1. /\ answers' = Tail(all) /\ shared' = Plus(shared, r)
        /\ produceds' = [g \in Ghost |-> IF h.data /\ g # Window THEN produceds[g]
                                         ELSE Append(produceds[g], h.produced[g])]
        /\ outbox' = IF h.data THEN outbox \cup {h.time} ELSE outbox
    BY <1>8 DEF Take, all, h, r
  <2>2. shared' \in [Pointstamp -> Int]
    BY <1>4, <2>1, PlusInt DEF TypeOK
  <2>3. produceds' \in [Ghost -> Seq({0, 1})]
    BY <1>5, <2>1 DEF TypeOK
  <2> QED
    BY <1>3, <1>6, <2>1, <2>2, <2>3 DEF TypeOK
<1> QED
  BY <1>7, <1>8

LEMMA ExchangeMessageType ==
  ASSUME Sizes, TypeOK, MessagesKnown, NEW survives \in BOOLEAN, NEW late \in BOOLEAN,
         ExchangeMessage(survives, late)
  PROVE  TypeOK'
<1> DEFINE m == Least(queue)
           front == IF first = None THEN m ELSE first
<1>1. m \in queue /\ m \in Epochs
  BY LeastIn, Indexes DEF ExchangeMessage, TypeOK
<1>2. front \in Epochs
  BY <1>1 DEF ExchangeMessage, MessagesKnown, TypeOK
<1>3. Processed(front, survives) \in Answer
  BY <1>2, AnswerTypes
<1>4. Take(Append(answers, Processed(front, survives)), m, late)
  BY DEF ExchangeMessage
<1>5. /\ answers' \in Seq(Answer) /\ shared' \in [Pointstamp -> Int]
      /\ produceds' \in [Ghost -> Seq({0, 1})] /\ outbox' \subseteq Epochs
  BY <1>3, <1>4, TakeType
<1>6. /\ queue' = queue \ {m} /\ first' = front /\ received' = received \cup {front}
      /\ windows' = IF survives THEN windows \cup {front} ELSE windows
      /\ activations' \subseteq activations \cup {Wrapper, Inspect}
      /\ UNCHANGED <<handle, known, batch, stale, temp_active, cursor, calling, probe>>
  BY DEF ExchangeMessage
<1> HIDE DEF m, front
<1>7. {queue', received', windows'} \subseteq SUBSET Epochs
  BY <1>2, <1>6 DEF TypeOK
<1>8. activations' \subseteq Child
  BY <1>6, Indexes DEF TypeOK
<1> QED
  BY <1>2, <1>5, <1>6, <1>7, <1>8 DEF TypeOK, handle

LEMMA ExchangeNothingType ==
  ASSUME Sizes, TypeOK, NEW late \in BOOLEAN, ExchangeNothing(late)
  PROVE  TypeOK'
<1> DEFINE due == {t \in windows : t < Frontier(known, Window)}
           a == IF due = {} THEN Nothing ELSE Emitted(Least(due))
<1>1. due # {} => Least(due) \in due /\ Least(due) \in Epochs
  BY LeastIn, Indexes DEF TypeOK
<1>2. 0 \in Epochs
  BY DEF Sizes, Epochs
<1>3. a \in Answer
  BY <1>1, <1>2, AnswerTypes
<1>4. Take(Append(answers, a), NoMessage, late)
  BY DEF ExchangeNothing
<1>5. /\ answers' \in Seq(Answer) /\ shared' \in [Pointstamp -> Int]
      /\ produceds' \in [Ghost -> Seq({0, 1})] /\ outbox' \subseteq Epochs
  BY <1>3, <1>4, TakeType
<1>6. /\ first' = NoMessage /\ windows' \subseteq windows
      /\ activations' \subseteq activations \cup {Inspect}
      /\ UNCHANGED <<handle, queue, received, known, batch, stale, temp_active, cursor,
                     calling, probe>>
  BY DEF ExchangeNothing
<1> QED
  BY <1>5, <1>6, Indexes DEF TypeOK, handle

LEMMA ScheduleType ==
  ASSUME Sizes, TypeOK, WrapperReturns \/ BeginSchedule \/ EndSchedule
  PROVE  TypeOK'
<1>1. \A moved : Notified(moved) \subseteq Child
  BY Indexes DEF Notified
<1>2. CASE WrapperReturns
  <2>1. batch' \in [Pointstamp -> Int] /\ shared' \in [Pointstamp -> Int]
    BY <1>2, PlusInt, ZeroType DEF WrapperReturns, TypeOK
  <2>2. temp_active' \subseteq Child /\ produceds' \in [Ghost -> Seq({0, 1})]
    BY <1>2, FollowsChild DEF WrapperReturns, TypeOK, Sizes
  <2> QED
    BY <1>2, <2>1, <2>2 DEF WrapperReturns, TypeOK, handle, device
<1>3. CASE BeginSchedule
  <2>1. known' \in [Pointstamp -> Int] /\ batch' \in [Pointstamp -> Int]
    BY <1>3, PlusInt, ZeroType DEF BeginSchedule, TypeOK
  <2> QED
    BY <1>1, <1>3, <2>1 DEF BeginSchedule, TypeOK, handle, device
<1>4. CASE EndSchedule
  BY <1>4 DEF EndSchedule, TypeOK, handle, device, counts
<1> QED
  BY <1>2, <1>3, <1>4

LEMMA ActivateType ==
  ASSUME Sizes, TypeOK, ActivateChild
  PROVE  TypeOK'
<1>1. PICK n \in temp_active :
        /\ temp_active' = temp_active \ {n}
        /\ Skip(n) \/ Operate(n) \/ CallWrapper(n) \/ ShowProbe(n)
  BY DEF ActivateChild
<1>2. n \in Child /\ temp_active' \subseteq Child
  BY <1>1 DEF TypeOK
<1>3. CASE Skip(n)
  BY <1>2, <1>3 DEF Skip, TypeOK, handle, device, counts
<1>4. CASE Operate(n)
  <2>1. n = Input \/ n = Inspect \/ n \in Ghost
    BY <1>2, <1>4 DEF Operate, Child, Input, Inspect, Wrapper, Probe, Ghost, Sizes
  <2>2. batch' \in [Pointstamp -> Int]
    <3>1. CASE n = Input
      <4>1. batch' = Plus(batch, pending)
        BY <1>4, <3>1 DEF Operate
      <4> QED
        BY <4>1, PlusInt DEF TypeOK
    <3>2. CASE n = Inspect
      <4>1. n # Input /\ n \notin Ghost
        BY <3>2, Indexes
      <4> DEFINE d == [p \in Pointstamp |->
                        IF p[1] = <<Inspect, "in">> /\ p[2] \in outbox THEN -1 ELSE 0]
      <4>2. batch' = Plus(batch, d)
        BY <1>4, <3>2, <4>1 DEF Operate
      <4>3. d \in [Pointstamp -> Int]
        OBVIOUS
      <4> HIDE DEF d
      <4> QED
        BY <4>2, <4>3, PlusInt DEF TypeOK
    <3>3. CASE n \in Ghost
      <4>1. n # Input /\ n # Inspect
        BY <3>3, Indexes
      <4> DEFINE d == Indicator(IF n \in stale THEN {<<<<n, "out">>, 0>>} ELSE {})
      <4>2. batch' = Plus(batch, d)
        BY <1>4, <3>3, <4>1 DEF Operate
      <4>3. d \in [Pointstamp -> Int]
        BY DEF Indicator
      <4> HIDE DEF d
      <4> QED
        BY <4>2, <4>3, PlusInt DEF TypeOK
    <3> QED
      BY <2>1, <3>1, <3>2, <3>3
  <2>3. pending' \in [Pointstamp -> Int]
    BY <1>4, ZeroType DEF Operate, TypeOK
  <2>4. activations' \subseteq activations \cup {Inspect} /\ outbox' \subseteq outbox
        /\ stale' \subseteq stale /\ cursor' = n
        /\ UNCHANGED <<epoch, queue, device, known, shared, produceds, calling, first, probe>>
    BY <1>4 DEF Operate
  <2> QED
    BY <1>2, <2>2, <2>3, <2>4, Indexes DEF TypeOK, device
<1>5. CASE CallWrapper(n)
  BY <1>2, <1>5 DEF CallWrapper, TypeOK, handle, device, counts
<1>6. CASE ShowProbe(n)
  BY <1>2, <1>6, FrontierType DEF ShowProbe, TypeOK, handle, device, counts
<1> QED
  BY <1>1, <1>3, <1>4, <1>5, <1>6

LEMMA TypeNext ==
  ASSUME Sizes, TypeOK, MessagesKnown, [Next]_vars
  PROVE  TypeOK'
<1>1. CASE UNCHANGED vars
  BY <1>1 DEF vars, handle, device, counts, scheduling, TypeOK
<1> QED
  BY <1>1, SendType, ExchangeMessageType, ExchangeNothingType, ScheduleType, ActivateType
     DEF Next, Step

-----------------------------------------------------------------------------
(* Messages *)

\* Once an answer has been left behind there always is one.
LEMMA TakeAtOnce ==
  ASSUME Sizes, TypeOK, NEW a \in Answer, NEW time, NEW late \in BOOLEAN,
         Take(Append(answers, a), time, late), answers' = <<>>
  PROVE  /\ answers = <<>>
         /\ shared' = Plus(shared, Reported(a, IF time = NoMessage THEN a.time ELSE time))
         /\ outbox' = IF a.data THEN outbox \cup {a.time} ELSE outbox
<1> DEFINE all == Append(answers, a)
<1>1. answers \in Seq(Answer)
  BY DEF TypeOK
<1>2. all \in Seq(Answer) /\ Len(all) = Len(answers) + 1
  BY <1>1
<1>3. Len(answers) \in Nat /\ (Len(answers) = 0 => answers = <<>>)
  BY <1>1
<1> HIDE DEF all
<1>4. ~late
  <2> SUFFICES ASSUME late PROVE FALSE
    OBVIOUS
  <2>1. answers' = all
    BY DEF Take, all
  <2> QED
    BY <1>2, <1>3, <2>1
<1>5. /\ answers' = Tail(all)
      /\ shared' = Plus(shared, Reported(Head(all),
                                  IF time = NoMessage THEN Head(all).time ELSE time))
      /\ outbox' = IF Head(all).data THEN outbox \cup {Head(all).time} ELSE outbox
  BY <1>4 DEF Take, all
<1>6. answers = <<>>
  <2>1. Len(Tail(all)) = Len(all) - 1
    BY <1>2, <1>3
  <2> QED
    BY <1>2, <1>3, <1>5, <2>1
<1>7. Head(all) = a
  BY <1>6 DEF all
<1> QED
  BY <1>5, <1>6, <1>7

LEMMA Fronts ==
  ASSUME Sizes, TypeOK, MessagesKnown, NEW survives \in BOOLEAN, NEW late \in BOOLEAN,
         ExchangeMessage(survives, late)
  PROVE  LET m     == Least(queue)
             front == IF first = None THEN m ELSE first
         IN  /\ m \in queue /\ m \in Epochs /\ front \in Epochs /\ front \in received \cup {m}
             /\ answers = <<>> => front \notin outbox
<1>1. Least(queue) \in queue
  BY LeastIn, Indexes DEF ExchangeMessage, TypeOK
<1> QED
  BY <1>1 DEF ExchangeMessage, MessagesKnown, TypeOK

LEMMA MessageKnows ==
  ASSUME Sizes, TypeOK, MessagesKnown, NEW survives \in BOOLEAN, NEW late \in BOOLEAN,
         ExchangeMessage(survives, late)
  PROVE  MessagesKnown'
<1> DEFINE m == Least(queue)
           front == IF first = None THEN m ELSE first
           a == Processed(front, survives)
<1>1. /\ m \in queue /\ m \in Epochs /\ front \in Epochs /\ front \in received \cup {m}
      /\ answers = <<>> => front \notin outbox
  BY Fronts
<1>2. /\ Take(Append(answers, a), m, late) /\ calling
      /\ queue' = queue \ {m} /\ first' = front /\ received' = received \cup {front}
      /\ windows' = IF survives THEN windows \cup {front} ELSE windows
      /\ epoch' = epoch /\ calling' = calling
  BY DEF ExchangeMessage, handle
<1>3. a \in Answer /\ a.data = FALSE
  BY <1>1, AnswerTypes DEF Processed
<1>4. answers' = <<>> => answers = <<>> /\ outbox' = outbox
  BY <1>2, <1>3, TakeAtOnce
<1>5. front # NoMessage
  BY <1>1 DEF Epochs, NoMessage
<1> HIDE DEF m, front, a
<1> QED
  BY <1>1, <1>2, <1>4, <1>5 DEF MessagesKnown

\* The windows that may be emitted, and the answer to a request without a message.
Due == {t \in windows : t < Frontier(known, Window)}

Emission == IF Due = {} THEN Nothing ELSE Emitted(Least(Due))

LEMMA NothingMeans ==
  ASSUME Sizes, TypeOK, NEW late \in BOOLEAN, ExchangeNothing(late)
  PROVE  /\ Due # {} => Least(Due) \in Due /\ Least(Due) \in Epochs
         /\ Emission \in Answer
         /\ Take(Append(answers, Emission), NoMessage, late)
         /\ windows' = (IF Due = {} THEN windows ELSE windows \ {Least(Due)})
         /\ calling /\ queue = {} /\ first = None /\ first' = NoMessage
         /\ UNCHANGED <<epoch, pending, queue, received, known, batch, calling>>
<1>1. Due # {} => Least(Due) \in Due /\ Least(Due) \in Epochs
  BY LeastIn, Indexes DEF TypeOK, Due
<1>2. 0 \in Epochs
  BY DEF Sizes, Epochs
<1>3. Emission \in Answer
  BY <1>1, <1>2, AnswerTypes DEF Emission
<1> QED
  BY <1>1, <1>3 DEF ExchangeNothing, Due, Emission, handle

LEMMA NothingKnows ==
  ASSUME Sizes, TypeOK, MessagesKnown, NEW late \in BOOLEAN, ExchangeNothing(late)
  PROVE  MessagesKnown'
<1> DEFINE t == Least(Due)
<1>1. /\ Due # {} => t \in Due /\ t \in Epochs
      /\ Emission \in Answer
      /\ Take(Append(answers, Emission), NoMessage, late)
      /\ windows' = (IF Due = {} THEN windows ELSE windows \ {t})
      /\ calling /\ queue = {} /\ first = None /\ first' = NoMessage
      /\ UNCHANGED <<epoch, pending, queue, received, known, batch, calling>>
  BY NothingMeans
<1>2. answers' = <<>> =>
        answers = <<>> /\ outbox' = IF Emission.data THEN outbox \cup {Emission.time} ELSE outbox
  BY <1>1, TakeAtOnce
<1>3. IF Due = {} THEN ~Emission.data ELSE Emission.data /\ Emission.time = t
  BY DEF Emission, Nothing, Emitted
<1>4. t \in Due => t \in windows
  BY DEF Due
<1>5. NoMessage \notin Epochs /\ NoMessage # None
  BY DEF NoMessage, None, Epochs
<1>6. outbox \subseteq Epochs
  BY DEF TypeOK
<1> HIDE DEF t
<1> QED
  BY <1>1, <1>2, <1>3, <1>4, <1>5, <1>6 DEF MessagesKnown

LEMMA RestKnows ==
  ASSUME Sizes, TypeOK, IInv, MessagesKnown,
         Send \/ Close \/ BeginSchedule \/ ActivateChild \/ EndSchedule \/ WrapperReturns
           \/ UNCHANGED vars
  PROVE  MessagesKnown'
<1>1. None \notin Epochs /\ NoMessage # None /\ NoMessage \notin Epochs
  BY DEF None, NoMessage, Epochs
<1>2. CASE Send
  <2>1. epoch \in Nat /\ epoch' = epoch + 1 /\ queue' = queue \cup {epoch} /\ queue \subseteq Nat
        /\ received \subseteq Nat
    BY <1>2, Indexes DEF Send, TypeOK, Epochs
  <2>2. first = None
    BY <1>2 DEF Send, IInv, MessagesKnown, Idle, Wrapper, Sizes
  <2>3. UNCHANGED <<windows, answers, received, outbox, calling, first>>
    BY <1>2 DEF Send, device
  <2>4. \A t \in queue \cup received : t < epoch /\ t < epoch + 1 /\ t # epoch
    BY <2>1 DEF MessagesKnown
  <2> QED
    BY <1>1, <2>1, <2>2, <2>3, <2>4 DEF MessagesKnown
<1>3. CASE Close
  <2>1. epoch' = Never /\ UNCHANGED <<queue, windows, answers, received, outbox, calling, first>>
    BY <1>3 DEF Close, device
  <2>2. \A t \in queue \cup received : t < Never
    BY DEF TypeOK, Epochs, Never, Sizes
  <2> QED
    BY <2>1, <2>2 DEF MessagesKnown
<1>4. CASE BeginSchedule
  BY <1>4 DEF BeginSchedule, handle, device, MessagesKnown
<1>5. CASE ActivateChild
  <2>1. PICK n : Skip(n) \/ Operate(n) \/ CallWrapper(n) \/ ShowProbe(n)
    BY <1>5 DEF ActivateChild
  <2>2. UNCHANGED <<epoch, queue, windows, answers, received, first>> /\ outbox' \subseteq outbox
    BY <2>1 DEF Skip, Operate, CallWrapper, ShowProbe, handle, device
  <2>3. first = None
    BY <1>5 DEF ActivateChild, MessagesKnown
  <2> QED
    BY <1>1, <2>2, <2>3 DEF MessagesKnown
<1>6. CASE EndSchedule
  BY <1>6 DEF EndSchedule, handle, device, MessagesKnown
<1>7. CASE WrapperReturns
  <2>1. first' = None /\ None \notin outbox
    BY <1>1, <1>7 DEF WrapperReturns, TypeOK
  <2> QED
    BY <1>1, <1>7, <2>1 DEF WrapperReturns, handle, device, MessagesKnown
<1>8. CASE UNCHANGED vars
  BY <1>8 DEF vars, handle, device, MessagesKnown
<1> QED
  BY <1>2, <1>3, <1>4, <1>5, <1>6, <1>7, <1>8

-----------------------------------------------------------------------------
(* Counts *)

\* What an action must do to the counts for them to remain those of what there is.
LEMMA Balance ==
  ASSUME TypeOK, TypeOK', CountsConserved, answers' = <<>> => answers = <<>>,
         \A p \in Pointstamp : answers' = <<>> =>
           Reports(p)' - Reports(p) = Holds(p)' - Holds(p)
  PROVE  CountsConserved'
<1>1. \A p \in Pointstamp : Reports(p) \in Int /\ Reports(p)' \in Int
  BY DEF TypeOK, Reports
<1>2. \A p \in Pointstamp : Holds(p) \in Int /\ Holds(p)' \in Int
  BY DEF Holds
<1>3. answers = <<>> => \A p \in Pointstamp : Reports(p) = Holds(p)
  BY CountsMean
<1>4. answers' = <<>> => \A p \in Pointstamp : Reports(p)' = Holds(p)'
  BY <1>1, <1>2, <1>3
<1> QED
  BY <1>4, CountsMeanNext

LEMMA Places ==
  ASSUME Sizes
  PROVE  /\ <<Input, "out">> # <<FirstGhost, "in">> /\ <<Input, "out">> # <<Window, "out">>
         /\ <<Input, "out">> # <<Inspect, "in">> /\ <<FirstGhost, "in">> # <<Window, "out">>
         /\ <<FirstGhost, "in">> # <<Inspect, "in">> /\ <<Window, "out">> # <<Inspect, "in">>
<1>1. Input # Window /\ Input # Inspect /\ FirstGhost # Inspect /\ "in" # "out"
  BY Indexes
<1> QED
  BY <1>1

LEMMA SendCounts ==
  ASSUME Sizes, TypeOK, TypeOK', MessagesKnown, CountsConserved, Send
  PROVE  CountsConserved'
<1> DEFINE d == [p \in Pointstamp |->
                   IF p \in {<<<<FirstGhost, "in">>, epoch>>, <<<<Input, "out">>, epoch + 1>>}
                   THEN 1 ELSE IF p = <<<<Input, "out">>, epoch>> THEN -1 ELSE 0]
<1>1. /\ pending' = Plus(pending, d) /\ queue' = queue \cup {epoch} /\ epoch' = epoch + 1
      /\ UNCHANGED <<outbox, windows, answers, known, batch, shared>>
  BY DEF Send, device, counts
<1>2. epoch \in Nat /\ epoch \in Epochs /\ epoch + 1 # epoch /\ epoch + 1 \in Epochs
  BY DEF Send, TypeOK, Epochs, Never, Sizes
<1>3. epoch \notin queue
  BY <1>2 DEF MessagesKnown
<1>4. ASSUME NEW p \in Pointstamp
      PROVE  Reports(p)' - Reports(p) = Holds(p)' - Holds(p)
  <2>1. Reports(p)' = Reports(p) + d[p]
    <3>1. d \in [Pointstamp -> Int] /\ pending \in [Pointstamp -> Int]
      BY DEF TypeOK
    <3>2. pending'[p] = pending[p] + d[p] /\ d[p] \in Int /\ pending[p] \in Int
      BY <1>1, <3>1, PlusInt
    <3> HIDE DEF d
    <3> QED
      BY <1>1, <3>2 DEF Reports, TypeOK
  <2>2. p = <<p[1], p[2]>>
    BY PointstampMeans
  <2>3. d[p] = IF p[1] = <<FirstGhost, "in">> /\ p[2] = epoch THEN 1
               ELSE IF p[1] = <<Input, "out">> /\ p[2] = epoch + 1 THEN 1
               ELSE IF p[1] = <<Input, "out">> /\ p[2] = epoch THEN -1 ELSE 0
    BY <2>2
  <2>4. Holds(p)' - Holds(p) = d[p]
    <3> HIDE DEF d
    <3> QED
      BY <1>1, <1>2, <1>3, <2>3, Places, HeldMeans, HeldMeansNext DEF Holds
  <2>5. Reports(p) \in Int /\ d[p] \in Int
    BY <2>3 DEF Reports, TypeOK
  <2> QED
    BY <2>1, <2>4, <2>5
<1> QED
  BY <1>1, <1>4, Balance

LEMMA CloseCounts ==
  ASSUME Sizes, TypeOK, TypeOK', CountsConserved, Close
  PROVE  CountsConserved'
<1> DEFINE d == [p \in Pointstamp |-> IF p = <<<<Input, "out">>, epoch>> THEN -1 ELSE 0]
<1>1. /\ pending' = Plus(pending, d) /\ epoch' = Never
      /\ UNCHANGED <<queue, outbox, windows, answers, known, batch, shared>>
  BY DEF Close, device, counts
<1>2. epoch \in Epochs /\ Never \notin Epochs
  BY Indexes DEF Close, TypeOK
<1>3. ASSUME NEW p \in Pointstamp
      PROVE  Reports(p)' - Reports(p) = Holds(p)' - Holds(p)
  <2>1. Reports(p)' = Reports(p) + d[p]
    <3>1. d \in [Pointstamp -> Int] /\ pending \in [Pointstamp -> Int]
      BY DEF TypeOK
    <3>2. pending'[p] = pending[p] + d[p] /\ d[p] \in Int /\ pending[p] \in Int
      BY <1>1, <3>1, PlusInt
    <3> HIDE DEF d
    <3> QED
      BY <1>1, <3>2 DEF Reports, TypeOK
  <2>2. p = <<p[1], p[2]>> /\ p[2] \in Epochs
    BY PointstampMeans
  <2>3. d[p] = IF p[1] = <<Input, "out">> /\ p[2] = epoch THEN -1 ELSE 0
    BY <2>2
  <2>4. Holds(p)' - Holds(p) = d[p]
    <3> HIDE DEF d
    <3> QED
      BY <1>1, <1>2, <2>2, <2>3, Places, HeldMeans, HeldMeansNext DEF Holds
  <2>5. Reports(p) \in Int /\ d[p] \in Int
    BY <2>3 DEF Reports, TypeOK
  <2> QED
    BY <2>1, <2>4, <2>5
<1> QED
  BY <1>1, <1>3, Balance

\* What an answer that is taken at once adds to the counts.
LEMMA SharedCounts ==
  ASSUME Sizes, TypeOK, NEW a \in Answer, NEW time, NEW d, NEW p \in Pointstamp,
         shared' = Plus(shared, Reported(a, time)), Reported(a, time)[p] = d,
         UNCHANGED <<known, batch, pending>>
  PROVE  Reports(p)' - Reports(p) = d
<1> DEFINE r == Reported(a, time)
<1>1. r \in [Pointstamp -> Int] /\ shared \in [Pointstamp -> Int]
  BY ReportedType DEF TypeOK
<1> HIDE DEF r
<1>2. shared'[p] = shared[p] + r[p] /\ r[p] \in Int /\ shared[p] \in Int /\ r[p] = d
  BY <1>1, PlusInt DEF r
<1> QED
  BY <1>2 DEF Reports, TypeOK

LEMMA MessageCounts ==
  ASSUME Sizes, TypeOK, TypeOK', MessagesKnown, CountsConserved,
         NEW survives \in BOOLEAN, NEW late \in BOOLEAN, ExchangeMessage(survives, late)
  PROVE  CountsConserved'
<1> DEFINE m == Least(queue)
           front == IF first = None THEN m ELSE first
           a == Processed(front, survives)
           d(p) == CASE p = <<<<Window, "out">>, front>> ->
                            IF survives /\ front \notin windows THEN 1 ELSE 0
                     [] p = <<<<FirstGhost, "in">>, m>> -> -1
                     [] OTHER -> 0
<1>1. m \in queue /\ m \in Epochs /\ front \in Epochs
  BY Fronts
<1>2. /\ Take(Append(answers, a), m, late)
      /\ queue' = queue \ {m}
      /\ windows' = IF survives THEN windows \cup {front} ELSE windows
      /\ UNCHANGED <<epoch, pending, known, batch>>
  BY DEF ExchangeMessage, handle
<1>3. a \in Answer /\ ~a.data
  BY <1>1, AnswerTypes DEF Processed
<1>4. m # NoMessage
  BY <1>1 DEF Epochs, NoMessage
<1>5. answers' = <<>> =>
        answers = <<>> /\ shared' = Plus(shared, Reported(a, m)) /\ outbox' = outbox
  BY <1>2, <1>3, <1>4, TakeAtOnce
<1>6. \A p \in Pointstamp : Reported(a, m)[p] = d(p)
  BY <1>1, ReportedMessage
<1>7. \A p \in Pointstamp :
        d(p) = IF p[1] = <<Window, "out">> /\ p[2] = front
               THEN IF survives /\ front \notin windows THEN 1 ELSE 0
               ELSE IF p[1] = <<FirstGhost, "in">> /\ p[2] = m THEN -1 ELSE 0
  <2> TAKE p \in Pointstamp
  <2>1. p = <<p[1], p[2]>>
    BY PointstampMeans
  <2>2. (p = <<<<Window, "out">>, front>> <=> p[1] = <<Window, "out">> /\ p[2] = front)
        /\ (p = <<<<FirstGhost, "in">>, m>> <=> p[1] = <<FirstGhost, "in">> /\ p[2] = m)
    BY <2>1
  <2> QED
    BY <2>2, Places
<1> HIDE DEF m, front, a, d
<1>8. ASSUME NEW p \in Pointstamp, answers' = <<>>
      PROVE  Reports(p)' - Reports(p) = Holds(p)' - Holds(p)
  <2>1. Reports(p)' - Reports(p) = d(p)
    BY <1>2, <1>3, <1>5, <1>6, <1>8, SharedCounts
  <2>2. Holds(p)' - Holds(p) = d(p)
    BY <1>1, <1>2, <1>5, <1>7, <1>8, Places, HeldMeans, HeldMeansNext DEF Holds
  <2> QED
    BY <2>1, <2>2
<1> QED
  BY <1>5, <1>8, Balance

LEMMA NothingCounts ==
  ASSUME Sizes, TypeOK, TypeOK', MessagesKnown, CountsConserved,
         NEW late \in BOOLEAN, ExchangeNothing(late)
  PROVE  CountsConserved'
<1> DEFINE t == Least(Due)
<1>1. /\ Due # {} => t \in Due /\ t \in Epochs
      /\ Emission \in Answer
      /\ Take(Append(answers, Emission), NoMessage, late)
      /\ windows' = (IF Due = {} THEN windows ELSE windows \ {t})
      /\ UNCHANGED <<epoch, pending, queue, known, batch>>
  BY NothingMeans
<1>2. answers' = <<>> =>
        /\ answers = <<>> /\ shared' = Plus(shared, Reported(Emission, Emission.time))
        /\ outbox' = IF Emission.data THEN outbox \cup {Emission.time} ELSE outbox
  BY <1>1, TakeAtOnce
<1>3. IF Due = {} THEN ~Emission.data ELSE Emission.data /\ Emission.time = t
  BY DEF Emission, Nothing, Emitted
<1>4. t \in Due => t \in windows
  BY DEF Due
<1> HIDE DEF t
<1>5. ASSUME NEW p \in Pointstamp, answers' = <<>>
      PROVE  Reports(p)' - Reports(p) = Holds(p)' - Holds(p)
  <2>1. CASE Due = {}
    <3>1. Reported(Emission, Emission.time)[p] = 0
      BY <2>1, ReportedNothing DEF Emission
    <3>2. Reports(p)' - Reports(p) = 0
      BY <1>1, <1>2, <1>5, <3>1, SharedCounts
    <3>3. Holds(p)' = Holds(p)
      BY <1>1, <1>2, <1>3, <1>5, <2>1, HeldMeans, HeldMeansNext DEF Holds
    <3>4. Holds(p) \in Int
      BY DEF Holds
    <3> QED
      BY <3>2, <3>3, <3>4
  <2>2. CASE Due # {}
    <3> DEFINE d == IF p[1] = <<Window, "out">> /\ p[2] = t THEN -1
                    ELSE IF p[1] = <<Inspect, "in">> /\ p[2] = t THEN 1 ELSE 0
    <3>1. t \in windows /\ t \in Epochs /\ t \notin outbox
      BY <1>1, <1>2, <1>4, <1>5, <2>2 DEF MessagesKnown
    <3>2. Reported(Emission, Emission.time)[p] = d
      <4>1. Emission = Emitted(t)
        BY <2>2 DEF Emission, t
      <4>2. p = <<p[1], p[2]>>
        BY PointstampMeans
      <4>3. (p = <<<<Window, "out">>, t>> <=> p[1] = <<Window, "out">> /\ p[2] = t)
            /\ (p = <<<<Inspect, "in">>, t>> <=> p[1] = <<Inspect, "in">> /\ p[2] = t)
        BY <4>2
      <4> QED
        BY <3>1, <4>1, <4>3, ReportedWindow, Places
    <3>3. Reports(p)' - Reports(p) = d
      BY <1>1, <1>2, <1>5, <3>2, SharedCounts
    <3>4. windows' = windows \ {t} /\ outbox' = outbox \cup {t} /\ queue' = queue /\ epoch' = epoch
      BY <1>1, <1>2, <1>3, <1>5, <2>2
    <3>5. Holds(p)' - Holds(p) = d
      BY <3>1, <3>4, Places, HeldMeans, HeldMeansNext DEF Holds
    <3> QED
      BY <3>3, <3>5
  <2> QED
    BY <2>1, <2>2
<1> QED
  BY <1>2, <1>5, Balance

\* Counts that move on, in the worker, stay the same; inspect takes all that waits.
LEMMA ScheduleCounts ==
  ASSUME Sizes, TypeOK, TypeOK', IInv, CountsConserved,
         WrapperReturns \/ BeginSchedule \/ EndSchedule \/ ActivateChild \/ UNCHANGED vars
  PROVE  CountsConserved'
<1>1. /\ known \in [Pointstamp -> Int] /\ batch \in [Pointstamp -> Int]
      /\ shared \in [Pointstamp -> Int] /\ pending \in [Pointstamp -> Int]
  BY DEF TypeOK
<1>2. UNCHANGED <<epoch, queue, windows, answers>>
  BY DEF WrapperReturns, BeginSchedule, EndSchedule, ActivateChild, Skip, Operate, CallWrapper,
         ShowProbe, vars, handle, device
<1>3. ASSUME outbox' = outbox, \A p \in Pointstamp : Reports(p)' = Reports(p)
      PROVE  CountsConserved'
  <2>1. \A p \in Pointstamp : Holds(p)' = Holds(p)
    BY <1>2, <1>3, HeldMeans, HeldMeansNext DEF Holds
  <2>2. \A p \in Pointstamp : Reports(p) \in Int /\ Holds(p) \in Int
    BY DEF TypeOK, Reports, Holds
  <2> QED
    BY <1>2, <1>3, <2>1, <2>2, Balance
<1>4. CASE WrapperReturns
  <2>1. \A p \in Pointstamp : batch'[p] = batch[p] + shared[p] /\ shared'[p] = 0
    BY <1>1, <1>4, PlusInt, ZeroType DEF WrapperReturns
  <2>2. UNCHANGED <<outbox, known, pending>>
    BY <1>4 DEF WrapperReturns, handle
  <2> QED
    BY <1>1, <1>3, <2>1, <2>2 DEF Reports
<1>5. CASE BeginSchedule
  <2>1. \A p \in Pointstamp : known'[p] = known[p] + batch[p] /\ batch'[p] = 0
    BY <1>1, <1>5, PlusInt, ZeroType DEF BeginSchedule
  <2>2. UNCHANGED <<outbox, shared, pending>>
    BY <1>5 DEF BeginSchedule, handle
  <2> QED
    BY <1>1, <1>3, <2>1, <2>2 DEF Reports
<1>6. CASE EndSchedule \/ UNCHANGED vars
  BY <1>3, <1>6 DEF EndSchedule, vars, handle, device, counts, Reports
<1>7. CASE ActivateChild
  <2>1. PICK n \in temp_active :
          ~calling /\ (Skip(n) \/ Operate(n) \/ CallWrapper(n) \/ ShowProbe(n))
    BY <1>7 DEF ActivateChild
  <2>2. CASE Skip(n) \/ CallWrapper(n) \/ ShowProbe(n)
    BY <1>3, <2>2 DEF Skip, CallWrapper, ShowProbe, handle, device, counts, Reports
  <2>3. CASE Operate(n) /\ n = Input
    <3>1. batch' = Plus(batch, pending) /\ pending' = Zero /\ UNCHANGED <<known, shared>>
      BY <2>3 DEF Operate
    <3>2. \A p \in Pointstamp : batch'[p] = batch[p] + pending[p] /\ pending'[p] = 0
      BY <1>1, <3>1, PlusInt, ZeroType
    <3>3. outbox' = outbox
      BY <2>3, Indexes DEF Operate
    <3> QED
      BY <1>1, <1>3, <3>1, <3>2, <3>3 DEF Reports
  <2>4. CASE Operate(n) /\ n = Inspect
    <3> DEFINE d == [p \in Pointstamp |->
                      IF p[1] = <<Inspect, "in">> /\ p[2] \in outbox THEN -1 ELSE 0]
    <3>1. batch' = Plus(batch, d) /\ outbox' = {} /\ UNCHANGED <<known, shared, pending>>
      BY <2>4, Indexes DEF Operate
    <3>2. d \in [Pointstamp -> Int]
      OBVIOUS
    <3>3. \A p \in Pointstamp :
            d[p] = IF p[1] = <<Inspect, "in">> /\ p[2] \in outbox THEN -1 ELSE 0
      OBVIOUS
    <3> HIDE DEF d
    <3>4. ASSUME NEW p \in Pointstamp
          PROVE  Reports(p)' - Reports(p) = Holds(p)' - Holds(p)
      <4>1. batch'[p] = batch[p] + d[p] /\ d[p] \in Int /\ batch[p] \in Int
        BY <1>1, <3>1, <3>2, PlusInt
      <4>2. Reports(p)' - Reports(p) = d[p]
        BY <1>1, <3>1, <4>1 DEF Reports
      <4>3. Holds(p)' - Holds(p) = d[p]
        BY <1>2, <3>1, <3>3, Places, HeldMeans, HeldMeansNext DEF Holds
      <4> QED
        BY <4>2, <4>3
    <3> QED
      BY <1>2, <3>4, Balance
  <2>5. n = Input \/ n = Inspect \/ ~Operate(n)
    <3>1. ~Revisited(n) => n \notin Ghost
      <4> SUFFICES ASSUME n \in Ghost PROVE n <= cursor
        BY DEF Revisited
      <4> QED
        BY DEF IInv, SchedulingTypes, Ghost, Wrapper, Sizes
    <3>2. n \in Child
      BY DEF TypeOK
    <3> QED
      BY <3>1, <3>2 DEF Operate, Child, Input, Inspect, Wrapper, Probe, Ghost, Sizes
  <2> QED
    BY <2>1, <2>2, <2>3, <2>4, <2>5
<1> QED
  BY <1>4, <1>5, <1>6, <1>7

-----------------------------------------------------------------------------
(* Together *)

LEMMA CountsInit == Sizes /\ Init => CInv
<1> SUFFICES ASSUME Sizes, Init PROVE CInv
  OBVIOUS
<1>1. TypeOK
  BY TypeInit
<1>2. MessagesKnown
  BY DEF Init, MessagesKnown, None, NoMessage, Epochs
<1>3. \A p \in Pointstamp : Reports(p) = Holds(p)
  <2> TAKE p \in Pointstamp
  <2>1. /\ known[p] = IF p \in {<<<<n, "out">>, 0>> : n \in {Input} \cup Ghost} THEN 1 ELSE 0
        /\ shared[p] = IF p \in {<<<<g, "out">>, 0>> : g \in Ghost} THEN -1 ELSE 0
        /\ batch[p] = 0 /\ pending[p] = 0
    BY ZeroType DEF Init, Indicator
  <2>2. p = <<p[1], p[2]>>
    BY PointstampMeans
  <2>3. Input \notin Ghost
    BY Indexes
  <2>4. p \in Held <=> p[1] = <<Input, "out">> /\ p[2] = 0
    BY HeldMeans DEF Init
  <2> QED
    BY <2>1, <2>2, <2>3, <2>4 DEF Reports, Holds
<1> QED
  BY <1>1, <1>2, <1>3, CountsMean DEF CInv

LEMMA CountsNext ==
  ASSUME Sizes, IInv, CInv, [Next]_vars
  PROVE  CInv'
<1> USE DEF CInv
<1>1. TypeOK'
  BY TypeNext
<1>2. MessagesKnown'
  BY MessageKnows, NothingKnows, RestKnows DEF Next, Step
<1>3. CountsConserved'
  BY <1>1, SendCounts, CloseCounts, MessageCounts, NothingCounts, ScheduleCounts DEF Next, Step
<1> QED
  BY <1>1, <1>2, <1>3

\* fpga_wrapper.rs and extract_progress in subgraph.rs: as long as every answer is there
\* when the wrapper asks, what was reported in the ghosts' names, wherever it is, adds up
\* to what the handle, the queues and the device hold; and no ghost reports for itself.
THEOREM CountsStandForDevice == ASSUME Sizes PROVE Spec => []GhostsStandIn
<1>1. Init => CInv
  BY CountsInit
<1>2. IInv /\ CInv /\ [Next]_vars => CInv'
  BY CountsNext
<1>3. IInv /\ CInv => GhostsStandIn
  BY DEF IInv, CInv, GhostsStandIn
<1>4. Spec => []IInv
  BY Invariance DEF Sizes
<1> QED
  BY <1>1, <1>2, <1>3, <1>4, PTL DEF Spec

-----------------------------------------------------------------------------
(* The probe is safe, also when the device is late *)

\* A program that waits for each epoch, as examples/hello.rs does.
Synchronous == MaxAhead = 1

\* What the device answered to a message of time t, of which it kept nothing or a window.
Answered(t, survives) == Answering(t, survives, IF survives THEN 1 ELSE 0)

\* Answers that say nothing, but for one.
Quiet(all) == \A k \in 1 .. Len(all) : all[k] = Nothing

Only(all, a) ==
  \E k \in 1 .. Len(all) : all[k] = a /\ \A j \in 1 .. Len(all) : j # k => all[j] = Nothing

\* What there is of the message of time t: it waits, or the device has it and has not been
\* heard, or was heard to keep it; its window is emitted, or its result waits.
Queued(t)     == queue = {t} /\ windows = {} /\ outbox = {} /\ Quiet(answers)
Asked(t, s)   == queue = {} /\ windows = (IF s THEN {t} ELSE {}) /\ outbox = {}
                   /\ Only(answers, Answered(t, s))
Kept(t)       == queue = {} /\ windows = {t} /\ outbox = {} /\ Quiet(answers)
Emitting(t)   == queue = {} /\ windows = {} /\ outbox = {} /\ Only(answers, Emitted(t))
Resulting(t)  == queue = {} /\ windows = {} /\ outbox = {t} /\ Quiet(answers)
Over          == queue = {} /\ windows = {} /\ outbox = {} /\ Quiet(answers)

\* Where it is counted.
InputOut == <<Input, "out">>
FirstIn == <<FirstGhost, "in">>
WindowOut == <<Window, "out">>
InspectIn == <<Inspect, "in">>

Owes(l, t) ==
  \/ l = FirstIn /\ (Queued(t) \/ Asked(t, TRUE) \/ Asked(t, FALSE))
  \/ l = WindowOut /\ (Kept(t) \/ Emitting(t))
  \/ l = InspectIn /\ Resulting(t)

\* One message at a time, the last that was sent.
OneAtATime == Over \/ \E t \in Epochs : t + 1 = epoch /\ \E l \in Place : Owes(l, t)

Owed == {p \in Pointstamp : p = <<InputOut, epoch>> \/ Owes(p[1], p[2])}

\* Every count stands for what is owed, although answers may be outstanding.
CountsOwed == \A p \in Pointstamp : Reports(p) = IF p \in Owed THEN 1 ELSE 0

\* The places on the way to l.
UpTo(l) ==
  CASE l = InputOut -> {InputOut}
    [] l = FirstIn -> {InputOut, FirstIn}
    [] l = WindowOut -> {InputOut, FirstIn, WindowOut}
    [] l = InspectIn -> {InputOut, FirstIn, WindowOut, InspectIn}

\* Some counts hold the frontier at or before all of O.
Covers(c, O) ==
  \A p \in O : \E q \in Pointstamp : c[q] > 0 /\ q[2] <= p[2] /\ q[1] \in UpTo(p[1])

\* What the handle did is reported before the wrapper is called; between calls the
\* wrapper has at most the ghosts' own capabilities to give up.
PendingKnown ==
  (\E p \in Pointstamp : pending[p] # 0) =>
    \/ cursor = Idle /\ Input \in activations
    \/ cursor = 0 /\ Input \in temp_active

SharedKnown == ~calling => \A p \in Pointstamp : shared[p] <= 0

PInv ==
  /\ OneAtATime /\ CountsOwed
  /\ Covers(known, Owed) /\ Covers(Plus(known, batch), Owed)
  /\ PendingKnown /\ SharedKnown
  /\ first # None => queue = {}
  /\ \A p \in Owed : probe <= p[2]

-----------------------------------------------------------------------------
(* Definitions of the second part in the form the proofs use *)

\* The four places are different, on the way one after the other.
LEMMA PlacesOnTheWay ==
  ASSUME Sizes
  PROVE  /\ InputOut # FirstIn /\ InputOut # WindowOut /\ InputOut # InspectIn
         /\ FirstIn # WindowOut /\ FirstIn # InspectIn /\ WindowOut # InspectIn
         /\ {InputOut, FirstIn, WindowOut, InspectIn} \subseteq Place
         /\ UpTo(InputOut) = {InputOut}
         /\ UpTo(FirstIn) = {InputOut, FirstIn}
         /\ UpTo(WindowOut) = {InputOut, FirstIn, WindowOut}
         /\ UpTo(InspectIn) = {InputOut, FirstIn, WindowOut, InspectIn}
<1>1. /\ InputOut # FirstIn /\ InputOut # WindowOut /\ InputOut # InspectIn
      /\ FirstIn # WindowOut /\ FirstIn # InspectIn /\ WindowOut # InspectIn
  BY Places DEF InputOut, FirstIn, WindowOut, InspectIn
<1>2. {InputOut, FirstIn, WindowOut, InspectIn} \subseteq Place
  BY Indexes DEF Place, InputOut, FirstIn, WindowOut, InspectIn
<1> QED
  BY <1>1, <1>2 DEF UpTo

\* The three kinds of answers differ.
LEMMA AnswersDiffer ==
  ASSUME Sizes, NEW t, NEW s \in BOOLEAN
  PROVE  /\ Answered(t, s) # Nothing /\ Emitted(t) # Nothing
         /\ Answered(t, s).data = FALSE /\ Answered(t, s).time = t
         /\ Emitted(t).data = TRUE /\ Emitted(t).time = t
<1>1. Answered(t, s).consumed[FirstGhost] = 1 /\ Nothing.consumed[FirstGhost] = 0
  BY Indexes DEF Answered, Answering, Nothing, NoCounts
<1> QED
  BY <1>1 DEF Answered, Answering, Emitted, Nothing

\* A message that finds no window is answered so.
LEMMA AnsweredNow ==
  ASSUME windows = {}, NEW t, NEW s \in BOOLEAN
  PROVE  Processed(t, s) = Answered(t, s)
BY DEF Processed, Answered, Answering

LEMMA AnsweredType ==
  ASSUME Sizes, NEW t \in Epochs, NEW s \in BOOLEAN
  PROVE  Answered(t, s) \in Answer
BY DEF Sizes, Answered, Answering, Answer, Epochs

\* What the counts of an answer change, at the time of its message.
LEMMA ReportedAnswered ==
  ASSUME Sizes, NEW t \in Epochs, NEW s \in BOOLEAN, NEW p \in Pointstamp
  PROVE  Reported(Answered(t, s), t)[p] =
           IF p = <<FirstIn, t>> THEN -1 ELSE IF s /\ p = <<WindowOut, t>> THEN 1 ELSE 0
<1>1. <<FirstIn, t>> # <<WindowOut, t>>
  BY PlacesOnTheWay
<1>2. Reported(Answered(t, s), t)[p] =
        CASE p = <<<<Window, "out">>, t>> -> IF s THEN 1 ELSE 0
          [] p = <<<<FirstGhost, "in">>, t>> -> -1
          [] OTHER -> 0
  BY ReportedAnswering DEF Answered
<1> QED
  BY <1>1, <1>2 DEF FirstIn, WindowOut

LEMMA ReportedEmitted ==
  ASSUME Sizes, NEW t \in Epochs, NEW m, NEW p \in Pointstamp
  PROVE  Reported(Emitted(t), m)[p] =
           IF p = <<WindowOut, t>> THEN -1 ELSE IF p = <<InspectIn, t>> THEN 1 ELSE 0
<1>1. <<InspectIn, t>> # <<WindowOut, t>>
  BY PlacesOnTheWay
<1> QED
  BY <1>1, ReportedWindow DEF InspectIn, WindowOut

\* One request: the oldest answer is taken, which says nothing, or what there is to say.
LEMMA TakeMeans ==
  ASSUME Sizes, TypeOK, NEW a \in Answer, NEW time, NEW late \in BOOLEAN,
         Take(Append(answers, a), time, late)
  PROVE  /\ Quiet(Append(answers, a)) =>
              Quiet(answers') /\ outbox' = outbox /\ \A p \in Pointstamp : shared'[p] = shared[p]
         /\ \A b \in Answer :
              Only(Append(answers, a), b) =>
                \/ /\ Only(answers', b)
                   /\ outbox' = outbox /\ \A p \in Pointstamp : shared'[p] = shared[p]
                \/ /\ Quiet(answers')
                   /\ outbox' = IF b.data THEN outbox \cup {b.time} ELSE outbox
                   /\ shared' = Plus(shared, Reported(b, IF time = NoMessage THEN b.time ELSE time))
<1> DEFINE all == Append(answers, a)
           r(h) == Reported(h, IF time = NoMessage THEN h.time ELSE time)
<1>1. all \in Seq(Answer) /\ Len(all) \in Nat /\ Len(all) > 0
  BY DEF TypeOK
<1>2. CASE late
  <2>1. answers' = all /\ UNCHANGED <<shared, outbox>>
    BY <1>2 DEF Take
  <2> QED
    BY <2>1
<1>3. CASE ~late
  <2>1. /\ answers' = Tail(all)
        /\ shared' = Plus(shared, r(Head(all)))
        /\ outbox' = IF Head(all).data THEN outbox \cup {Head(all).time} ELSE outbox
    BY <1>3 DEF Take
  <2> HIDE DEF all, r
  <2>2. /\ Head(all) = all[1] /\ Len(answers') = Len(all) - 1
        /\ \A k \in 1 .. Len(answers') : answers'[k] = all[k + 1] /\ k + 1 \in 1 .. Len(all)
        /\ \A k \in 2 .. Len(all) : k - 1 \in 1 .. Len(answers') /\ answers'[k - 1] = all[k]
    BY <1>1, <2>1
  <2>3. ASSUME all[1] = Nothing
        PROVE  outbox' = outbox /\ \A p \in Pointstamp : shared'[p] = shared[p]
    <3>1. outbox' = outbox
      BY <2>1, <2>2, <2>3 DEF Nothing
    <3>2. r(Nothing) \in [Pointstamp -> Int] /\ \A p \in Pointstamp : r(Nothing)[p] = 0
      <4>1. Nothing \in Answer
        BY AnswerTypes DEF Sizes, Epochs
      <4> QED
        BY <4>1, ReportedType, ReportedNothing DEF r
    <3>3. shared \in [Pointstamp -> Int] /\ shared' = Plus(shared, r(Nothing))
      BY <2>1, <2>2, <2>3 DEF TypeOK
    <3>4. \A p \in Pointstamp : shared'[p] = shared[p] + 0 /\ shared[p] \in Int
      BY <3>2, <3>3, PlusInt
    <3> QED
      BY <3>1, <3>4
  <2>4. ASSUME Quiet(all)
        PROVE  Quiet(answers') /\ all[1] = Nothing
    BY <1>1, <2>2, <2>4 DEF Quiet
  <2>5. ASSUME NEW b \in Answer, Only(all, b)
        PROVE  \/ Only(answers', b) /\ all[1] = Nothing
               \/ Quiet(answers') /\ all[1] = b
    <3>1. PICK k \in 1 .. Len(all) :
            all[k] = b /\ \A j \in 1 .. Len(all) : j # k => all[j] = Nothing
      BY <2>5 DEF Only
    <3>2. CASE k = 1
      BY <2>2, <3>1, <3>2 DEF Quiet
    <3>3. CASE k # 1
      <4>1. k \in 2 .. Len(all) /\ 1 \in 1 .. Len(all)
        BY <1>1, <3>3
      <4>2. answers'[k - 1] = b /\ k - 1 \in 1 .. Len(answers')
        BY <2>2, <3>1, <4>1
      <4>3. \A j \in 1 .. Len(answers') : j # k - 1 => answers'[j] = Nothing
        BY <2>2, <3>1
      <4> QED
        BY <3>1, <3>3, <4>1, <4>2, <4>3 DEF Only
    <3> QED
      BY <3>2, <3>3
  <2> QED
    BY <2>1, <2>2, <2>3, <2>4, <2>5 DEF all, r
<1> QED
  BY <1>2, <1>3

-----------------------------------------------------------------------------
(* What is owed, phase by phase *)

LEMMA PlacesOwed ==
  ASSUME NEW l, NEW t, Owes(l, t)
  PROVE  l \in {FirstIn, WindowOut, InspectIn}
BY DEF Owes

LEMMA OwesPhases ==
  ASSUME Sizes
  PROVE  \A t :
    /\ Owes(FirstIn, t) <=> Queued(t) \/ Asked(t, TRUE) \/ Asked(t, FALSE)
    /\ Owes(WindowOut, t) <=> Kept(t) \/ Emitting(t)
    /\ Owes(InspectIn, t) <=> Resulting(t)
BY PlacesOnTheWay DEF Owes

LEMMA OnlyOne ==
  ASSUME NEW all, NEW a, NEW b, a # Nothing, b # Nothing
  PROVE  /\ ~(Quiet(all) /\ Only(all, a))
         /\ Only(all, a) /\ Only(all, b) => a = b
BY DEF Quiet, Only

\* Nothing is in two phases, or in one for two times.
LEMMA PhasesApart ==
  ASSUME Sizes
  PROVE  \A l, k, t, u : Owes(l, t) => ~Over /\ (Owes(k, u) => l = k /\ t = u)
<1> SUFFICES ASSUME NEW l, NEW k, NEW t, NEW u, Owes(l, t)
             PROVE  ~Over /\ (Owes(k, u) => l = k /\ t = u)
  OBVIOUS
<1>1. /\ \A s \in BOOLEAN : Answered(t, s) # Nothing /\ Answered(u, s) # Nothing
      /\ Emitted(t) # Nothing /\ Emitted(u) # Nothing
      /\ \A s, r \in BOOLEAN : Answered(t, s) # Emitted(u) /\ Answered(u, s) # Emitted(t)
                                 /\ (Answered(t, s) = Answered(u, r) => t = u)
      /\ Emitted(t) = Emitted(u) => t = u
  <2>1. ASSUME NEW v, NEW s \in BOOLEAN
        PROVE  /\ Answered(v, s) # Nothing /\ Emitted(v) # Nothing
               /\ Answered(v, s).data = FALSE /\ Answered(v, s).time = v
               /\ Emitted(v).data = TRUE /\ Emitted(v).time = v
    BY AnswersDiffer
  <2>2. ASSUME NEW s \in BOOLEAN, NEW r \in BOOLEAN
        PROVE  /\ Answered(t, s) # Emitted(u) /\ Answered(u, s) # Emitted(t)
               /\ Answered(t, s) = Answered(u, r) => t = u
    <3>1. /\ Answered(t, s).data = FALSE /\ Answered(t, s).time = t
          /\ Answered(u, s).data = FALSE /\ Answered(u, r).time = u
          /\ Emitted(t).data = TRUE /\ Emitted(u).data = TRUE
      BY <2>1
    <3> QED
      BY <3>1
  <2>3. Emitted(t) = Emitted(u) => t = u
    BY <2>1
  <2> QED
    BY <2>1, <2>2, <2>3
<1>2. \A s, r \in BOOLEAN :
        /\ ~(Quiet(answers) /\ Only(answers, Answered(t, s)))
        /\ ~(Quiet(answers) /\ Only(answers, Answered(u, s)))
        /\ ~(Quiet(answers) /\ Only(answers, Emitted(t)))
        /\ ~(Quiet(answers) /\ Only(answers, Emitted(u)))
        /\ ~(Only(answers, Answered(t, s)) /\ Only(answers, Emitted(u)))
        /\ ~(Only(answers, Answered(u, s)) /\ Only(answers, Emitted(t)))
        /\ Only(answers, Answered(t, s)) /\ Only(answers, Answered(u, r)) => t = u
        /\ Only(answers, Emitted(t)) /\ Only(answers, Emitted(u)) => t = u
  BY <1>1, OnlyOne
<1>3. ~Over
  BY <1>2 DEF Owes, Over, Queued, Asked, Kept, Emitting, Resulting
<1>4. ASSUME Owes(k, u) PROVE l = k /\ t = u
  <2>1. TRUE \in BOOLEAN /\ FALSE \in BOOLEAN
    OBVIOUS
  <2>2. CASE Queued(t)
    BY <1>2, <1>4, <2>1, <2>2, PlacesOnTheWay, OwesPhases DEF Owes, Queued, Asked, Kept, Emitting, Resulting
  <2>3. CASE \E s \in BOOLEAN : Asked(t, s)
    BY <1>2, <1>4, <2>1, <2>3, PlacesOnTheWay DEF Owes, Queued, Asked, Kept, Emitting, Resulting
  <2>4. CASE Kept(t)
    BY <1>2, <1>4, <2>1, <2>4, PlacesOnTheWay DEF Owes, Queued, Asked, Kept, Emitting, Resulting
  <2>5. CASE Emitting(t)
    BY <1>2, <1>4, <2>1, <2>5, PlacesOnTheWay DEF Owes, Queued, Asked, Kept, Emitting, Resulting
  <2>6. CASE Resulting(t)
    BY <1>2, <1>4, <2>1, <2>6, PlacesOnTheWay DEF Owes, Queued, Asked, Kept, Emitting, Resulting
  <2> QED
    BY <2>1, <2>2, <2>3, <2>4, <2>5, <2>6 DEF Owes
<1> QED
  BY <1>3, <1>4

LEMMA OwedMeans ==
  ASSUME Sizes
  PROVE  /\ Over => \A p \in Pointstamp : p \in Owed <=> p = <<InputOut, epoch>>
         /\ \A l, t : Owes(l, t) =>
              \A p \in Pointstamp : p \in Owed <=> p = <<InputOut, epoch>> \/ p = <<l, t>>
<1>1. \A p \in Pointstamp : p = <<p[1], p[2]>>
  BY PointstampMeans
<1> QED
  BY <1>1, PhasesApart DEF Owed

LEMMA OwedMeansNext ==
  ASSUME Sizes
  PROVE  /\ Over' => \A p \in Pointstamp : p \in Owed' <=> p = <<InputOut, epoch'>>
         /\ \A l, t : Owes(l, t)' =>
              \A p \in Pointstamp : p \in Owed' <=> p = <<InputOut, epoch'>> \/ p = <<l, t>>
<1>1. /\ Over => \A p \in Pointstamp : p \in Owed <=> p = <<InputOut, epoch>>
      /\ \A l, t : Owes(l, t) =>
           \A p \in Pointstamp : p \in Owed <=> p = <<InputOut, epoch>> \/ p = <<l, t>>
  BY OwedMeans
<1>2. (/\ Over => \A p \in Pointstamp : p \in Owed <=> p = <<InputOut, epoch>>
       /\ \A l, t : Owes(l, t) =>
            \A p \in Pointstamp : p \in Owed <=> p = <<InputOut, epoch>> \/ p = <<l, t>>)'
  BY <1>1, PTL
<1> QED
  BY <1>2

-----------------------------------------------------------------------------
(* What is owed moves on along the way *)

\* Everything owed after the step was owed before at an earlier place or time.
OwedLater ==
  \A p \in Owed' : \E o \in Owed : o[2] <= p[2] /\ UpTo(o[1]) \subseteq UpTo(p[1])

Moves == OneAtATime' /\ CountsOwed' /\ OwedLater

LEMMA OwedTypes ==
  ASSUME Sizes
  PROVE  /\ Owed \subseteq Pointstamp
         /\ \A p \in Owed : p[1] \in {InputOut, FirstIn, WindowOut, InspectIn} /\ p[1] \in UpTo(p[1])
         /\ \A p \in Pointstamp : p[2] \in Nat
<1>1. \A p \in Pointstamp : p = <<p[1], p[2]>> /\ p[2] \in Nat
  BY PointstampMeans, Indexes
<1>2. Owed \subseteq Pointstamp
  BY DEF Owed
<1>3. ASSUME NEW p \in Owed PROVE p[1] \in {InputOut, FirstIn, WindowOut, InspectIn}
  <2>1. CASE p = <<InputOut, epoch>>
    BY <2>1
  <2>2. CASE Owes(p[1], p[2])
    BY <2>2, PlacesOwed
  <2> QED
    BY <2>1, <2>2 DEF Owed
<1> QED
  BY <1>1, <1>2, <1>3, PlacesOnTheWay

\* Counts that cover what was owed before cover what is owed after.
LEMMA LaterCovers ==
  ASSUME Sizes, NEW O \in SUBSET Pointstamp, NEW N \in SUBSET Pointstamp,
         \A p \in N : \E o \in O : o[2] <= p[2] /\ UpTo(o[1]) \subseteq UpTo(p[1])
  PROVE  /\ \A c : Covers(c, O) => Covers(c, N)
         /\ \A b \in Nat : (\A p \in O : b <= p[2]) => \A p \in N : b <= p[2]
<1>1. \A p \in Pointstamp : p[2] \in Nat
  BY OwedTypes
<1>2. ASSUME NEW c, Covers(c, O), NEW p \in N
      PROVE  \E q \in Pointstamp : c[q] > 0 /\ q[2] <= p[2] /\ q[1] \in UpTo(p[1])
  <2>1. PICK o \in O : o[2] <= p[2] /\ UpTo(o[1]) \subseteq UpTo(p[1])
    OBVIOUS
  <2>2. PICK q \in Pointstamp : c[q] > 0 /\ q[2] <= o[2] /\ q[1] \in UpTo(o[1])
    BY <1>2 DEF Covers
  <2>3. q[2] <= p[2]
    BY <1>1, <2>1, <2>2
  <2> QED
    BY <2>1, <2>2, <2>3
<1>3. ASSUME NEW b \in Nat, \A p \in O : b <= p[2], NEW p \in N PROVE b <= p[2]
  BY <1>1, <1>3
<1> QED
  BY <1>2, <1>3 DEF Covers

\* The counts of what was owed at l go to k.
LEMMA Handed ==
  ASSUME Sizes, CountsOwed, epoch' = epoch, NEW t \in Epochs, t + 1 = epoch,
         NEW l, NEW k, Owes(l, t), Owes(k, t)', UpTo(l) \subseteq UpTo(k),
         \A p \in Pointstamp :
           Reports(p)' = IF l = k THEN Reports(p)
                         ELSE IF p = <<l, t>> THEN Reports(p) - 1
                         ELSE IF p = <<k, t>> THEN Reports(p) + 1
                         ELSE Reports(p)
  PROVE  Moves
<1>1. /\ \A p \in Pointstamp : p \in Owed <=> p = <<InputOut, epoch>> \/ p = <<l, t>>
      /\ \A p \in Pointstamp : p \in Owed' <=> p = <<InputOut, epoch>> \/ p = <<k, t>>
  BY OwedMeans, OwedMeansNext
<1>2. l \in {FirstIn, WindowOut, InspectIn} /\ l # InputOut
  BY PlacesOwed, PlacesOnTheWay
<1>3. k \in {FirstIn, WindowOut, InspectIn} /\ k # InputOut
  <2>1. Owes(k, t)' => k \in {FirstIn, WindowOut, InspectIn}
    BY DEF Owes
  <2> QED
    BY <2>1, PlacesOnTheWay
<1>4. k \in Place /\ l \in Place /\ <<k, t>> \in Pointstamp /\ <<l, t>> \in Pointstamp
  BY <1>2, <1>3, PlacesOnTheWay DEF Pointstamp
<1>5. OneAtATime'
  BY <1>4 DEF OneAtATime
<1>6. CountsOwed'
  <2>1. ASSUME NEW p \in Pointstamp PROVE Reports(p)' = IF p \in Owed' THEN 1 ELSE 0
    <3>1. Reports(p) = IF p \in Owed THEN 1 ELSE 0
      BY DEF CountsOwed
    <3> QED
      BY <1>1, <1>2, <1>3, <3>1
  <2> QED
    BY <2>1 DEF CountsOwed
<1>7. OwedLater
  <2>1. \A p \in Pointstamp : p[2] \in Nat
    BY OwedTypes
  <2>2. Owed' \subseteq Pointstamp
    BY DEF Owed
  <2>3. ASSUME NEW p \in Owed'
        PROVE  \E o \in Owed : o[2] <= p[2] /\ UpTo(o[1]) \subseteq UpTo(p[1])
    <3>1. CASE p = <<InputOut, epoch>>
      BY <1>1, <2>1, <2>2, <3>1
    <3>2. CASE p = <<k, t>>
      <4>1. <<l, t>> \in Owed
        BY <1>1, <1>4
      <4> QED
        BY <2>1, <1>4, <3>2, <4>1
    <3> QED
      BY <1>1, <2>2, <3>1, <3>2
  <2> QED
    BY <2>3 DEF OwedLater
<1> QED
  BY <1>5, <1>6, <1>7 DEF Moves

\* Nothing is left of it, or nothing has been for a while.
LEMMA Done ==
  ASSUME Sizes, CountsOwed, epoch' = epoch, Over',
         \/ \E l, t : /\ Owes(l, t)
                      /\ \A p \in Pointstamp :
                           Reports(p)' = IF p = <<l, t>> THEN Reports(p) - 1 ELSE Reports(p)
         \/ Over /\ \A p \in Pointstamp : Reports(p)' = Reports(p)
  PROVE  Moves
<1>1. \A p \in Pointstamp : p \in Owed' <=> p = <<InputOut, epoch>>
  BY OwedMeansNext
<1>2. \A p \in Pointstamp : Reports(p) = IF p \in Owed THEN 1 ELSE 0
  BY DEF CountsOwed
<1>3. \A p \in Pointstamp : p = <<InputOut, epoch>> => p \in Owed
  BY DEF Owed
<1>4. CountsOwed'
  <2>1. ASSUME NEW l, NEW t, Owes(l, t), NEW p \in Pointstamp,
               Reports(p)' = IF p = <<l, t>> THEN Reports(p) - 1 ELSE Reports(p)
        PROVE  Reports(p)' = IF p \in Owed' THEN 1 ELSE 0
    <3>1. p \in Owed <=> p = <<InputOut, epoch>> \/ p = <<l, t>>
      BY <2>1, OwedMeans
    <3>2. l # InputOut
      BY <2>1, PlacesOwed, PlacesOnTheWay
    <3> QED
      BY <1>1, <1>2, <2>1, <3>1, <3>2
  <2>2. ASSUME Over, NEW p \in Pointstamp, Reports(p)' = Reports(p)
        PROVE  Reports(p)' = IF p \in Owed' THEN 1 ELSE 0
    <3>1. p \in Owed <=> p = <<InputOut, epoch>>
      BY <2>2, OwedMeans
    <3> QED
      BY <1>1, <1>2, <2>2, <3>1
  <2>3. \A p \in Pointstamp : Reports(p)' = IF p \in Owed' THEN 1 ELSE 0
    BY <2>1, <2>2
  <2> QED
    BY <2>3 DEF CountsOwed
<1>5. OwedLater
  <2>1. \A p \in Pointstamp : p[2] \in Nat /\ p[2] <= p[2]
    BY OwedTypes
  <2>2. Owed' \subseteq Pointstamp
    BY DEF Owed
  <2> QED
    BY <1>1, <1>3, <2>1, <2>2 DEF OwedLater
<1> QED
  BY <1>4, <1>5 DEF Moves, OneAtATime

\* The queues and the device, and the sums of the counts, are as they were.
LEMMA Unmoved ==
  ASSUME Sizes, CountsOwed, OneAtATime, UNCHANGED <<epoch, queue, windows, outbox, answers>>,
         \A p \in Pointstamp : Reports(p)' = Reports(p)
  PROVE  Moves /\ Owed' = Owed
<1>1. Over' <=> Over
  BY DEF Over
<1>2. \A l, t : Owes(l, t)' <=> Owes(l, t)
  BY DEF Owes, Queued, Asked, Kept, Emitting, Resulting
<1>3. Owed' = Owed
  BY <1>2 DEF Owed
<1>4. OneAtATime' /\ CountsOwed'
  BY <1>1, <1>2, <1>3 DEF OneAtATime, CountsOwed
<1>5. OwedLater
  BY <1>3, OwedTypes DEF OwedLater
<1> QED
  BY <1>3, <1>4, <1>5 DEF Moves

\* What the counts and the probe make of it.
LEMMA MovesKeeps ==
  ASSUME Sizes, TypeOK, PInv, Moves
  PROVE  /\ Covers(known, Owed') /\ Covers(Plus(known, batch), Owed')
         /\ \A p \in Owed' : probe <= p[2]
<1>1. Owed \in SUBSET Pointstamp /\ Owed' \in SUBSET Pointstamp
  BY DEF Owed
<1>2. probe \in Nat
  BY Indexes DEF TypeOK
<1> QED
  BY <1>1, <1>2, LaterCovers DEF PInv, Moves, OwedLater

-----------------------------------------------------------------------------
(* The program and the start *)

LEMMA ProbeInit == ASSUME Sizes, Init PROVE PInv
<1>1. TypeOK /\ CountsConserved /\ Over
  <2>1. Quiet(answers)
    BY DEF Init, Quiet
  <2> QED
    BY <2>1, CountsInit DEF CInv, Init, Over
<1>2. \A p \in Pointstamp : p \in Owed <=> p = <<InputOut, 0>>
  BY <1>1, OwedMeans DEF Init
<1>3. /\ \A p \in Pointstamp : known[p] = IF p \in {<<<<n, "out">>, 0>> : n \in {Input} \cup Ghost} THEN 1 ELSE 0
      /\ \A p \in Pointstamp : shared[p] = IF p \in {<<<<g, "out">>, 0>> : g \in Ghost} THEN -1 ELSE 0
      /\ \A p \in Pointstamp : batch[p] = 0 /\ pending[p] = 0
  BY ZeroType DEF Init, Indicator
<1>4. CountsOwed
  <2>1. ASSUME NEW p \in Pointstamp PROVE Reports(p) = IF p \in Owed THEN 1 ELSE 0
    <3>1. p = <<p[1], p[2]>> /\ Input \notin Ghost
      BY PointstampMeans, Indexes
    <3> QED
      BY <1>2, <1>3, <3>1 DEF Reports, InputOut
  <2> QED
    BY <2>1 DEF CountsOwed
<1>5. <<InputOut, 0>> \in Pointstamp
  BY PlacesOnTheWay DEF Pointstamp, Epochs, Sizes
<1>6. Covers(known, Owed) /\ Covers(Plus(known, batch), Owed)
  <2>1. known[<<InputOut, 0>>] = 1 /\ Plus(known, batch)[<<InputOut, 0>>] = 1
    <3>1. known[<<InputOut, 0>>] = 1 /\ batch[<<InputOut, 0>>] = 0
      BY <1>3, <1>5 DEF InputOut
    <3>2. known \in [Pointstamp -> Int] /\ batch \in [Pointstamp -> Int]
      BY <1>1 DEF TypeOK
    <3> QED
      BY <1>5, <3>1, <3>2, PlusInt
  <2>2. Owed = {<<InputOut, 0>>}
    BY <1>2, <1>5 DEF Owed
  <2> QED
    BY <1>5, <2>1, <2>2, PlacesOnTheWay DEF Covers
<1>7. \A p \in Owed : probe <= p[2]
  BY <1>2 DEF Owed, Init
<1> QED
  BY <1>1, <1>3, <1>4, <1>6, <1>7 DEF PInv, OneAtATime, PendingKnown, SharedKnown, Init

\* A program that waits for the epoch before has nothing left of the message before.
LEMMA Waited ==
  ASSUME Sizes, TypeOK, PInv, epoch <= probe, epoch # Never
  PROVE  Over /\ epoch \in Epochs /\ epoch \in Nat
<1>1. epoch \in Epochs /\ epoch \in Nat /\ probe \in Nat
  BY Indexes DEF TypeOK
<1>2. ASSUME NEW t \in Epochs, t + 1 = epoch, NEW l \in Place, Owes(l, t) PROVE FALSE
  <2>1. <<l, t>> \in Owed
    BY <1>2 DEF Owed, Pointstamp
  <2>2. probe <= t /\ t \in Nat
    BY <2>1, Indexes DEF PInv
  <2> QED
    BY <1>1, <1>2, <2>2
<1> QED
  BY <1>1, <1>2 DEF PInv, OneAtATime

LEMMA SendProbe ==
  ASSUME Sizes, Synchronous, IInv, CInv, PInv, Send
  PROVE  PInv'
<1>1. TypeOK /\ MessagesKnown
  BY DEF CInv
<1>2. Over /\ epoch \in Epochs /\ epoch \in Nat /\ epoch + 1 \in Epochs /\ epoch' = epoch + 1
  <2>1. probe \in Nat /\ (epoch \in Epochs \cup {Never}) /\ MaxTime \in Nat
    BY <1>1, Indexes DEF TypeOK, Sizes
  <2>2. epoch <= MaxTime /\ epoch < probe + 1
    BY DEF Send, Synchronous
  <2>3. epoch \in Nat /\ epoch # Never /\ epoch <= probe
    BY <2>1, <2>2, Indexes DEF Never
  <2>4. Over
    BY <1>1, <2>3, Waited
  <2> QED
    BY <2>1, <2>2, <2>3, <2>4 DEF Send, Epochs
<1> PICK e \in Epochs : e = epoch
  BY <1>2
<1>3. Queued(e)'
  BY <1>2 DEF Send, Over, Queued, device
<1>4. Owes(FirstIn, e)'
  BY <1>3 DEF Owes
<1>5. /\ \A p \in Pointstamp : p \in Owed <=> p = <<InputOut, epoch>>
      /\ \A p \in Pointstamp : p \in Owed' <=> p = <<InputOut, epoch + 1>> \/ p = <<FirstIn, e>>
  BY <1>2, <1>4, OwedMeans, OwedMeansNext
<1>6. /\ <<InputOut, epoch>> \in Pointstamp /\ <<InputOut, epoch + 1>> \in Pointstamp
      /\ <<FirstIn, e>> \in Pointstamp /\ FirstIn \in Place
  BY <1>2, PlacesOnTheWay DEF Pointstamp
<1>7. CountsOwed'
  <2> DEFINE d == [p \in Pointstamp |->
                    IF p \in {<<<<FirstGhost, "in">>, epoch>>, <<<<Input, "out">>, epoch + 1>>}
                    THEN 1 ELSE IF p = <<<<Input, "out">>, epoch>> THEN -1 ELSE 0]
  <2>1. \A p \in Pointstamp : /\ pending'[p] = pending[p] + d[p]
                              /\ d[p] = IF p \in {<<FirstIn, e>>, <<InputOut, epoch + 1>>}
                                        THEN 1 ELSE IF p = <<InputOut, epoch>> THEN -1 ELSE 0
    BY DEF Send, Plus, FirstIn, InputOut
  <2> HIDE DEF d
  <2>2. ASSUME NEW p \in Pointstamp PROVE Reports(p)' = IF p \in Owed' THEN 1 ELSE 0
    <3>1. Reports(p) = IF p \in Owed THEN 1 ELSE 0
      BY DEF PInv, CountsOwed
    <3>2. Reports(p)' = Reports(p) + d[p]
      <4>1. /\ known[p] \in Int /\ batch[p] \in Int /\ shared[p] \in Int /\ pending[p] \in Int
            /\ d[p] \in Int
        <5>1. /\ known \in [Pointstamp -> Int] /\ batch \in [Pointstamp -> Int]
              /\ shared \in [Pointstamp -> Int] /\ pending \in [Pointstamp -> Int]
          BY <1>1 DEF TypeOK
        <5> QED
          BY <2>1, <5>1
      <4>2. known' = known /\ batch' = batch /\ shared' = shared
        BY DEF Send, counts
      <4> QED
        BY <2>1, <4>1, <4>2 DEF Reports
    <3>3. <<InputOut, epoch>> # <<InputOut, epoch + 1>> /\ <<InputOut, epoch>> # <<FirstIn, e>>
      BY <1>2, PlacesOnTheWay
    <3> QED
      BY <1>5, <2>1, <3>1, <3>2, <3>3
  <2> QED
    BY <2>2 DEF CountsOwed
<1>8. OwedLater
  <2>1. <<InputOut, epoch>> \in Owed /\ Owed' \subseteq Pointstamp
    BY <1>5, <1>6 DEF Owed
  <2>2. UpTo(InputOut) \subseteq UpTo(FirstIn)
    BY PlacesOnTheWay
  <2> QED
    BY <1>2, <1>5, <2>1, <2>2 DEF OwedLater
<1>9. OneAtATime'
  BY <1>2, <1>4, <1>6 DEF OneAtATime
<1>10. first = None
  <2>1. ~calling
    BY DEF Send, IInv, Idle, Wrapper, Sizes
  <2> QED
    BY <1>1, <2>1 DEF MessagesKnown
<1>11. Covers(known, Owed') /\ Covers(Plus(known, batch), Owed') /\ \A p \in Owed' : probe <= p[2]
  BY <1>1, <1>7, <1>8, <1>9, MovesKeeps DEF Moves
<1> QED
  BY <1>7, <1>9, <1>10, <1>11 DEF PInv, Send, counts, PendingKnown, SharedKnown

LEMMA CloseProbe ==
  ASSUME Sizes, IInv, CInv, PInv, Close
  PROVE  PInv'
<1>1. TypeOK /\ MessagesKnown
  BY DEF CInv
<1>2. Over /\ epoch \in Epochs
  BY <1>1, Waited DEF Close
<1>3. Over'
  BY <1>2 DEF Close, Over, device
<1>4. \A p \in Pointstamp : p \in Owed <=> p = <<InputOut, epoch>>
  BY <1>2, OwedMeans
<1>5. \A p \in Pointstamp : p \notin Owed'
  <2>1. \A p \in Pointstamp : p # <<InputOut, Never>>
    BY Indexes DEF Pointstamp
  <2> QED
    BY <1>3, <2>1, OwedMeansNext DEF Close
<1>6. CountsOwed'
  <2> DEFINE d == [p \in Pointstamp |-> IF p = <<<<Input, "out">>, epoch>> THEN -1 ELSE 0]
  <2>1. \A p \in Pointstamp : /\ pending'[p] = pending[p] + d[p]
                              /\ d[p] = IF p = <<InputOut, epoch>> THEN -1 ELSE 0
    BY DEF Close, Plus, InputOut
  <2> HIDE DEF d
  <2>2. ASSUME NEW p \in Pointstamp PROVE Reports(p)' = IF p \in Owed' THEN 1 ELSE 0
    <3>1. Reports(p) = IF p \in Owed THEN 1 ELSE 0
      BY DEF PInv, CountsOwed
    <3>2. Reports(p)' = Reports(p) + d[p]
      <4>1. /\ known[p] \in Int /\ batch[p] \in Int /\ shared[p] \in Int /\ pending[p] \in Int
            /\ d[p] \in Int
        <5>1. /\ known \in [Pointstamp -> Int] /\ batch \in [Pointstamp -> Int]
              /\ shared \in [Pointstamp -> Int] /\ pending \in [Pointstamp -> Int]
          BY <1>1 DEF TypeOK
        <5> QED
          BY <2>1, <5>1
      <4>2. known' = known /\ batch' = batch /\ shared' = shared
        BY DEF Close, counts
      <4> QED
        BY <2>1, <4>1, <4>2 DEF Reports
    <3> QED
      BY <1>4, <1>5, <2>1, <3>1, <3>2
  <2> QED
    BY <2>2 DEF CountsOwed
<1>7. Owed' = {}
  BY <1>5 DEF Owed
<1>8. first = None
  <2>1. ~calling
    BY DEF Close, IInv, Idle, Wrapper, Sizes
  <2> QED
    BY <1>1, <2>1 DEF MessagesKnown
<1> QED
  BY <1>3, <1>6, <1>7, <1>8 DEF PInv, Close, OneAtATime, Covers, counts, PendingKnown, SharedKnown

-----------------------------------------------------------------------------
(* Requests to the device *)

\* The counts change by what was shared.
LEMMA SharedReports ==
  ASSUME Sizes, TypeOK, UNCHANGED <<known, batch, pending>>
  PROVE  /\ \A p \in Pointstamp : shared'[p] = shared[p] => Reports(p)' = Reports(p)
         /\ \A r \in [Pointstamp -> Int] : shared' = Plus(shared, r) =>
              \A p \in Pointstamp : Reports(p)' = Reports(p) + r[p]
<1>1. /\ known \in [Pointstamp -> Int] /\ batch \in [Pointstamp -> Int]
      /\ shared \in [Pointstamp -> Int] /\ pending \in [Pointstamp -> Int]
  BY DEF TypeOK
<1>2. ASSUME NEW r \in [Pointstamp -> Int], shared' = Plus(shared, r), NEW p \in Pointstamp
      PROVE  Reports(p)' = Reports(p) + r[p]
  <2>1. shared'[p] = shared[p] + r[p]
    BY <1>1, <1>2, PlusInt
  <2>2. known[p] \in Int /\ batch[p] \in Int /\ shared[p] \in Int /\ pending[p] \in Int /\ r[p] \in Int
    BY <1>1
  <2> QED
    BY <2>1, <2>2 DEF Reports
<1> QED
  BY <1>2 DEF Reports

\* The answer to the message is outstanding, or was heard.
LEMMA HearsMessage ==
  ASSUME Sizes, TypeOK, CountsOwed, UNCHANGED <<epoch, known, batch, pending>>,
         NEW a \in Answer, NEW time, NEW late \in BOOLEAN, NEW t \in Epochs, t + 1 = epoch,
         NEW s \in BOOLEAN,
         Take(Append(answers, a), time, late),
         time = NoMessage \/ time = t,
         Only(Append(answers, a), Answered(t, s)),
         outbox = {}, Owes(FirstIn, t),
         queue' = {}, windows' = IF s THEN {t} ELSE {}
  PROVE  Moves
<1> DEFINE b == Answered(t, s)
<1>1. b \in Answer /\ b.data = FALSE /\ b.time = t /\ b # Nothing
  BY AnsweredType, AnswersDiffer
<1>2. (IF time = NoMessage THEN b.time ELSE time) = t
  BY <1>1
<1> HIDE DEF b
<1>3. \/ /\ Only(answers', b)
         /\ outbox' = outbox /\ \A p \in Pointstamp : shared'[p] = shared[p]
      \/ /\ Quiet(answers')
         /\ outbox' = outbox
         /\ shared' = Plus(shared, Reported(b, t))
  <2>1. Only(Append(answers, a), b)
    BY DEF b
  <2> QED
    BY <1>1, <1>2, <2>1, TakeMeans
<1>4. CASE Only(answers', b) /\ outbox' = outbox /\ \A p \in Pointstamp : shared'[p] = shared[p]
  <2>1. Asked(t, s)'
    BY <1>4 DEF Asked, b
  <2>2. Owes(FirstIn, t)'
    <3>1. s = TRUE \/ s = FALSE
      OBVIOUS
    <3> QED
      BY <2>1, <3>1 DEF Owes
  <2>3. \A p \in Pointstamp : Reports(p)' = Reports(p)
    BY <1>4, SharedReports
  <2> QED
    BY <2>2, <2>3, Handed
<1>5. CASE Quiet(answers') /\ outbox' = outbox /\ shared' = Plus(shared, Reported(b, t))
  <2>1. \A p \in Pointstamp :
          Reported(b, t)[p] =
            IF p = <<FirstIn, t>> THEN -1 ELSE IF s /\ p = <<WindowOut, t>> THEN 1 ELSE 0
    BY ReportedAnswered DEF b
  <2>2. Reported(b, t) \in [Pointstamp -> Int]
    BY <1>1, ReportedType
  <2>3. \A p \in Pointstamp : Reports(p)' = Reports(p) + Reported(b, t)[p] /\ Reports(p) \in Int
    <3>1. \A p \in Pointstamp : Reports(p) \in Int
      BY DEF Reports, TypeOK
    <3> QED
      BY <1>5, <2>2, <3>1, SharedReports
  <2>4. CASE s
    <3>1. Kept(t)'
      BY <1>5, <2>4 DEF Kept
    <3>2. Owes(WindowOut, t)'
      BY <3>1 DEF Owes
    <3>3. FirstIn # WindowOut /\ UpTo(FirstIn) \subseteq UpTo(WindowOut)
      BY PlacesOnTheWay
    <3>4. \A p \in Pointstamp :
            Reports(p)' = IF p = <<FirstIn, t>> THEN Reports(p) - 1
                          ELSE IF p = <<WindowOut, t>> THEN Reports(p) + 1
                          ELSE Reports(p)
      BY <2>1, <2>3, <2>4
    <3> QED
      BY <3>2, <3>3, <3>4, Handed
  <2>5. CASE ~s
    <3>1. Over'
      BY <1>5, <2>5 DEF Over
    <3>2. \A p \in Pointstamp :
            Reports(p)' = IF p = <<FirstIn, t>> THEN Reports(p) - 1 ELSE Reports(p)
      BY <2>1, <2>3, <2>5
    <3> QED
      BY <3>1, <3>2, Done
  <2> QED
    BY <2>4, <2>5
<1> QED
  BY <1>3, <1>4, <1>5

\* A window was emitted, and the result is outstanding or was heard of.
LEMMA HearsWindow ==
  ASSUME Sizes, TypeOK, CountsOwed, UNCHANGED <<epoch, known, batch, pending>>,
         NEW a \in Answer, NEW late \in BOOLEAN, NEW t \in Epochs, t + 1 = epoch,
         Take(Append(answers, a), NoMessage, late),
         Only(Append(answers, a), Emitted(t)),
         outbox = {}, Owes(WindowOut, t),
         queue' = {}, windows' = {}
  PROVE  Moves
<1> DEFINE b == Emitted(t)
<1>1. b \in Answer /\ b.data = TRUE /\ b.time = t
  BY AnswerTypes, AnswersDiffer DEF Emitted
<1> HIDE DEF b
<1>3. \/ /\ Only(answers', b)
         /\ outbox' = outbox /\ \A p \in Pointstamp : shared'[p] = shared[p]
      \/ /\ Quiet(answers')
         /\ outbox' = outbox \cup {t}
         /\ shared' = Plus(shared, Reported(b, t))
  <2>1. Only(Append(answers, a), b)
    BY DEF b
  <2> QED
    BY <1>1, <2>1, TakeMeans
<1>4. CASE Only(answers', b) /\ outbox' = outbox /\ \A p \in Pointstamp : shared'[p] = shared[p]
  <2>1. Emitting(t)'
    BY <1>4 DEF Emitting, b
  <2>2. Owes(WindowOut, t)'
    BY <2>1 DEF Owes
  <2>3. \A p \in Pointstamp : Reports(p)' = Reports(p)
    BY <1>4, SharedReports
  <2> QED
    BY <2>2, <2>3, Handed
<1>5. CASE Quiet(answers') /\ outbox' = outbox \cup {t} /\ shared' = Plus(shared, Reported(b, t))
  <2>1. \A p \in Pointstamp :
          Reported(b, t)[p] =
            IF p = <<WindowOut, t>> THEN -1 ELSE IF p = <<InspectIn, t>> THEN 1 ELSE 0
    BY ReportedEmitted DEF b
  <2>2. Reported(b, t) \in [Pointstamp -> Int]
    BY <1>1, ReportedType
  <2>3. \A p \in Pointstamp : Reports(p)' = Reports(p) + Reported(b, t)[p] /\ Reports(p) \in Int
    <3>1. \A p \in Pointstamp : Reports(p) \in Int
      BY DEF Reports, TypeOK
    <3> QED
      BY <1>5, <2>2, <3>1, SharedReports
  <2>4. Resulting(t)'
    BY <1>5 DEF Resulting
  <2>5. Owes(InspectIn, t)'
    BY <2>4 DEF Owes
  <2>6. WindowOut # InspectIn /\ UpTo(WindowOut) \subseteq UpTo(InspectIn)
    BY PlacesOnTheWay
  <2>7. \A p \in Pointstamp :
          Reports(p)' = IF p = <<WindowOut, t>> THEN Reports(p) - 1
                        ELSE IF p = <<InspectIn, t>> THEN Reports(p) + 1
                        ELSE Reports(p)
    BY <2>1, <2>3
  <2> QED
    BY <2>5, <2>6, <2>7, Handed
<1> QED
  BY <1>3, <1>4, <1>5

\* There is nothing new.
LEMMA HearsNothing ==
  ASSUME Sizes, TypeOK, CountsOwed, UNCHANGED <<epoch, known, batch, pending, windows>>,
         NEW late \in BOOLEAN, NEW t \in Epochs,
         Take(Append(answers, Nothing), NoMessage, late), queue = {}, queue' = {},
         Over \/ (t + 1 = epoch /\ (Kept(t) \/ Resulting(t)))
  PROVE  Moves
<1>1. Nothing \in Answer
  BY AnswerTypes
<1>2. Quiet(Append(answers, Nothing))
  <2>1. Quiet(answers) /\ answers \in Seq(Answer)
    BY DEF Over, Kept, Resulting, TypeOK
  <2> QED
    BY <2>1 DEF Quiet
<1>3. Quiet(answers') /\ outbox' = outbox /\ \A p \in Pointstamp : shared'[p] = shared[p]
  BY <1>1, <1>2, TakeMeans
<1>4. \A p \in Pointstamp : Reports(p)' = Reports(p)
  BY <1>3, SharedReports
<1>5. CASE Over
  <2>1. Over'
    BY <1>3, <1>5 DEF Over
  <2> QED
    BY <1>4, <1>5, <2>1, Done
<1>6. CASE t + 1 = epoch /\ Kept(t)
  <2>1. Kept(t)' /\ Owes(WindowOut, t)
    BY <1>3, <1>6 DEF Kept, Owes
  <2>2. Owes(WindowOut, t)'
    BY <2>1 DEF Owes
  <2> QED
    BY <1>4, <1>6, <2>1, <2>2, Handed
<1>7. CASE t + 1 = epoch /\ Resulting(t)
  <2>1. Resulting(t)' /\ Owes(InspectIn, t)
    BY <1>3, <1>7 DEF Resulting, Owes
  <2>2. Owes(InspectIn, t)'
    BY <2>1 DEF Owes
  <2> QED
    BY <1>4, <1>7, <2>1, <2>2, Handed
<1> QED
  BY <1>5, <1>6, <1>7

LEMMA MessageProbe ==
  ASSUME Sizes, CInv, PInv, NEW survives \in BOOLEAN, NEW late \in BOOLEAN,
         ExchangeMessage(survives, late)
  PROVE  PInv'
<1>1. TypeOK /\ MessagesKnown /\ CountsOwed
  BY DEF CInv, PInv
<1>2. first = None
  BY DEF PInv, ExchangeMessage
<1>3. PICK t \in Epochs : t + 1 = epoch /\ Queued(t)
  <2>1. queue # {}
    BY DEF ExchangeMessage
  <2>2. PICK t \in Epochs, l \in Place : t + 1 = epoch /\ Owes(l, t)
    BY <2>1 DEF PInv, OneAtATime, Over
  <2> QED
    BY <2>1, <2>2 DEF Owes, Queued, Asked, Kept, Emitting, Resulting
<1>4. queue = {t} /\ windows = {} /\ outbox = {} /\ Quiet(answers) /\ Least(queue) = t
  <2>1. queue = {t} /\ windows = {} /\ outbox = {} /\ Quiet(answers)
    BY <1>3 DEF Queued
  <2>2. Least(queue) \in queue
    BY <2>1, LeastIn, Indexes
  <2> QED
    BY <2>1, <2>2
<1> DEFINE b == Answered(t, survives)
<1>5. /\ calling /\ calling' /\ queue' = {} /\ first' = t /\ t # None
      /\ windows' = IF survives THEN {t} ELSE {}
      /\ Take(Append(answers, b), t, late)
      /\ activations \subseteq activations'
      /\ UNCHANGED <<handle, known, batch, temp_active, cursor, probe>>
  <2>1. Processed(t, survives) = b
    BY <1>4, AnsweredNow
  <2>2. t # None
    BY Indexes DEF None
  <2> QED
    BY <1>2, <1>4, <2>1, <2>2 DEF ExchangeMessage
<1>6. b \in Answer
  BY AnsweredType
<1>7. Only(Append(answers, b), b)
  <2>1. answers \in Seq(Answer)
    BY <1>1 DEF TypeOK
  <2> HIDE DEF b
  <2> QED
    BY <1>4, <1>6, <2>1 DEF Only, Quiet
<1>8. Owes(FirstIn, t)
  BY <1>3 DEF Owes
<1>9. Moves
  BY <1>1, <1>3, <1>4, <1>5, <1>6, <1>7, <1>8, HearsMessage DEF handle
<1>10. Covers(known, Owed') /\ Covers(Plus(known, batch), Owed') /\ \A p \in Owed' : probe <= p[2]
  BY <1>1, <1>9, MovesKeeps
<1>11. PendingKnown'
  BY <1>5 DEF PInv, PendingKnown, handle
<1> QED
  BY <1>5, <1>9, <1>10, <1>11 DEF PInv, Moves, SharedKnown

\* A frontier is at or before every time that counts on the way cover.
LEMMA FrontierCovered ==
  ASSUME Sizes, NEW c, NEW n, NEW p \in Owed, Covers(c, Owed),
         \A l \in UpTo(p[1]) : l[1] < n \/ l = <<n, "in">>
  PROVE  Frontier(c, n) <= p[2]
<1> DEFINE before == {t \in Epochs : \E q \in Pointstamp :
                         c[q] > 0 /\ q[2] = t /\ (q[1][1] < n \/ q[1] = <<n, "in">>)}
<1>1. PICK q \in Pointstamp : c[q] > 0 /\ q[2] <= p[2] /\ q[1] \in UpTo(p[1])
  BY DEF Covers
<1>2. q[2] \in before
  BY <1>1, PointstampMeans
<1>3. before \subseteq Nat
  BY Indexes
<1>4. Frontier(c, n) = Least(before)
  BY <1>2 DEF Frontier, Least
<1>5. Least(before) \in Nat /\ Least(before) <= q[2]
  BY <1>2, <1>3, LeastIn
<1>6. q[2] \in Nat /\ p[2] \in Nat
  BY OwedTypes
<1> QED
  BY <1>1, <1>4, <1>5, <1>6

\* A window whose message the tracker still has at the first ghost is not due.
LEMMA AskedNotDue ==
  ASSUME Sizes, PInv, NEW t \in Epochs, Owes(FirstIn, t)
  PROVE  ~(t < Frontier(known, Window))
<1>1. <<FirstIn, t>> \in Owed
  BY PlacesOnTheWay DEF Owed, Pointstamp
<1>2. \A l \in UpTo(FirstIn) : l[1] < Window \/ l = <<Window, "in">>
  <2>1. InputOut[1] < Window /\ (FirstIn[1] < Window \/ FirstIn = <<Window, "in">>)
    BY DEF InputOut, FirstIn, Input, FirstGhost, Window, Sizes
  <2> QED
    BY <2>1, PlacesOnTheWay
<1>3. Frontier(known, Window) <= t
  BY <1>1, <1>2, FrontierCovered DEF PInv
<1>4. Frontier(known, Window) \in Nat /\ t \in Nat
  BY FrontierType, Indexes
<1> QED
  BY <1>3, <1>4

LEMMA NothingProbe ==
  ASSUME Sizes, CInv, PInv, NEW late \in BOOLEAN, ExchangeNothing(late)
  PROVE  PInv'
<1> DEFINE due == {t \in windows : t < Frontier(known, Window)}
<1>1. TypeOK /\ MessagesKnown /\ CountsOwed
  BY DEF CInv, PInv
<1>2. /\ calling /\ calling' /\ queue = {} /\ queue' = {}
      /\ windows' = IF due = {} THEN windows ELSE windows \ {Least(due)}
      /\ Take(Append(answers, IF due = {} THEN Nothing ELSE Emitted(Least(due))),
              NoMessage, late)
      /\ activations \subseteq activations'
      /\ UNCHANGED <<handle, known, batch, temp_active, cursor, probe>>
  BY DEF ExchangeNothing
<1>3. due \subseteq windows
  OBVIOUS
<1>4. 0 \in Epochs /\ Nothing \in Answer /\ answers \in Seq(Answer)
  BY <1>1, AnswerTypes DEF Sizes, Epochs, TypeOK
<1>5. Moves
  <2>1. CASE Over
    <3>1. due = {} /\ windows' = windows
      BY <1>2, <1>3, <2>1 DEF Over
    <3> HIDE DEF due
    <3> QED
      BY <1>1, <1>2, <1>4, <2>1, <3>1, HearsNothing DEF handle
  <2>2. CASE ~Over
    <3>1. PICK t \in Epochs : t + 1 = epoch /\ \E l \in Place : Owes(l, t)
      BY <2>2 DEF PInv, OneAtATime
    <3>2. ~Queued(t)
      BY <1>2 DEF Queued
    <3>3. CASE \E s \in BOOLEAN : Asked(t, s)
      <4>1. PICK s \in BOOLEAN : Asked(t, s)
        BY <3>3
      <4>2. Owes(FirstIn, t)
        <5>1. s = TRUE \/ s = FALSE
          OBVIOUS
        <5> QED
          BY <4>1, <5>1 DEF Owes
      <4>3. windows = (IF s THEN {t} ELSE {}) /\ outbox = {} /\ Only(answers, Answered(t, s))
        BY <4>1 DEF Asked
      <4>4. due = {}
        BY <4>2, <4>3, AskedNotDue
      <4> HIDE DEF due
      <4>5. Only(Append(answers, Nothing), Answered(t, s))
        BY <1>4, <4>3 DEF Only
      <4>6. windows' = (IF s THEN {t} ELSE {}) /\ Take(Append(answers, Nothing), NoMessage, late)
        BY <1>2, <4>3, <4>4
      <4>7. UNCHANGED <<epoch, known, batch, pending>> /\ queue' = {} /\ t + 1 = epoch
        BY <1>2, <3>1 DEF handle
      <4> QED
        BY <1>1, <1>4, <4>2, <4>3, <4>5, <4>6, <4>7, HearsMessage
    <3>4. CASE Kept(t)
      <4>1. windows = {t} /\ outbox = {} /\ Quiet(answers) /\ Owes(WindowOut, t)
        BY <3>4 DEF Kept, Owes
      <4>2. CASE due = {}
        <5>1. windows' = windows /\ Take(Append(answers, Nothing), NoMessage, late)
          BY <1>2, <4>2
        <5> QED
          BY <1>1, <1>2, <3>1, <3>4, <5>1, HearsNothing DEF handle
      <4>3. CASE due # {}
        <5>1. due = {t}
          BY <1>3, <4>1, <4>3
        <5>2. Least(due) = t
          BY <5>1, LeastIn, Indexes
        <5> HIDE DEF due
        <5>3. windows' = {} /\ Take(Append(answers, Emitted(t)), NoMessage, late)
          BY <1>2, <4>1, <4>3, <5>2
        <5>4. Emitted(t) \in Answer
          BY AnswerTypes
        <5>5. Only(Append(answers, Emitted(t)), Emitted(t))
          BY <1>4, <4>1, <5>4 DEF Only, Quiet
        <5> QED
          BY <1>1, <1>2, <3>1, <4>1, <5>3, <5>4, <5>5, HearsWindow DEF handle
      <4> QED
        BY <4>2, <4>3
    <3>5. CASE Emitting(t)
      <4>1. windows = {} /\ outbox = {} /\ Only(answers, Emitted(t)) /\ Owes(WindowOut, t)
        BY <3>5 DEF Emitting, Owes
      <4>2. due = {} /\ windows' = {} /\ Take(Append(answers, Nothing), NoMessage, late)
        BY <1>2, <1>3, <4>1
      <4> HIDE DEF due
      <4>3. Only(Append(answers, Nothing), Emitted(t))
        BY <1>4, <4>1 DEF Only
      <4> QED
        BY <1>1, <1>2, <1>4, <3>1, <4>1, <4>2, <4>3, HearsWindow DEF handle
    <3>6. CASE Resulting(t)
      <4>1. due = {} /\ windows' = windows /\ Take(Append(answers, Nothing), NoMessage, late)
        BY <1>2, <1>3, <3>6 DEF Resulting
      <4> HIDE DEF due
      <4> QED
        BY <1>1, <1>2, <3>1, <3>6, <4>1, HearsNothing DEF handle
    <3> QED
      BY <3>1, <3>2, <3>3, <3>4, <3>5, <3>6 DEF Owes
  <2> QED
    BY <2>1, <2>2
<1>6. Covers(known, Owed') /\ Covers(Plus(known, batch), Owed') /\ \A p \in Owed' : probe <= p[2]
  BY <1>1, <1>5, MovesKeeps
<1>7. PendingKnown'
  BY <1>2 DEF PInv, PendingKnown, handle
<1> QED
  BY <1>2, <1>5, <1>6, <1>7 DEF PInv, Moves, SharedKnown

-----------------------------------------------------------------------------
(* The rest of a call *)

\* Nothing of what the handle did is unreported once another child was scheduled.
LEMMA NonePending ==
  ASSUME PInv, ~(cursor = Idle /\ Input \in activations), ~(cursor = 0 /\ Input \in temp_active)
  PROVE  \A p \in Pointstamp : pending[p] = 0
BY DEF PInv, PendingKnown

\* What is owed is counted where it is.
LEMMA OwnCover ==
  ASSUME Sizes, NEW c, \A p \in Owed : c[p] > 0
  PROVE  Covers(c, Owed)
<1>1. /\ Owed \subseteq Pointstamp
      /\ \A p \in Owed : p[1] \in UpTo(p[1])
      /\ \A p \in Pointstamp : p[2] \in Nat
  BY OwedTypes
<1> QED
  BY <1>1 DEF Covers

LEMMA CountInts ==
  ASSUME TypeOK
  PROVE  \A p \in Pointstamp :
           known[p] \in Int /\ batch[p] \in Int /\ shared[p] \in Int /\ pending[p] \in Int
<1>1. /\ known \in [Pointstamp -> Int] /\ batch \in [Pointstamp -> Int]
      /\ shared \in [Pointstamp -> Int] /\ pending \in [Pointstamp -> Int]
  BY DEF TypeOK
<1> QED
  BY <1>1

LEMMA ReturnsProbe ==
  ASSUME Sizes, IInv, CInv, PInv, WrapperReturns
  PROVE  PInv'
<1>1. TypeOK /\ CountsOwed /\ OneAtATime
  BY DEF CInv, PInv
<1>2. \A p \in Pointstamp : pending[p] = 0
  <2>1. cursor # Idle /\ cursor # 0
    BY DEF WrapperReturns, IInv, Wrapper, Idle, Sizes
  <2> QED
    BY <2>1, NonePending
<1>3. /\ UNCHANGED <<epoch, queue, windows, outbox, answers, known, pending, cursor, activations, probe>>
      /\ temp_active \subseteq temp_active' /\ first' = None /\ queue = {}
      /\ \A p \in Pointstamp : batch'[p] = batch[p] + shared[p] /\ shared'[p] = 0
  <2>1. \A p \in Pointstamp : Zero[p] = 0
    BY ZeroType
  <2>2. batch \in [Pointstamp -> Int] /\ shared \in [Pointstamp -> Int]
    BY <1>1 DEF TypeOK
  <2>3. \A p \in Pointstamp : Plus(batch, shared)[p] = batch[p] + shared[p]
    BY <2>2, PlusInt
  <2> QED
    BY <2>1, <2>3 DEF WrapperReturns, handle, device
<1>4. \A p \in Pointstamp : Reports(p)' = Reports(p)
  BY <1>1, <1>3, CountInts DEF Reports
<1>5. Moves /\ Owed' = Owed
  BY <1>1, <1>3, <1>4, Unmoved
<1>6. Covers(Plus(known, batch'), Owed)
  <2>1. ASSUME NEW p \in Owed PROVE Plus(known, batch')[p] > 0
    <3>1. p \in Pointstamp
      BY DEF Owed
    <3>2. Plus(known, batch')[p] = known[p] + batch'[p]
      BY <3>1 DEF Plus
    <3>3. Reports(p) = 1
      BY <1>1, <3>1 DEF CountsOwed
    <3> QED
      BY <1>1, <1>2, <1>3, <3>1, <3>2, <3>3, CountInts DEF Reports
  <2> QED
    BY <2>1, OwnCover
<1>7. Plus(known, batch)' = Plus(known, batch')
  BY <1>3 DEF Plus
<1>8. PendingKnown' /\ SharedKnown'
  BY <1>2, <1>3 DEF PendingKnown, SharedKnown
<1> QED
  BY <1>3, <1>5, <1>6, <1>7, <1>8 DEF PInv, Moves

LEMMA BeginProbe ==
  ASSUME Sizes, IInv, CInv, PInv, BeginSchedule
  PROVE  PInv'
<1>1. TypeOK /\ CountsOwed /\ OneAtATime
  BY DEF CInv, PInv
<1>2. /\ UNCHANGED <<epoch, queue, windows, outbox, answers, shared, pending, calling, first, probe>>
      /\ known' = Plus(known, batch) /\ cursor = Idle /\ cursor' = 0
      /\ activations \subseteq temp_active'
      /\ \A p \in Pointstamp : known'[p] = known[p] + batch[p] /\ batch'[p] = 0
  <2>1. \A p \in Pointstamp : Zero[p] = 0
    BY ZeroType
  <2>2. batch \in [Pointstamp -> Int] /\ known \in [Pointstamp -> Int]
    BY <1>1 DEF TypeOK
  <2>3. \A p \in Pointstamp : Plus(known, batch)[p] = known[p] + batch[p]
    BY <2>2, PlusInt
  <2> QED
    BY <2>1, <2>3 DEF BeginSchedule, handle, device
<1>3. \A p \in Pointstamp : Reports(p)' = Reports(p)
  BY <1>1, <1>2, CountInts DEF Reports
<1>4. Moves /\ Owed' = Owed
  BY <1>1, <1>2, <1>3, Unmoved
<1>5. Plus(known, batch)' = Plus(known, batch)
  <2>1. \A p \in Pointstamp : known'[p] + batch'[p] = known[p] + batch[p]
    BY <1>1, <1>2, CountInts
  <2>2. Plus(known', batch') = Plus(known, batch)
    BY <2>1 DEF Plus
  <2> QED
    BY <2>2 DEF Plus
<1>6. PendingKnown'
  <2>1. 0 # Idle
    BY DEF Idle
  <2> QED
    BY <1>2, <2>1 DEF PInv, PendingKnown
<1> QED
  BY <1>2, <1>4, <1>5, <1>6 DEF PInv, Moves, SharedKnown

\* Steps that change no counts and nothing of the device.
LEMMA QuietProbe ==
  ASSUME Sizes, CInv, PInv,
         UNCHANGED <<epoch, queue, windows, outbox, answers, known, batch, shared, pending>>,
         PendingKnown', SharedKnown', first' # None => queue' = {},
         \A p \in Owed : probe' <= p[2]
  PROVE  PInv'
<1>1. \A p \in Pointstamp : Reports(p)' = Reports(p)
  BY DEF Reports
<1>2. Moves /\ Owed' = Owed
  BY <1>1, Unmoved DEF PInv
<1>3. Plus(known, batch)' = Plus(known, batch)
  BY DEF Plus
<1> QED
  BY <1>2, <1>3 DEF PInv, Moves

\* The input's operator reports what the handle did: what is then known and sent is at
\* least what there is, as the wrapper has only to give up.
LEMMA InputProbe ==
  ASSUME Sizes, CInv, PInv, ~calling, Operate(Input)
  PROVE  PInv'
<1>1. TypeOK /\ CountsOwed /\ OneAtATime
  BY DEF CInv, PInv
<1>2. /\ UNCHANGED <<epoch, queue, windows, outbox, answers, known, shared, calling, first, probe>>
      /\ \A p \in Pointstamp : batch'[p] = batch[p] + pending[p] /\ pending'[p] = 0
  <2>1. \A p \in Pointstamp : Zero[p] = 0
    BY ZeroType
  <2>2. batch \in [Pointstamp -> Int] /\ pending \in [Pointstamp -> Int]
    BY <1>1 DEF TypeOK
  <2>3. \A p \in Pointstamp : Plus(batch, pending)[p] = batch[p] + pending[p]
    BY <2>2, PlusInt
  <2>4. Input # Inspect
    BY Indexes
  <2> QED
    BY <2>1, <2>3, <2>4 DEF Operate, device
<1>3. \A p \in Pointstamp : Reports(p)' = Reports(p)
  BY <1>1, <1>2, CountInts DEF Reports
<1>4. Moves /\ Owed' = Owed
  BY <1>1, <1>2, <1>3, Unmoved
<1>5. Covers(Plus(known, batch'), Owed)
  <2>1. ASSUME NEW p \in Owed PROVE Plus(known, batch')[p] > 0
    <3>1. p \in Pointstamp
      BY DEF Owed
    <3>2. Plus(known, batch')[p] = known[p] + batch'[p]
      BY <3>1 DEF Plus
    <3>3. Reports(p) = 1 /\ shared[p] <= 0
      BY <1>1, <3>1 DEF CountsOwed, PInv, SharedKnown
    <3> QED
      BY <1>1, <1>2, <3>1, <3>2, <3>3, CountInts DEF Reports
  <2> QED
    BY <2>1, OwnCover
<1>6. Plus(known, batch)' = Plus(known, batch')
  BY <1>2 DEF Plus
<1>7. PendingKnown' /\ SharedKnown'
  BY <1>2 DEF PInv, PendingKnown, SharedKnown
<1> QED
  BY <1>2, <1>4, <1>5, <1>6, <1>7 DEF PInv, Moves

\* Inspect consumes the result, of which nothing else is then to be heard.
LEMMA InspectProbe ==
  ASSUME Sizes, CInv, PInv, ~calling, Operate(Inspect),
         \A p \in Pointstamp : pending[p] = 0
  PROVE  PInv'
<1>1. TypeOK /\ CountsOwed /\ OneAtATime
  BY DEF CInv, PInv
<1>2. /\ UNCHANGED <<epoch, queue, windows, answers, known, shared, calling, first, probe, pending>>
      /\ outbox' = {}
      /\ \A p \in Pointstamp :
           batch'[p] = batch[p] + (IF p[1] = InspectIn /\ p[2] \in outbox THEN -1 ELSE 0)
  BY Indexes DEF Operate, Plus, InspectIn, device
<1>3. PendingKnown' /\ SharedKnown'
  BY <1>2 DEF PInv, PendingKnown, SharedKnown
<1>4. CASE outbox = {}
  <2>1. \A p \in Pointstamp : batch'[p] = batch[p]
    BY <1>1, <1>2, <1>4, CountInts
  <2>2. \A p \in Pointstamp : Reports(p)' = Reports(p)
    BY <1>2, <2>1 DEF Reports
  <2>3. Moves /\ Owed' = Owed
    BY <1>1, <1>2, <1>4, <2>2, Unmoved
  <2>4. Plus(known, batch)' = Plus(known, batch)
    BY <1>2, <2>1 DEF Plus
  <2> QED
    BY <1>2, <1>3, <2>3, <2>4 DEF PInv, Moves
<1>5. CASE outbox # {}
  <2>1. PICK t \in Epochs : t + 1 = epoch /\ Resulting(t)
    <3>1. PICK t \in Epochs, l \in Place : t + 1 = epoch /\ Owes(l, t)
      BY <1>1, <1>5 DEF OneAtATime, Over
    <3> QED
      BY <1>5, <3>1 DEF Owes, Queued, Asked, Kept, Emitting, Resulting
  <2>2. outbox = {t} /\ Owes(InspectIn, t)
    BY <2>1 DEF Resulting, Owes
  <2>3. Over'
    BY <1>2, <2>1 DEF Resulting, Over
  <2>4. \A p \in Pointstamp : p[1] = InspectIn /\ p[2] \in outbox <=> p = <<InspectIn, t>>
    BY <2>2, PointstampMeans
  <2>5. \A p \in Pointstamp :
          Reports(p)' = IF p = <<InspectIn, t>> THEN Reports(p) - 1 ELSE Reports(p)
    BY <1>1, <1>2, <2>4, CountInts DEF Reports
  <2>6. Moves
    BY <1>1, <1>2, <2>2, <2>3, <2>5, Done
  <2>7. Covers(known, Owed') /\ \A p \in Owed' : probe <= p[2]
    BY <1>1, <2>6, MovesKeeps
  <2>8. Covers(Plus(known, batch'), Owed')
    <3>1. ASSUME NEW p \in Owed'
          PROVE  \E q \in Pointstamp :
                   Plus(known, batch')[q] > 0 /\ q[2] <= p[2] /\ q[1] \in UpTo(p[1])
      <4>1. p \in Pointstamp /\ p = <<InputOut, epoch>> /\ p[1] = InputOut
        <5>1. p \in Pointstamp
          BY DEF Owed
        <5>2. p = <<InputOut, epoch'>>
          BY <2>3, <5>1, OwedMeansNext
        <5> QED
          BY <1>2, <5>1, <5>2
      <4>2. p \in Owed
        BY <4>1 DEF Owed
      <4>3. PICK q \in Pointstamp : Plus(known, batch)[q] > 0 /\ q[2] <= p[2] /\ q[1] = InputOut
        BY <4>1, <4>2, PlacesOnTheWay DEF PInv, Covers
      <4>4. batch'[q] = batch[q] + 0
        BY <1>2, <4>3, PlacesOnTheWay
      <4>5. Plus(known, batch')[q] = Plus(known, batch)[q]
        BY <1>1, <4>4, CountInts DEF Plus
      <4> QED
        BY <4>1, <4>3, <4>5, PlacesOnTheWay
    <3> QED
      BY <3>1 DEF Covers
  <2>9. Plus(known, batch)' = Plus(known, batch')
    BY <1>2 DEF Plus
  <2>10. first' # None => queue' = {}
    BY <1>2 DEF PInv
  <2> QED
    BY <1>2, <1>3, <2>6, <2>7, <2>8, <2>9, <2>10 DEF PInv, Moves
<1> QED
  BY <1>4, <1>5

\* The probe is told the frontier of the results' stream, which what is owed holds back.
LEMMA ShownCovered ==
  ASSUME Sizes, PInv
  PROVE  \A p \in Owed : Frontier(known, Inspect) <= p[2]
<1>1. \A l \in {InputOut, FirstIn, WindowOut, InspectIn} :
        l[1] < Inspect \/ l = <<Inspect, "in">>
  BY DEF InputOut, FirstIn, WindowOut, InspectIn, Input, FirstGhost, Window, Inspect, Sizes
<1>2. ASSUME NEW p \in Owed
      PROVE  \A l \in UpTo(p[1]) : l[1] < Inspect \/ l = <<Inspect, "in">>
  BY <1>1, OwedTypes, PlacesOnTheWay
<1> QED
  BY <1>2, FrontierCovered DEF PInv

LEMMA ActivateProbe ==
  ASSUME Sizes, IInv, CInv, PInv, ActivateChild
  PROVE  PInv'
<1>1. PICK n \in temp_active :
        /\ cursor # Idle /\ ~calling /\ \A m \in temp_active : n <= m
        /\ temp_active' = temp_active \ {n}
        /\ Skip(n) \/ Operate(n) \/ CallWrapper(n) \/ ShowProbe(n)
  BY DEF ActivateChild
<1>2. n \in Child /\ n \in Nat /\ n # 0 /\ Input = 1 /\ TypeOK /\ temp_active \subseteq Nat
  BY Indexes DEF IInv, SchedulingTypes, Input, CInv
<1>3. n # Input => \A p \in Pointstamp : pending[p] = 0
  <2>1. ASSUME Input \in temp_active PROVE n = Input
    <3>1. n <= 1
      BY <1>1, <1>2, <2>1
    <3> QED
      BY <1>2, <3>1
  <2> QED
    BY <1>1, <2>1, NonePending
<1>4. CASE Skip(n)
  <2>1. /\ UNCHANGED <<epoch, queue, windows, outbox, answers, known, batch, shared, pending, calling,
                       first, probe, cursor>>
        /\ n <= cursor
    BY <1>4 DEF Skip, handle, device, counts, Revisited
  <2>2. n # Input \/ cursor # 0
    BY <1>2, <2>1
  <2>3. \A p \in Pointstamp : pending[p] = 0
    BY <1>1, <1>3, <2>2, NonePending
  <2> QED
    BY <2>1, <2>3, QuietProbe DEF PInv, PendingKnown, SharedKnown
<1>5. CASE CallWrapper(n)
  <2>1. /\ UNCHANGED <<epoch, queue, windows, outbox, answers, known, batch, shared, pending, first, probe>>
        /\ calling'
    BY <1>5 DEF CallWrapper, handle, device, counts
  <2>2. n # Input
    BY <1>5 DEF CallWrapper, Input, Wrapper, Sizes
  <2> QED
    BY <1>3, <2>1, <2>2, QuietProbe DEF PInv, PendingKnown, SharedKnown
<1>6. CASE ShowProbe(n)
  <2>1. /\ UNCHANGED <<epoch, queue, windows, outbox, answers, known, batch, shared, pending, first, calling>>
        /\ probe' = Frontier(known, Inspect)
    BY <1>6 DEF ShowProbe, handle, device, counts
  <2>2. n # Input
    BY <1>6 DEF ShowProbe, Input, Probe, Sizes
  <2> QED
    BY <1>3, <2>1, <2>2, ShownCovered, QuietProbe DEF PInv, PendingKnown, SharedKnown
<1>7. CASE Operate(n)
  <2>1. n \in {Input, Inspect}
    <3>1. n \notin Ghost
      <4> SUFFICES ASSUME n \in Ghost PROVE n <= cursor
        BY <1>7 DEF Operate, Revisited
      <4> QED
        BY <1>1 DEF IInv, SchedulingTypes, Ghost, Wrapper, Sizes
    <3> QED
      BY <1>2, <1>7, <3>1 DEF Operate, Child, Input, Inspect, Wrapper, Probe, Ghost, Sizes
  <2> QED
    BY <1>1, <1>3, <1>7, <2>1, InputProbe, InspectProbe, Indexes
<1> QED
  BY <1>1, <1>4, <1>5, <1>6, <1>7

LEMMA EndProbe ==
  ASSUME Sizes, CInv, PInv, EndSchedule
  PROVE  PInv'
<1>1. /\ UNCHANGED <<epoch, queue, windows, outbox, answers, known, batch, shared, pending, calling,
                     first, probe>>
      /\ cursor # Idle /\ temp_active = {}
  BY DEF EndSchedule, handle, device, counts
<1>2. \A p \in Pointstamp : pending[p] = 0
  BY <1>1, NonePending
<1> QED
  BY <1>1, <1>2, QuietProbe DEF PInv, PendingKnown, SharedKnown

LEMMA ProbeNext ==
  ASSUME Sizes, Synchronous, IInv, CInv, PInv, [Next]_vars
  PROVE  PInv'
<1>1. CASE UNCHANGED vars
  BY <1>1, QuietProbe
     DEF vars, handle, device, counts, scheduling, PInv, PendingKnown, SharedKnown
<1>2. CASE Next
  BY <1>2, SendProbe, CloseProbe, BeginProbe, ActivateProbe, EndProbe, MessageProbe,
     NothingProbe, ReturnsProbe DEF Next, Step
<1> QED
  BY <1>1, <1>2

\* A message, a window or a result in any place is owed.
LEMMA OwedSafe ==
  ASSUME Sizes, CInv, PInv
  PROVE  ProbeSafe
<1>1. TypeOK /\ probe \in Nat /\ probe <= Never
  <2>1. TypeOK /\ probe \in Epochs \cup {Never}
    BY DEF CInv, TypeOK
  <2> QED
    BY <2>1 DEF Epochs, Never, Sizes
<1>2. probe <= epoch
  <2>1. CASE epoch \in Epochs
    <3>1. <<InputOut, epoch>> \in Owed
      BY <2>1, PlacesOnTheWay DEF Owed, Pointstamp
    <3> QED
      BY <3>1 DEF PInv
  <2>2. CASE epoch = Never
    BY <1>1, <2>2
  <2> QED
    BY <1>1, <2>1, <2>2 DEF TypeOK
<1>3. ASSUME NEW t, NEW u \in Epochs, NEW l \in Place, Owes(l, u),
             t \in queue \cup windows \cup outbox
                   \cup {answers[i].time : i \in {j \in DOMAIN answers : answers[j].data}}
      PROVE  t = u
  <2>1. DOMAIN answers = 1 .. Len(answers) /\ Nothing.data = FALSE
    BY <1>1 DEF TypeOK, Nothing
  <2>2. ASSUME Quiet(answers), NEW j \in DOMAIN answers PROVE answers[j].data = FALSE
    BY <2>1, <2>2 DEF Quiet
  <2>3. ASSUME NEW s \in BOOLEAN, Only(answers, Answered(u, s)), NEW j \in DOMAIN answers
        PROVE  answers[j].data = FALSE
    <3>1. Answered(u, s).data = FALSE
      BY AnswersDiffer
    <3> QED
      BY <2>1, <2>3, <3>1 DEF Only
  <2>4. ASSUME Only(answers, Emitted(u)), NEW j \in DOMAIN answers, answers[j].data
        PROVE  answers[j].time = u
    <3>1. Emitted(u).time = u
      BY AnswersDiffer
    <3> QED
      BY <2>1, <2>4, <3>1 DEF Only
  <2>5. CASE Queued(u) \/ Kept(u) \/ Resulting(u)
    <3>1. Quiet(answers) /\ \A v \in queue \cup windows \cup outbox : v = u
      BY <2>5 DEF Queued, Kept, Resulting
    <3>2. {answers[i].time : i \in {j \in DOMAIN answers : answers[j].data}} = {}
      BY <2>2, <3>1
    <3> QED
      BY <1>3, <3>1, <3>2
  <2>6. ASSUME NEW s \in BOOLEAN, Asked(u, s) PROVE t = u
    BY <1>3, <2>3, <2>6 DEF Asked
  <2>7. CASE Emitting(u)
    BY <1>3, <2>4, <2>7 DEF Emitting
  <2> QED
    BY <1>3, <2>5, <2>6, <2>7 DEF Owes
<1>4. ASSUME NEW t,
             t \in queue \cup windows \cup outbox
                   \cup {answers[i].time : i \in {j \in DOMAIN answers : answers[j].data}}
      PROVE  probe <= t
  <2>1. ~Over
    <3>1. DOMAIN answers = 1 .. Len(answers) /\ Nothing.data = FALSE
      BY <1>1 DEF TypeOK, Nothing
    <3> QED
      BY <1>4, <3>1 DEF Over, Quiet
  <2>2. PICK u \in Epochs, l \in Place : Owes(l, u)
    BY <2>1 DEF PInv, OneAtATime
  <2>3. <<l, u>> \in Owed
    BY <2>2 DEF Owed, Pointstamp
  <2>4. probe <= u
    BY <2>3 DEF PInv
  <2> QED
    BY <1>3, <1>4, <2>2, <2>4
<1> QED
  BY <1>2, <1>4 DEF ProbeSafe

\* fpga_wrapper.rs: if the program waits for each epoch, the probe never passes a time of
\* which a message waits, the device keeps a window or has a result that was not taken,
\* or a result waits, however late the device's answers are.
THEOREM ProbeBehindDevice == ASSUME Sizes, Synchronous PROVE Spec => []ProbeSafe
<1>1. Init => CInv /\ PInv
  BY CountsInit, ProbeInit
<1>2. IInv /\ CInv /\ PInv /\ [Next]_vars => CInv' /\ PInv'
  BY CountsNext, ProbeNext
<1>3. CInv /\ PInv => ProbeSafe
  BY OwedSafe
<1>4. Spec => []IInv
  BY Invariance DEF Sizes
<1> QED
  BY <1>1, <1>2, <1>3, <1>4, PTL DEF Spec

=============================================================================
