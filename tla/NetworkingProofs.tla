--------------------------- MODULE NetworkingProofs ---------------------------
(***************************************************************************)
(* For any number of workers on both sides and any number of messages: the *)
(* send thread never sleeps on work, whatever fails; the receive thread    *)
(* panics only if the sending process failed; and every message is in one  *)
(* place, in order, as long as nothing fails, what is delivered being a    *)
(* beginning of what was pushed whatever does.                             *)
(***************************************************************************)
EXTENDS Networking, SequenceTheorems, FiniteSetTheorems, WellFoundedInduction, TLAPS

\* The types that waking the send thread depends on.
Shape ==
  /\ handle \in [Sender -> {"open", "ping", "panic", "drop", "gone"}]
  /\ DOMAIN queue = Sender /\ queue = [s \in Sender |-> queue[s]]
  /\ sources \subseteq Sender
  /\ todo \subseteq sources

\* The send thread has been signalled, or the producer has yet to signal it.
Signalled(s) == send_token \/ handle[s] \in {"ping", "panic", "drop"}

\* A queue that has something is one the send thread has been told of since it last
\* looked, or has yet to drain in this round.
QueuesKnown ==
  \A s \in sources :
    queue[s] # <<>> => Signalled(s) \/ (send_pc = "drain" /\ s \in todo)

\* A queue whose producer has gone is one the send thread has been told of, or will
\* examine before it parks.
LeavingKnown ==
  \A s \in sources :
    handle[s] = "gone" =>
      \/ send_token
      \/ send_pc \in {"drain", "write", "flush"}
      \/ send_pc \in {"check", "check empty"} /\ s \in todo

\* From the flush on, the writer's buffer is empty; every round starts with all queues.
RoundKnown ==
  /\ send_pc \in {"check", "check empty", "park"} => buffered = <<>>
  /\ send_pc = "park" => todo = sources

IInv == Shape /\ QueuesKnown /\ LeavingKnown /\ RoundKnown

-----------------------------------------------------------------------------
\* The invariant is enough.
LEMMA SleepsFollows == IInv => SendSleepsOnlyWhenIdle
<1> SUFFICES ASSUME IInv, send_pc = "park", ~send_token
             PROVE  /\ buffered = <<>>
                    /\ \A s \in sources : queue[s] # <<>> \/ HandleDropped(s) =>
                         handle[s] \in {"ping", "panic", "drop"}
  BY DEF SendSleepsOnlyWhenIdle
<1>1. buffered = <<>>
  BY DEF IInv, RoundKnown
<1>2. ASSUME NEW s \in sources, queue[s] # <<>> PROVE handle[s] \in {"ping", "panic", "drop"}
  BY <1>2 DEF IInv, QueuesKnown, Signalled
<1>3. ASSUME NEW s \in sources, HandleDropped(s) PROVE handle[s] \in {"ping", "panic", "drop"}
  <2>1. handle[s] # "gone"
    BY DEF IInv, LeavingKnown
  <2> QED
    BY <1>3, <2>1 DEF HandleDropped
<1> QED
  BY <1>1, <1>2, <1>3

\* At the start the queue is empty, its flag clear and every thread awake.
LEMMA InitIInv == Init => IInv
BY DEF Init, IInv, Shape, QueuesKnown, LeavingKnown, RoundKnown

-----------------------------------------------------------------------------
\* Producers: pushing, signalling, leaving, panicking.
LEMMA ProducersKeep ==
  ASSUME IInv, NEW s \in Sender,
         (\E r \in Receiver : Push(s, r)) \/ Ping(s) \/ DropHandle(s) \/ Panic(s) \/ Unwound(s)
  PROVE  IInv'
<1> USE DEF IInv
<1>1. UNCHANGED <<send_pc, sources, todo, stash, buffered>>
  BY DEF Push, Ping, DropHandle, Panic, Unwound, send_thread
<1>2. RoundKnown'
  BY <1>1 DEF RoundKnown
<1>3. ASSUME NEW r \in Receiver, Push(s, r) PROVE IInv'
  <2>1. /\ handle[s] = "open" /\ UNCHANGED send_token
        /\ queue' = [queue EXCEPT ![s] = Append(@, <<s, r, Len(sent[s]) + 1>>)]
        /\ handle' = [handle EXCEPT ![s] = IF queue[s] = <<>> THEN "ping" ELSE "open"]
    BY <1>3 DEF Push, ShouldPing
  <2>2. Shape'
    BY <1>1, <2>1 DEF Shape
  <2>3. QueuesKnown'
    BY <1>1, <2>1 DEF QueuesKnown, Signalled, Shape
  <2>4. LeavingKnown'
    BY <1>1, <2>1 DEF LeavingKnown, Shape
  <2> QED
    BY <1>2, <2>2, <2>3, <2>4
<1>4. CASE Ping(s)
  <2>1. /\ send_token' = TRUE /\ UNCHANGED queue
        /\ handle' = [handle EXCEPT ![s] = IF @ = "ping" THEN "open" ELSE "gone"]
    BY <1>4 DEF Ping
  <2>2. Shape'
    BY <1>1, <2>1 DEF Shape
  <2>3. QueuesKnown' /\ LeavingKnown'
    BY <2>1 DEF QueuesKnown, LeavingKnown, Signalled
  <2> QED
    BY <1>2, <2>2, <2>3
<1>5. CASE DropHandle(s) \/ Panic(s) \/ Unwound(s)
  <2>1. /\ UNCHANGED <<queue, send_token>>
        /\ \E h \in {"drop", "panic"} : handle' = [handle EXCEPT ![s] = h]
    BY <1>5 DEF DropHandle, Panic, Unwound
  <2>2. Shape'
    BY <1>1, <2>1 DEF Shape
  <2>3. QueuesKnown'
    BY <1>1, <2>1 DEF QueuesKnown, Signalled, Shape
  <2>4. LeavingKnown'
    BY <1>1, <2>1 DEF LeavingKnown, Shape
  <2> QED
    BY <1>2, <2>2, <2>3, <2>4
<1> QED
  BY <1>3, <1>4, <1>5

-----------------------------------------------------------------------------
(* The send thread *)

\* A drained queue is empty; one drained earlier in the round that is not has been
\* filled since, by a producer that found it empty.
LEMMA DrainKeeps == IInv /\ Drain => IInv'
<1> SUFFICES ASSUME IInv, Drain PROVE IInv'
  OBVIOUS
<1> USE DEF IInv
<1> DEFINE s == First(todo)
<1>1. /\ send_pc = "drain" /\ send_pc' \in {"drain", "write", "flush"}
      /\ queue' = [queue EXCEPT ![s] = <<>>] /\ todo' = todo \ {s}
      /\ todo' # {} => send_pc' = "drain"
      /\ UNCHANGED <<handle, send_token, sources>>
  BY DEF Drain
<1> HIDE DEF s
<1>2. Shape'
  BY <1>1 DEF Shape
<1>3. QueuesKnown'
  BY <1>1 DEF QueuesKnown, Signalled, Shape
<1>4. LeavingKnown' /\ RoundKnown'
  BY <1>1 DEF LeavingKnown, RoundKnown
<1> QED
  BY <1>2, <1>3, <1>4

\* A source kept while it has something, or while its producer is there, is known; one
\* not kept is no longer a source.
LEMMA ExaminedKeeps ==
  ASSUME IInv, NEW s, NEW kept \in BOOLEAN, send_pc \in {"check", "check empty"},
         Examined(s, kept),
         s \in sources /\ kept => handle[s] # "gone" \/ queue[s] # <<>>
  PROVE  IInv'
<1> USE DEF IInv
<1> DEFINE left == IF kept THEN sources ELSE sources \ {s}
<1>1. /\ sources' = left
      /\ todo' = IF todo = {s} /\ left # {} THEN left ELSE todo \ {s}
      /\ send_pc' = IF todo # {s} THEN "check" ELSE IF left = {} THEN "finish" ELSE "park"
      /\ queue' = IF kept THEN queue ELSE [queue EXCEPT ![s] = <<>>]
      /\ UNCHANGED <<handle, send_token, buffered>>
  BY DEF Examined
<1>2. Shape'
  BY <1>1 DEF Shape
<1>3. \A t \in sources' : t \in sources /\ queue'[t] = queue[t] /\ (t = s => kept)
  BY <1>1 DEF Shape
<1>4. QueuesKnown'
  BY <1>1, <1>3 DEF QueuesKnown, Signalled
<1>5. ASSUME NEW t \in sources', handle'[t] = "gone", ~send_token'
      PROVE  send_pc' = "check" /\ t \in todo'
  <2>1. t \in sources /\ handle[t] = "gone" /\ ~send_token /\ t \in todo
    BY <1>1, <1>3, <1>5 DEF LeavingKnown
  <2>2. t # s
    BY <1>1, <1>3, <1>5, <2>1 DEF QueuesKnown, Signalled
  <2> QED
    BY <1>1, <2>1, <2>2
<1>6. LeavingKnown' /\ RoundKnown'
  BY <1>1, <1>5 DEF LeavingKnown, RoundKnown
<1> QED
  BY <1>2, <1>4, <1>6

\* The rest of send_loop, and its end by a panic or a crash.
LEMMA SenderKeeps == IInv /\ (SendStep \/ LastClone \/ Crash) => IInv'
<1> SUFFICES ASSUME IInv, SendStep \/ LastClone \/ Crash PROVE IInv'
  OBVIOUS
<1> USE DEF IInv
<1>1. CASE Drain
  BY <1>1, DrainKeeps
<1>2. CASE Write
  <2>1. /\ send_pc = "write" /\ send_pc' = "drain" /\ todo' = sources
        /\ UNCHANGED <<handle, queue, send_token, sources>>
    BY <1>2 DEF Write, producers
  <2> QED
    BY <2>1 DEF Shape, QueuesKnown, LeavingKnown, RoundKnown, Signalled
<1>3. CASE Flush
  <2>1. /\ send_pc = "flush" /\ send_pc' = "check" /\ todo' = sources /\ buffered' = <<>>
        /\ UNCHANGED <<handle, queue, send_token, sources>>
    BY <1>3 DEF Flush, producers
  <2> QED
    BY <2>1 DEF Shape, QueuesKnown, LeavingKnown, RoundKnown, Signalled
<1>4. CASE CheckLast
  <2> DEFINE s == First(todo)
  <2>1. CASE ~HandleDropped(s) /\ Examined(s, TRUE)
    <3>1. send_pc = "check" /\ handle[s] # "gone"
      BY <1>4, <2>1 DEF CheckLast, HandleDropped
    <3> QED
      BY <2>1, <3>1, ExaminedKeeps
  <2>2. CASE /\ send_pc = "check" /\ send_pc' = "check empty"
             /\ UNCHANGED <<producers, send_token, sources, todo, stash, buffered, stream,
                            recv_thread, receivers>>
    BY <2>2 DEF Shape, QueuesKnown, LeavingKnown, RoundKnown, Signalled, producers
  <2> QED
    BY <1>4, <2>1, <2>2 DEF CheckLast
<1>5. CASE CheckEmpty
  <2> DEFINE s == First(todo)
  <2>1. send_pc = "check empty" /\ Examined(s, queue[s] # <<>>)
    BY <1>5 DEF CheckEmpty
  <2> QED
    BY <2>1, ExaminedKeeps
<1>6. CASE FindPoisoned \/ Crash
  <2>1. /\ sources' = {} /\ todo' = {} /\ send_pc' \in {"panicked", "crashed"}
        /\ handle' = handle \/ handle' = [s \in Sender |-> "gone"]
        /\ queue' = queue \/ queue' = [s \in Sender |-> <<>>]
    BY <1>6 DEF FindPoisoned, SendPanic, Crash
  <2> QED
    BY <2>1 DEF Shape, QueuesKnown, LeavingKnown, RoundKnown
<1>7. CASE SendPark
  <2>1. /\ send_pc = "park" /\ send_pc' = "drain"
        /\ UNCHANGED <<handle, queue, sources, todo>>
    BY <1>7 DEF SendPark, producers
  <2> QED
    BY <2>1 DEF Shape, QueuesKnown, LeavingKnown, RoundKnown
<1>8. CASE Finish
  <2>1. /\ send_pc \in {"finish", "shutdown"} /\ send_pc' \in {"shutdown", "done"}
        /\ UNCHANGED <<handle, queue, send_token, sources, todo>>
    BY <1>8 DEF Finish, producers
  <2> QED
    BY <2>1 DEF Shape, QueuesKnown, LeavingKnown, RoundKnown, Signalled
<1>9. CASE LastClone
  <2>1. UNCHANGED <<handle, queue, send_pc, send_token, sources, todo, buffered>>
    BY <1>9 DEF LastClone, producers, send_thread
  <2> QED
    BY <2>1 DEF Shape, QueuesKnown, LeavingKnown, RoundKnown, Signalled
<1> QED
  BY <1>1, <1>2, <1>3, <1>4, <1>5, <1>6, <1>7, <1>8, <1>9 DEF SendStep

\* The receiving process does not touch the sending one.
LEMMA OthersKeep ==
  ASSUME IInv, RecvStep \/ (\E r \in Receiver : WorkerStep(r)) \/ UNCHANGED vars
  PROVE  IInv'
<1>1. UNCHANGED <<handle, queue, send_pc, send_token, sources, todo, buffered>>
  BY DEF RecvStep, WorkerStep, Read, Confirm, BadStream, RecvPanic, HandOver, HandPing,
         HandDone, Receive, ReceivePoison, Unparked, vars, producers, send_thread
<1> QED
  BY <1>1 DEF IInv, Shape, QueuesKnown, LeavingKnown, RoundKnown, Signalled

\* Every step of every thread keeps the invariant.
LEMMA NextIInv == IInv /\ [Next]_vars => IInv'
BY ProducersKeep, SenderKeeps, OthersKeep DEF Next

\* The inductive invariant holds in every reachable state.
THEOREM Invariance == Spec => []IInv
BY InitIInv, NextIInv, PTL DEF Spec

\* "wait on a signal only if we are sure that there will still be a signal incoming",
\* for any number of workers and messages, and through panics and crashes.
THEOREM SenderNeverSleepsOnWork == Spec => []SendSleepsOnlyWhenIdle
BY SleepsFollows, Invariance, PTL

-----------------------------------------------------------------------------
(* Facts about numbers and the stream *)

Msg == Sender \X Receiver \X Nat
Plain == Msg \X {"header", "payload"}
FinalUnit == <<Final, "header">>

\* Functions on an initial stretch of the naturals are sequences.
LEMMA SequenceFromFunction ==
  ASSUME NEW S, NEW k \in Nat, NEW f \in [1 .. k -> S]
  PROVE  f \in Seq(S)
BY SeqDef

\* A set of naturals has a first.
LEMMA FirstIsIn ==
  ASSUME NEW S \in SUBSET Nat, S # {}
  PROVE  First(S) \in S /\ \A y \in S : First(S) <= y
<1> DEFINE R == {ss \in Nat \X Nat : ss[1] < ss[2]}
<1>1. IsWellFoundedOn(R, Nat)
  BY NatLessThanWellFounded DEF OpToRel
<1>2. PICK x \in S : \A y \in S : <<y, x>> \notin R
  <2> HIDE DEF R
  <2> QED
    BY <1>1, WFMin
<1>3. ASSUME NEW y \in S PROVE x <= y
  <2>1. x \in Nat /\ y \in Nat
    OBVIOUS
  <2>2. <<y, x>> \in Nat \X Nat /\ <<y, x>>[1] = y /\ <<y, x>>[2] = x
    BY <2>1
  <2>3. y < x => <<y, x>> \in R
    BY <2>2, Zenon
  <2> HIDE DEF R
  <2> QED
    BY <1>2, <2>1, <2>3
<1> QED
  BY <1>3 DEF First

\* And if it is bounded, a last.
LEMMA LastExists ==
  ASSUME NEW n \in Nat, NEW S \in SUBSET (0 .. n), S # {}
  PROVE  \E i \in S : \A j \in S : j <= i
<1> DEFINE T == {k \in 0 .. n : n - k \in S}
<1>1. T \in SUBSET Nat /\ T # {}
  <2>1. PICK i \in S : TRUE
    OBVIOUS
  <2> DEFINE m == n - i
  <2>2. m \in 0 .. n /\ n - m = i
    BY <2>1
  <2> HIDE DEF m
  <2>3. m \in T
    BY <2>1, <2>2
  <2> QED
    BY <2>3
<1>2. PICK k \in T : \A l \in T : k <= l
  <2> HIDE DEF T
  <2> QED
    BY <1>1, FirstIsIn
<1>3. ASSUME NEW j \in S PROVE j <= n - k
  <2>1. n - j \in 0 .. n /\ n - (n - j) = j
    OBVIOUS
  <2>2. n - j \in T
    BY <2>1
  <2> QED
    BY <1>2, <2>1, <2>2
<1> QED
  BY <1>2, <1>3

\* Workers are numbered from one: no message is the final header.
LEMMA PlainIsNotFinal == \A u \in Plain : u[1] # Final /\ u # FinalUnit
BY WorkersAssumption DEF Plain, Msg, Final, FinalUnit

\* What is written for messages is headers and payloads.
LEMMA UnitsPlain ==
  ASSUME NEW messages \in Seq(Msg)
  PROVE  /\ Units(messages) \in Seq(Plain)
         /\ Len(Units(messages)) = 2 * Len(messages)
<1> DEFINE n == Len(messages)
<1>1. n \in Nat /\ \A k \in 1 .. n : messages[k] \in Msg
  OBVIOUS
<1> HIDE DEF n
<1>2. ASSUME NEW i \in 1 .. 2 * n PROVE (i + 1) \div 2 \in 1 .. n
  BY <1>1
<1> DEFINE u(i) == <<messages[(i + 1) \div 2], IF i % 2 = 1 THEN "header" ELSE "payload">>
<1>3. ASSUME NEW i \in 1 .. 2 * n PROVE u(i) \in Plain
  <2>1. messages[(i + 1) \div 2] \in Msg
    BY <1>1, <1>2
  <2> QED
    BY <2>1 DEF Plain
<1>4. Units(messages) = [i \in 1 .. 2 * n |-> u(i)]
  BY DEF Units, n
<1> HIDE DEF u
<1>5. Units(messages) \in [1 .. 2 * n -> Plain] /\ 2 * n \in Nat
  BY <1>1, <1>3, <1>4
<1> QED
  BY <1>5, LenProperties DEF n

\* What is not extracted yet is part of what was read.
LEMMA RestPlain ==
  ASSUME NEW units \in Seq(Plain)
  PROVE  Rest(units) \in Seq(Plain)
<1> DEFINE last == {0} \cup {i \in 1 .. Len(units) : Ends(units[i])}
           k == CHOOSE i \in last : \A j \in last : j <= i
<1>1. Len(units) \in Nat /\ last \in SUBSET (0 .. Len(units)) /\ last # {}
  OBVIOUS
<1>2. k \in 0 .. Len(units)
  <2> HIDE DEF last
  <2>1. \E i \in last : \A j \in last : j <= i
    BY <1>1, LastExists
  <2> QED
    BY <1>1, <2>1
<1>3. Rest(units) = SubSeq(units, k + 1, Len(units))
  BY DEF Rest
<1> HIDE DEF k
<1>4. \A i \in k + 1 .. Len(units) : units[i] \in Plain
  BY <1>1, <1>2
<1> QED
  BY <1>1, <1>2, <1>3, <1>4, SubSeqProperties

-----------------------------------------------------------------------------
(* The receive thread panics only after a failure: the invariant *)

Ended == send_pc \in {"shutdown", "done"}
Reading == recv_pc \in {"read", "hand", "ping"}

\* send_loop has something to visit, to wait for or to write where it must.
Rounds ==
  /\ send_pc \in {"drain", "check", "check empty"} => todo # {}
  /\ send_pc \in {"write", "flush", "park"} => sources # {}
  /\ send_pc = "write" => stash # <<>>

\* Only messages are sent, and until the last header is read only messages are read.
OnlyMessages ==
  /\ sent \in [Sender -> Seq(Msg)] /\ queue \in [Sender -> Seq(Msg)]
  /\ stash \in Seq(Msg)
  /\ buffered \in Seq(Plain)
  /\ Reading => buffer \in Seq(Plain)

\* The stream is messages until the send thread ends it, then messages and the last
\* header, which nothing follows, until the receive thread has read it.
StreamKnown ==
  /\ closed => send_pc = "done"
  /\ ~Ended => Reading /\ wire \in Seq(Plain)
  /\ Ended => buffered = <<>>
  /\ Ended /\ Reading =>
       /\ wire \in Seq(Plain \cup {FinalUnit})
       /\ wire # <<>> /\ wire[Len(wire)] = FinalUnit
       /\ \A i \in 1 .. Len(wire) - 1 : wire[i] \in Plain
  /\ ~Reading => wire = <<>> /\ recv_pc # "panicked"

StreamInv ==
  /\ poisoned \in [Sender -> BOOLEAN]
  /\ Rounds
  /\ ~Failed => OnlyMessages /\ StreamKnown

\* The invariant is enough.
LEMMA PanicsFollows == StreamInv => PanicsOnlyAfterFailure
BY DEF StreamInv, StreamKnown, Reading, PanicsOnlyAfterFailure

\* At the start nothing has been sent.
LEMMA InitStreamInv == Init => StreamInv
<1> SUFFICES ASSUME Init PROVE StreamInv
  OBVIOUS
<1>1. /\ <<>> \in Seq(Msg) /\ <<>> \in Seq(Plain)
      /\ sent \in [Sender -> Seq(Msg)] /\ queue \in [Sender -> Seq(Msg)]
  BY DEF Init
<1> QED
  BY <1>1, WorkersAssumption
     DEF Init, StreamInv, Rounds, OnlyMessages, StreamKnown, Ended, Reading

-----------------------------------------------------------------------------
(* Producers *)

\* Producers put whole messages into their queues and do not touch the stream.
LEMMA ProducersKeepStream ==
  ASSUME IInv, StreamInv, NEW s \in Sender,
         (\E r \in Receiver : Push(s, r)) \/ Ping(s) \/ DropHandle(s) \/ Panic(s) \/ Unwound(s)
  PROVE  StreamInv'
<1>1. /\ UNCHANGED <<send_pc, sources, todo, stash, buffered, wire, closed, recv_pc, buffer>>
      /\ poisoned' = poisoned \/ poisoned' = [poisoned EXCEPT ![s] = TRUE]
  BY DEF Push, Ping, DropHandle, Panic, Unwound, send_thread, stream, recv_thread
<1>2. poisoned' \in [Sender -> BOOLEAN] /\ Rounds' /\ (Failed => Failed')
  BY <1>1 DEF StreamInv, Rounds, Failed
<1> SUFFICES ASSUME ~Failed PROVE OnlyMessages' /\ StreamKnown'
  BY <1>2 DEF StreamInv
<1>3. StreamKnown'
  BY <1>1 DEF StreamInv, StreamKnown, Ended, Reading
<1>4. ASSUME NEW r \in Receiver, Push(s, r)
      PROVE  sent' \in [Sender -> Seq(Msg)] /\ queue' \in [Sender -> Seq(Msg)]
  <2> DEFINE m == <<s, r, Len(sent[s]) + 1>>
  <2>1. sent \in [Sender -> Seq(Msg)] /\ queue \in [Sender -> Seq(Msg)]
    BY DEF StreamInv, OnlyMessages
  <2>2. m \in Msg
    BY <2>1 DEF Msg
  <2>3. /\ sent' = [sent EXCEPT ![s] = Append(sent[s], m)]
        /\ queue' = [queue EXCEPT ![s] = Append(queue[s], m)]
    BY <1>4 DEF Push
  <2> HIDE DEF m
  <2>4. Append(sent[s], m) \in Seq(Msg) /\ Append(queue[s], m) \in Seq(Msg)
    BY <2>1, <2>2
  <2> QED
    BY <2>1, <2>3, <2>4
<1>5. CASE Ping(s) \/ DropHandle(s) \/ Panic(s) \/ Unwound(s)
  <2>1. UNCHANGED <<sent, queue>>
    BY <1>5 DEF Ping, DropHandle, Panic, Unwound
  <2> QED
    BY <1>1, <1>3, <2>1 DEF StreamInv, OnlyMessages, Reading
<1> QED
  BY <1>1, <1>3, <1>4, <1>5 DEF StreamInv, OnlyMessages, Reading

-----------------------------------------------------------------------------
(* The send thread *)

\* Draining takes whole messages from a queue to the stash.
LEMMA DrainKeepsStream == IInv /\ StreamInv /\ Drain => StreamInv'
<1> SUFFICES ASSUME IInv, StreamInv, Drain PROVE StreamInv'
  OBVIOUS
<1> DEFINE s == First(todo)
<1>1. s \in todo /\ s \in Sender
  BY FirstIsIn, WorkersAssumption DEF StreamInv, Rounds, Drain, IInv, Shape
<1>2. /\ send_pc = "drain" /\ stash' = stash \o queue[s] /\ todo' = todo \ {s}
      /\ send_pc' = IF todo # {s} THEN "drain" ELSE IF stash' = <<>> THEN "flush" ELSE "write"
      /\ queue' = [queue EXCEPT ![s] = <<>>]
      /\ UNCHANGED <<sent, poisoned, sources, buffered, wire, closed, recv_pc, buffer>>
  BY DEF Drain, stream, recv_thread
<1> HIDE DEF s
<1>3. Rounds'
  BY <1>1, <1>2 DEF Rounds, IInv, Shape
<1>4. poisoned' \in [Sender -> BOOLEAN] /\ (Failed' => Failed) /\ (Failed => Failed')
  BY <1>2 DEF StreamInv, Failed
<1> SUFFICES ASSUME ~Failed PROVE OnlyMessages' /\ StreamKnown'
  BY <1>3, <1>4 DEF StreamInv
<1>5. StreamKnown'
  BY <1>2 DEF StreamInv, StreamKnown, Ended, Reading
<1>6. stash' \in Seq(Msg) /\ queue' \in [Sender -> Seq(Msg)]
  <2>1. stash \in Seq(Msg) /\ queue[s] \in Seq(Msg) /\ queue \in [Sender -> Seq(Msg)]
    BY <1>1 DEF StreamInv, OnlyMessages
  <2>2. stash \o queue[s] \in Seq(Msg) /\ <<>> \in Seq(Msg)
    BY <2>1, ConcatProperties
  <2> QED
    BY <1>2, <2>1, <2>2
<1> QED
  BY <1>2, <1>5, <1>6 DEF StreamInv, OnlyMessages, Reading

\* What is written is the headers and payloads of the stash, into a stream not ended.
LEMMA WriteKeepsStream == StreamInv /\ Write => StreamInv'
<1> SUFFICES ASSUME StreamInv, Write PROVE StreamInv'
  OBVIOUS
<1> DEFINE all == buffered \o Units(stash)
<1>1. /\ send_pc = "write" /\ send_pc' = "drain" /\ todo' = sources /\ stash' = <<>>
      /\ UNCHANGED <<sent, queue, poisoned, sources, closed, recv_pc, buffer>>
  BY DEF Write, producers, recv_thread
<1>2. PICK n \in {0, Len(all) - 1} :
        wire' = wire \o SubSeq(all, 1, n) /\ buffered' = SubSeq(all, n + 1, Len(all))
  BY DEF Write
<1>3. Rounds' /\ poisoned' \in [Sender -> BOOLEAN] /\ (Failed => Failed')
  BY <1>1 DEF StreamInv, Rounds, Failed
<1> SUFFICES ASSUME ~Failed PROVE OnlyMessages' /\ StreamKnown'
  BY <1>3 DEF StreamInv
<1>4. /\ buffered \in Seq(Plain) /\ stash \in Seq(Msg) /\ stash # <<>>
      /\ wire \in Seq(Plain) /\ Reading /\ ~closed
  BY <1>1 DEF StreamInv, OnlyMessages, StreamKnown, Rounds, Ended
<1>5. all \in Seq(Plain) /\ Len(all) \in Nat /\ Len(all) >= 1
  <2>1. /\ Units(stash) \in Seq(Plain) /\ Len(Units(stash)) = 2 * Len(stash)
        /\ Len(stash) \in Nat /\ Len(stash) # 0 /\ Len(buffered) \in Nat
    BY <1>4, UnitsPlain
  <2>2. all \in Seq(Plain) /\ Len(all) = Len(buffered) + Len(Units(stash))
    BY <1>4, <2>1, ConcatProperties
  <2> QED
    BY <2>1, <2>2
<1> HIDE DEF all
<1>6. SubSeq(all, 1, n) \in Seq(Plain) /\ SubSeq(all, n + 1, Len(all)) \in Seq(Plain)
  <2>1. n \in Int /\ 0 <= n /\ n <= Len(all) /\ \A i \in 1 .. Len(all) : all[i] \in Plain
    BY <1>2, <1>5
  <2>2. /\ \A i \in 1 .. n : all[i] \in Plain
        /\ \A i \in n + 1 .. Len(all) : all[i] \in Plain
    BY <1>5, <2>1
  <2> QED
    BY <1>5, <2>1, <2>2, SubSeqProperties
<1>7. wire' \in Seq(Plain)
  BY <1>2, <1>4, <1>6, ConcatProperties
<1>8. StreamKnown'
  BY <1>1, <1>4, <1>7 DEF StreamKnown, Ended, Reading
<1>9. OnlyMessages'
  BY <1>1, <1>2, <1>6 DEF StreamInv, OnlyMessages, Reading
<1> QED
  BY <1>8, <1>9

\* A flush moves what is buffered to the stream.
LEMMA FlushKeepsStream == StreamInv /\ Flush => StreamInv'
<1> SUFFICES ASSUME StreamInv, Flush PROVE StreamInv'
  OBVIOUS
<1>1. /\ send_pc = "flush" /\ send_pc' = "check" /\ todo' = sources /\ buffered' = <<>>
      /\ wire' = wire \o buffered
      /\ UNCHANGED <<sent, queue, poisoned, sources, stash, closed, recv_pc, buffer>>
  BY DEF Flush, producers, recv_thread
<1>2. Rounds' /\ poisoned' \in [Sender -> BOOLEAN] /\ (Failed => Failed')
  BY <1>1 DEF StreamInv, Rounds, Failed
<1> SUFFICES ASSUME ~Failed PROVE OnlyMessages' /\ StreamKnown'
  BY <1>2 DEF StreamInv
<1>3. /\ buffered \in Seq(Plain) /\ <<>> \in Seq(Plain)
      /\ wire \in Seq(Plain) /\ Reading /\ ~closed
  BY <1>1 DEF StreamInv, OnlyMessages, StreamKnown, Ended
<1>4. wire' \in Seq(Plain)
  BY <1>1, <1>3, ConcatProperties
<1>5. StreamKnown'
  BY <1>1, <1>3, <1>4 DEF StreamKnown, Ended, Reading
<1>6. OnlyMessages'
  BY <1>1, <1>3 DEF StreamInv, OnlyMessages, Reading
<1> QED
  BY <1>5, <1>6

\* Looking at a source sends nothing.
LEMMA ExaminedKeepsStream ==
  ASSUME IInv, StreamInv, NEW s \in todo, NEW kept \in BOOLEAN,
         send_pc \in {"check", "check empty"}, Examined(s, kept)
  PROVE  StreamInv'
<1>1. /\ sources' = IF kept THEN sources ELSE sources \ {s}
      /\ todo' = IF todo = {s} /\ sources' # {} THEN sources' ELSE todo \ {s}
      /\ send_pc' = IF todo # {s} THEN "check" ELSE IF sources' = {} THEN "finish" ELSE "park"
      /\ queue' = IF kept THEN queue ELSE [queue EXCEPT ![s] = <<>>]
      /\ UNCHANGED <<sent, poisoned, stash, buffered, wire, closed, recv_pc, buffer>>
  BY DEF Examined, stream, recv_thread
<1>2. Rounds'
  BY <1>1 DEF Rounds
<1>3. poisoned' \in [Sender -> BOOLEAN] /\ (Failed => Failed')
  BY <1>1 DEF StreamInv, Failed
<1> SUFFICES ASSUME ~Failed PROVE OnlyMessages' /\ StreamKnown'
  BY <1>2, <1>3 DEF StreamInv
<1>4. StreamKnown'
  BY <1>1 DEF StreamInv, StreamKnown, Ended, Reading
<1>5. queue' \in [Sender -> Seq(Msg)]
  <2>1. queue \in [Sender -> Seq(Msg)]
    BY DEF StreamInv, OnlyMessages
  <2>2. <<>> \in Seq(Msg)
    BY EmptySeq
  <2> QED
    BY <1>1, <2>1, <2>2
<1> QED
  BY <1>1, <1>4, <1>5 DEF StreamInv, OnlyMessages, Reading

\* The last header ends the stream, all that was buffered before it.
LEMMA FinishKeepsStream == StreamInv /\ Finish => StreamInv'
<1> SUFFICES ASSUME StreamInv, Finish PROVE StreamInv'
  OBVIOUS
<1>1. /\ send_pc \in {"finish", "shutdown"} /\ send_pc' \in {"shutdown", "done"}
      /\ UNCHANGED <<sent, queue, poisoned, sources, todo, stash, recv_pc, buffer>>
  BY DEF Finish, producers, recv_thread
<1>2. Rounds' /\ poisoned' \in [Sender -> BOOLEAN] /\ (Failed => Failed')
  BY <1>1 DEF StreamInv, Rounds, Failed
<1> SUFFICES ASSUME ~Failed PROVE OnlyMessages' /\ StreamKnown'
  BY <1>2 DEF StreamInv
<1>3. CASE /\ send_pc = "finish" /\ send_pc' = "shutdown"
           /\ wire' = wire \o buffered \o <<FinalUnit>> /\ buffered' = <<>> /\ closed' = closed
  <2>1. /\ buffered \in Seq(Plain) /\ <<>> \in Seq(Plain)
        /\ wire \in Seq(Plain) /\ Reading /\ ~closed
    BY <1>3 DEF StreamInv, OnlyMessages, StreamKnown, Ended
  <2> DEFINE x == wire \o buffered
             U == Plain \cup {FinalUnit}
  <2>2. x \in Seq(Plain)
    BY <2>1, ConcatProperties
  <2>3. wire' = x \o <<FinalUnit>>
    BY <1>3
  <2> HIDE DEF x
  <2>4. /\ Len(x) \in Nat /\ \A i \in 1 .. Len(x) : x[i] \in Plain
        /\ x \in Seq(U) /\ <<FinalUnit>> \in Seq(U) /\ Len(<<FinalUnit>>) = 1
        /\ <<FinalUnit>>[1] = FinalUnit
    BY <2>2
  <2>5. /\ wire' \in Seq(U) /\ Len(wire') = Len(x) + 1
        /\ \A i \in 1 .. Len(x) + 1 : wire'[i] = IF i <= Len(x) THEN x[i]
                                                ELSE <<FinalUnit>>[i - Len(x)]
    <3> HIDE DEF U
    <3> QED
      BY <2>3, <2>4, ConcatProperties
  <2>6. wire' # <<>> /\ wire'[Len(wire')] = FinalUnit
    <3> DEFINE n == Len(x)
    <3>1. n \in Nat /\ n + 1 \in 1 .. n + 1 /\ ~(n + 1 <= n) /\ (n + 1) - n = 1
      BY <2>4
    <3>2. wire'[n + 1] = <<FinalUnit>>[(n + 1) - n]
      BY <2>5, <3>1
    <3>3. Len(wire') # 0
      BY <2>5, <3>1
    <3> QED
      BY <2>4, <2>5, <3>1, <3>2, <3>3
  <2>7. \A i \in 1 .. Len(wire') - 1 : wire'[i] \in Plain
    BY <2>4, <2>5
  <2>8. StreamKnown'
    BY <1>1, <1>3, <2>1, <2>5, <2>6, <2>7 DEF StreamKnown, Ended, Reading
  <2> QED
    BY <1>1, <1>3, <2>1, <2>8 DEF StreamInv, OnlyMessages, Reading
<1>4. CASE /\ send_pc = "shutdown" /\ send_pc' = "done" /\ UNCHANGED <<wire, buffered>>
  BY <1>1, <1>4 DEF StreamInv, OnlyMessages, StreamKnown, Ended, Reading
<1> QED
  BY <1>3, <1>4 DEF Finish, FinalUnit

\* Every step of the send thread, and a crash of its process.
LEMMA SenderKeepsStream ==
  IInv /\ StreamInv /\ (SendStep \/ LastClone \/ Crash) => StreamInv'
<1> SUFFICES ASSUME IInv, StreamInv, SendStep \/ LastClone \/ Crash PROVE StreamInv'
  OBVIOUS
<1>1. send_pc \in {"check", "check empty"} => First(todo) \in todo
  BY FirstIsIn, WorkersAssumption DEF StreamInv, Rounds, IInv, Shape
<1>2. CASE CheckLast
  <2>1. CASE Examined(First(todo), TRUE)
    BY <1>1, <1>2, <2>1, ExaminedKeepsStream DEF CheckLast
  <2>2. CASE /\ send_pc = "check" /\ send_pc' = "check empty"
             /\ UNCHANGED <<producers, send_token, sources, todo, stash, buffered, stream,
                            recv_thread, receivers>>
    BY <2>2 DEF StreamInv, Rounds, OnlyMessages, StreamKnown, Failed, Ended, Reading,
                producers, stream, recv_thread
  <2> QED
    BY <1>2, <2>1, <2>2 DEF CheckLast
<1>3. CASE CheckEmpty
  <2>1. send_pc = "check empty" /\ Examined(First(todo), queue[First(todo)] # <<>>)
    BY <1>3 DEF CheckEmpty
  <2> QED
    BY <1>1, <2>1, ExaminedKeepsStream
<1>4. CASE FindPoisoned \/ LastClone \/ Crash
  <2>1. /\ send_pc' \in {"panicked", "crashed"}
        /\ poisoned' = poisoned \/ poisoned' = [s \in Sender |-> s \in sources \/ poisoned[s]]
    BY <1>4 DEF FindPoisoned, SendPanic, LastClone, Crash, producers, send_thread
  <2>2. poisoned' \in [Sender -> BOOLEAN]
    <3>1. \A s \in Sender : (s \in sources \/ poisoned[s]) \in BOOLEAN
      OBVIOUS
    <3> QED
      BY <2>1, <3>1 DEF StreamInv
  <2> QED
    BY <2>1, <2>2 DEF StreamInv, Rounds, Failed
<1>5. CASE SendPark
  <2>1. /\ send_pc = "park" /\ send_pc' = "drain" /\ todo = sources
        /\ UNCHANGED <<sent, queue, poisoned, sources, todo, stash, buffered, wire, closed,
                       recv_pc, buffer>>
    BY <1>5 DEF SendPark, producers, stream, recv_thread, IInv, RoundKnown
  <2> QED
    BY <2>1 DEF StreamInv, Rounds, OnlyMessages, StreamKnown, Failed, Ended, Reading
<1> QED
  BY <1>2, <1>3, <1>4, <1>5, DrainKeepsStream, WriteKeepsStream, FlushKeepsStream,
     FinishKeepsStream DEF SendStep

-----------------------------------------------------------------------------
(* The receive thread *)

\* What is read before the end of an ended stream, and of any other, is messages; what
\* is read up to the end has the last header last.
LEMMA StretchRead ==
  ASSUME buffer \in Seq(Plain), NEW U, Plain \subseteq U, FinalUnit \in U, wire \in Seq(U),
         \A i \in 1 .. Len(wire) - 1 : wire[i] \in Plain,
         NEW n \in 1 .. Len(wire), NEW units, units = buffer \o SubSeq(wire, 1, n)
  PROVE  /\ units \in Seq(U) /\ Len(units) \in Nat \ {0}
         /\ units[Len(units)] = wire[n]
         /\ \A i \in 1 .. Len(units) - 1 : units[i] \in Plain
         /\ wire[n] \in Plain => units \in Seq(Plain)
<1> DEFINE b == Len(buffer)
           w == Len(wire)
           part == SubSeq(wire, 1, n)
<1>1. /\ w \in Nat /\ n \in Int /\ 1 <= n /\ n <= w
      /\ \A i \in 1 .. w : wire[i] \in U
  OBVIOUS
<1>2. \A i \in 1 .. n : wire[i] \in U
  BY <1>1
<1>3. part \in Seq(U) /\ Len(part) = n /\ \A i \in 1 .. n : part[i] = wire[i]
  <2> HIDE DEF w
  <2>1. /\ part \in Seq(U) /\ Len(part) = IF 1 <= n THEN n - 1 + 1 ELSE 0
        /\ \A i \in 1 .. n - 1 + 1 : part[i] = wire[1 + i - 1]
    BY <1>1, <1>2, SubSeqProperties
  <2> HIDE DEF part
  <2> QED
    BY <1>1, <2>1
<1>4. b \in Nat /\ buffer \in Seq(U) /\ \A i \in 1 .. b : buffer[i] \in Plain
  OBVIOUS
<1> HIDE DEF part, b, w
<1>5. /\ units \in Seq(U) /\ Len(units) = b + n
      /\ \A i \in 1 .. b + n : units[i] = IF i <= b THEN buffer[i] ELSE part[i - b]
  BY <1>3, <1>4, ConcatProperties DEF part, b
<1>6. units[b + n] = wire[n]
  <2>1. b + n \in 1 .. b + n /\ ~(b + n <= b) /\ (b + n) - b = n /\ n \in 1 .. n
    BY <1>1, <1>4
  <2>2. units[b + n] = part[(b + n) - b]
    BY <1>5, <2>1
  <2> QED
    BY <1>3, <2>1, <2>2
<1>7. ASSUME NEW i \in 1 .. b + n - 1 PROVE units[i] \in Plain
  <2>1. i \in 1 .. b + n
    BY <1>1, <1>4
  <2>2. CASE i <= b
    BY <1>4, <1>5, <2>1, <2>2
  <2>3. CASE ~(i <= b)
    <3>1. i - b \in 1 .. n /\ i - b \in 1 .. w - 1
      BY <1>1, <1>4, <2>3
    <3>2. units[i] = part[i - b] /\ part[i - b] = wire[i - b]
      BY <1>3, <1>5, <2>1, <2>3, <3>1
    <3>3. wire[i - b] \in Plain
      BY <3>1 DEF w
    <3> QED
      BY <3>2, <3>3
  <2> QED
    BY <2>2, <2>3
<1>8. ASSUME wire[n] \in Plain PROVE units \in Seq(Plain)
  <2>1. ASSUME NEW i \in 1 .. b + n PROVE units[i] \in Plain
    <3>1. i = b + n \/ i \in 1 .. b + n - 1
      BY <1>1, <1>4
    <3> QED
      BY <1>6, <1>7, <1>8, <3>1
  <2>2. units = [i \in 1 .. b + n |-> units[i]] /\ b + n \in Nat
    BY <1>1, <1>4, <1>5, LenProperties
  <2>3. units \in [1 .. b + n -> Plain]
    BY <2>1, <2>2
  <2> DEFINE L == b + n
  <2>4. units \in [1 .. L -> Plain] /\ L \in Nat
    BY <2>2, <2>3
  <2> HIDE DEF L
  <2> QED
    BY <2>4, SequenceFromFunction
<1>9. Len(units) \in Nat \ {0} /\ Len(units) = b + n
  BY <1>1, <1>4, <1>5
<1>10. units[Len(units)] = wire[n] /\ \A i \in 1 .. Len(units) - 1 : units[i] \in Plain
  BY <1>6, <1>7, <1>9
<1>11. wire[n] \in Plain => units \in Seq(Plain)
  BY <1>8
<1> QED
  BY <1>5, <1>9, <1>10, <1>11

\* Reading the last header is reading all there is.
LEMMA ReadKeepsStream == ASSUME StreamInv, NEW n, Read(n) PROVE StreamInv'
<1> DEFINE units == buffer \o SubSeq(wire, 1, n)
           w == Len(wire)
           rest == SubSeq(wire, n + 1, w)
           U == Plain \cup {FinalUnit}
<1>1. /\ recv_pc = "read" /\ n \in 1 .. w /\ wire' = rest
      /\ buffer' = Rest(units) /\ ~DataAfterFinal(units)
      /\ recv_pc' = IF HasFinal(units) THEN "confirm" ELSE "hand"
      /\ UNCHANGED <<send_pc, sources, todo, sent, queue, poisoned, stash, buffered, closed>>
  BY DEF Read, producers, send_thread
<1>2. Rounds' /\ poisoned' \in [Sender -> BOOLEAN] /\ (Failed => Failed')
  BY <1>1 DEF StreamInv, Rounds, Failed
<1> SUFFICES ASSUME ~Failed PROVE OnlyMessages' /\ StreamKnown'
  BY <1>2 DEF StreamInv
<1>3. /\ buffer \in Seq(Plain) /\ (closed => send_pc = "done")
      /\ sent \in [Sender -> Seq(Msg)] /\ queue \in [Sender -> Seq(Msg)]
      /\ stash \in Seq(Msg) /\ buffered \in Seq(Plain) /\ (Ended => buffered = <<>>)
  BY <1>1 DEF StreamInv, OnlyMessages, StreamKnown, Reading
<1>3a. /\ closed' => send_pc' = "done"
       /\ Ended' <=> Ended
       /\ Ended => buffered' = <<>>
  <2>1. UNCHANGED <<send_pc, buffered, closed>>
    BY <1>1
  <2> QED
    BY <1>3, <2>1 DEF Ended
<1>4. /\ wire \in Seq(U) /\ \A i \in 1 .. w - 1 : wire[i] \in Plain
      /\ (Ended => wire[w] = FinalUnit)
      /\ ~Ended => wire[w] \in Plain
  <2>1. CASE Ended
    BY <1>1, <2>1 DEF StreamInv, StreamKnown, Reading
  <2>2. CASE ~Ended
    <3>1. wire \in Seq(Plain)
      BY <2>2 DEF StreamInv, StreamKnown
    <3>2. \A i \in 1 .. w : wire[i] \in Plain
      BY <3>1
    <3>3. w \in Nat /\ w \in 1 .. w /\ \A i \in 1 .. w - 1 : i \in 1 .. w
      BY <1>1, <3>1
    <3>4. wire \in Seq(U)
      BY <3>1, SeqMonotonic
    <3> QED
      BY <2>2, <3>2, <3>3, <3>4
  <2> QED
    BY <2>1, <2>2
<1>5. /\ units \in Seq(U) /\ Len(units) \in Nat \ {0}
      /\ units[Len(units)] = wire[n]
      /\ \A i \in 1 .. Len(units) - 1 : units[i] \in Plain
      /\ wire[n] \in Plain => units \in Seq(Plain)
  <2>1. /\ Plain \subseteq U /\ FinalUnit \in U /\ buffer \in Seq(Plain)
        /\ wire \in Seq(U) /\ \A i \in 1 .. Len(wire) - 1 : wire[i] \in Plain
        /\ n \in 1 .. Len(wire)
    <3>1. n \in 1 .. w /\ buffer \in Seq(Plain) /\ Plain \subseteq U /\ FinalUnit \in U
      BY <1>1, <1>3
    <3>2. wire \in Seq(U) /\ \A i \in 1 .. w - 1 : wire[i] \in Plain
      BY <1>4
    <3> QED
      BY <3>1, <3>2
  <2> HIDE DEF U
  <2> QED
    BY <2>1, StretchRead
<1>6. w \in Nat /\ n \in 1 .. w
  BY <1>1, <1>4
<1>7. CASE wire[n] \in Plain
  <2>1. ~HasFinal(units)
    <3> HIDE DEF units
    <3> QED
      BY <1>5, <1>7, PlainIsNotFinal DEF HasFinal
  <2>2. recv_pc' = "hand" /\ buffer' \in Seq(Plain)
    BY <1>1, <1>5, <1>7, <2>1, RestPlain
  <2>3. /\ rest \in Seq(U) /\ Len(rest) = w - n
        /\ \A i \in 1 .. w - n : rest[i] = wire[n + i]
    <3>1. \A i \in n + 1 .. w : wire[i] \in U
      BY <1>4, <1>6
    <3>2. /\ rest \in Seq(U)
          /\ Len(rest) = IF n + 1 <= w THEN w - (n + 1) + 1 ELSE 0
          /\ \A i \in 1 .. w - (n + 1) + 1 : rest[i] = wire[n + 1 + i - 1]
      <4> HIDE DEF U, w
      <4> QED
        BY <1>6, <3>1, SubSeqProperties DEF rest
    <3> HIDE DEF rest, w
    <3> QED
      BY <1>6, <3>2
  <2> HIDE DEF rest
  <2>4. CASE Ended
    <3>1. n < w
      BY <1>4, <1>6, <1>7, <2>4, PlainIsNotFinal
    <3>2. rest[w - n] = FinalUnit
      <4>1. w - n \in 1 .. w - n /\ n + (w - n) = w
        BY <1>6, <3>1
      <4>2. rest[w - n] = wire[n + (w - n)]
        BY <2>3, <4>1
      <4> QED
        BY <1>4, <2>4, <4>1, <4>2
    <3>3. ASSUME NEW i \in 1 .. w - n - 1 PROVE rest[i] \in Plain
      <4>1. i \in 1 .. w - n /\ n + i \in 1 .. w - 1
        BY <1>6
      <4> QED
        BY <1>4, <2>3, <4>1
    <3>4. rest # <<>>
      BY <1>6, <2>3, <3>1
    <3>5. /\ wire' \in Seq(U) /\ wire' # <<>> /\ wire'[Len(wire')] = FinalUnit
          /\ \A i \in 1 .. Len(wire') - 1 : wire'[i] \in Plain
      <4> HIDE DEF U, w
      <4> QED
        BY <1>1, <2>3, <3>2, <3>3, <3>4
    <3>6. Ended' /\ Reading' /\ buffered' = <<>> /\ (closed' => send_pc' = "done")
      BY <1>3a, <2>2, <2>4 DEF Reading
    <3>7. StreamKnown'
      BY <3>5, <3>6 DEF StreamKnown
    <3> QED
      BY <1>1, <1>3, <2>2, <3>7 DEF OnlyMessages, Reading
  <2>5. CASE ~Ended
    <3>1. wire \in Seq(Plain)
      BY <2>5 DEF StreamInv, StreamKnown
    <3>2. rest \in Seq(Plain)
      <4>1. \A i \in n + 1 .. w : wire[i] \in Plain
        BY <1>6, <3>1
      <4> HIDE DEF w
      <4> QED
        BY <1>6, <4>1, SubSeqProperties DEF rest
    <3>3. /\ wire' \in Seq(Plain) /\ ~Ended' /\ Reading'
          /\ closed' => send_pc' = "done"
      BY <1>1, <1>3a, <2>2, <2>5, <3>2 DEF Reading
    <3>4. StreamKnown'
      BY <3>3 DEF StreamKnown
    <3> QED
      BY <1>1, <1>3, <2>2, <3>4 DEF OnlyMessages, Reading
  <2> QED
    BY <2>4, <2>5
<1>8. CASE wire[n] \notin Plain
  <2>1. Ended /\ n = w /\ wire[n] = FinalUnit
    <3>1. n = w
      BY <1>4, <1>6, <1>8
    <3> QED
      BY <1>4, <1>8, <3>1
  <2>2. HasFinal(units)
    <3> HIDE DEF units
    <3>1. Len(units) \in 1 .. Len(units) /\ units[Len(units)][1] = Final
      BY <1>5, <2>1 DEF FinalUnit
    <3> QED
      BY <3>1 DEF HasFinal
  <2>3. recv_pc' = "confirm" /\ wire' = <<>>
    <3>1. SubSeq(wire, w + 1, w) = <<>>
      BY <1>6, SubSeqEmpty
    <3> QED
      BY <1>1, <2>1, <2>2, <3>1
  <2>4. /\ Ended' /\ ~Reading' /\ buffered' = <<>> /\ recv_pc' # "panicked"
        /\ closed' => send_pc' = "done"
    BY <1>3a, <2>1, <2>3 DEF Reading
  <2>5. StreamKnown'
    BY <2>3, <2>4 DEF StreamKnown
  <2>6. OnlyMessages'
    BY <1>1, <1>3, <2>4 DEF OnlyMessages
  <2> QED
    BY <2>5, <2>6
<1> QED
  BY <1>7, <1>8

\* Without a failure no stream ends too early or goes on too long.
LEMMA NoBadStream == StreamInv /\ BadStream => Failed
<1> SUFFICES ASSUME StreamInv, BadStream, ~Failed PROVE FALSE
  OBVIOUS
<1>1. ~(recv_pc = "read" /\ wire = <<>> /\ closed)
  BY DEF StreamInv, StreamKnown, Ended, Reading
<1>2. ~(recv_pc = "confirm" /\ wire # <<>>)
  BY DEF StreamInv, StreamKnown, Reading
<1>3. recv_pc = "read"
  BY <1>1, <1>2 DEF BadStream
<1>4. PICK n \in 1 .. Len(wire) : DataAfterFinal(buffer \o SubSeq(wire, 1, n))
  BY <1>1, <1>2 DEF BadStream
<1> DEFINE units == buffer \o SubSeq(wire, 1, n)
           U == Plain \cup {FinalUnit}
<1>5. wire \in Seq(U) /\ \A i \in 1 .. Len(wire) - 1 : wire[i] \in Plain
  <2>1. CASE Ended
    BY <1>3, <2>1 DEF StreamInv, StreamKnown, Reading
  <2>2. CASE ~Ended
    <3>1. wire \in Seq(Plain)
      BY <2>2 DEF StreamInv, StreamKnown
    <3>2. \A i \in 1 .. Len(wire) : wire[i] \in Plain
      BY <3>1
    <3>3. wire \in Seq(U)
      BY <3>1, SeqMonotonic
    <3> QED
      BY <3>1, <3>2, <3>3
  <2> QED
    BY <2>1, <2>2
<1>6. \A i \in 1 .. Len(units) - 1 : units[i] \in Plain
  <2>1. buffer \in Seq(Plain) /\ Plain \subseteq U /\ FinalUnit \in U
    BY <1>3 DEF StreamInv, OnlyMessages, Reading
  <2> HIDE DEF U
  <2> QED
    BY <1>5, <2>1, StretchRead
<1> HIDE DEF units
<1>7. DataAfterFinal(units)
  BY <1>4 DEF units
<1> QED
  BY <1>6, <1>7, PlainIsNotFinal DEF DataAfterFinal

\* The rest of the receiving process touches neither the stream nor the sending one.
LEMMA ReceiversKeepStream ==
  ASSUME StreamInv, RecvStep \/ (\E r \in Receiver : WorkerStep(r)) \/ UNCHANGED vars
  PROVE  StreamInv'
<1>1. CASE \E n \in 1 .. Len(wire) : Read(n)
  BY <1>1, ReadKeepsStream
<1>2. CASE BadStream
  <2>1. UNCHANGED <<send_pc, sources, todo, stash, poisoned>>
    BY <1>2 DEF BadStream, RecvPanic, producers, send_thread
  <2> QED
    BY <1>2, <2>1, NoBadStream DEF StreamInv, Rounds, Failed
<1>3. CASE Confirm \/ HandOver \/ HandPing \/ HandDone
  <2>1. /\ UNCHANGED <<send_pc, sources, todo, stash, sent, queue, poisoned, buffered, wire,
                       closed, buffer>>
        /\ Reading' <=> Reading
        /\ recv_pc' # "panicked"
    BY <1>3 DEF Confirm, HandOver, HandPing, HandDone, producers, send_thread, stream, Reading
  <2> QED
    BY <2>1 DEF StreamInv, Rounds, OnlyMessages, StreamKnown, Failed, Ended
<1>4. CASE (\E r \in Receiver : WorkerStep(r)) \/ UNCHANGED vars
  <2>1. UNCHANGED <<send_pc, sources, todo, stash, sent, queue, poisoned, buffered, wire,
                    closed, buffer, recv_pc>>
    BY <1>4 DEF WorkerStep, Receive, ReceivePoison, Unparked, vars, producers, send_thread,
                stream, recv_thread
  <2> QED
    BY <2>1 DEF StreamInv, Rounds, OnlyMessages, StreamKnown, Failed, Ended, Reading
<1> QED
  BY <1>1, <1>2, <1>3, <1>4 DEF RecvStep

\* Every step of every thread keeps the stream as it should be.
LEMMA NextStreamInv == IInv /\ StreamInv /\ [Next]_vars => StreamInv'
BY ProducersKeepStream, SenderKeepsStream, ReceiversKeepStream DEF Next

\* "If the stream ends without being shut down, the receive thread panics": and only then.
\* Whatever is in flight when workers leave, whether reads separate headers from
\* messages, the last header is the last thing read and the end of the stream comes next.
THEOREM ReceiverPanicsOnlyAfterFailure == Spec => []PanicsOnlyAfterFailure
<1>1. Spec => []StreamInv
  BY InitStreamInv, NextStreamInv, Invariance, PTL DEF Spec
<1> QED
  BY <1>1, PanicsFollows, PTL

-----------------------------------------------------------------------------
(* Counting through a sequence *)

\* The entries of a sequence at some positions are those it has there, in the same order.
Enumerates(e, n, S, seq, picked) ==
  /\ picked = [i \in 1 .. n |-> seq[e[i]]]
  /\ \A i, j \in 1 .. n : i < j => e[i] < e[j]
  /\ \A k \in S : \E i \in 1 .. n : e[i] = k

LEMMA AtFacts ==
  ASSUME NEW seq, NEW L \in Nat, NEW S \in SUBSET (1 .. L)
  PROVE  \E n \in Nat : \E e \in [1 .. n -> S] : Enumerates(e, n, S, seq, At(seq, S))
<1> DEFINE n == Cardinality(S)
           below(k) == {j \in S : j <= k}
           r == [k \in S |-> Cardinality(below(k))]
           e == [i \in 1 .. n |-> CHOOSE k \in S : r[k] = i]
<1>1. IsFiniteSet(S) /\ n \in Nat
  <2>1. IsFiniteSet(1 .. L)
    BY FS_Interval
  <2>2. IsFiniteSet(S)
    BY <2>1, FS_Subset
  <2> QED
    BY <2>2, FS_CardinalityType
<1>2. \A k \in S : k \in Nat /\ k \in Int
  OBVIOUS
<1>3. ASSUME NEW k \in S
      PROVE  /\ below(k) \in SUBSET S /\ IsFiniteSet(below(k)) /\ k \in below(k)
             /\ r[k] = Cardinality(below(k)) /\ r[k] \in 1 .. n
  <2>1. below(k) \in SUBSET S /\ k \in below(k)
    BY <1>2
  <2>2. IsFiniteSet(below(k)) /\ Cardinality(below(k)) <= n
    BY <1>1, <2>1, FS_Subset
  <2>3. Cardinality(below(k)) \in Nat /\ Cardinality(below(k)) # 0
    BY <2>1, <2>2, FS_CardinalityType, FS_EmptySet
  <2>4. r[k] = Cardinality(below(k))
    OBVIOUS
  <2> HIDE DEF below, r, n
  <2> QED
    BY <1>1, <2>1, <2>2, <2>3, <2>4
<1>4. ASSUME NEW j \in S, NEW k \in S, j < k PROVE r[j] < r[k]
  <2>0. j \in Nat /\ k \in Nat /\ \A i \in S : i \in Nat
    BY <1>2
  <2>1. below(j) \in SUBSET below(k) /\ k \notin below(j)
    <3>1. \A i \in S : i <= j => i <= k
      BY <1>4, <2>0
    <3>2. ~(k <= j)
      BY <1>4, <2>0
    <3> QED
      BY <3>1, <3>2
  <2> HIDE DEF below, r
  <2>2. Cardinality(below(j)) <= Cardinality(below(k)) /\ Cardinality(below(j)) # Cardinality(below(k))
    BY <1>3, <2>1, FS_Subset
  <2> QED
    BY <1>1, <1>3, <2>2
<1>5. r \in [S -> 1 .. n]
  <2> HIDE DEF below, n
  <2> QED
    BY <1>3
<1>6. \A i \in 1 .. n : \E k \in S : r[k] = i
  <2> HIDE DEF r
  <2>1. \A j, k \in S : r[j] = r[k] => j = k
    <3> SUFFICES ASSUME NEW j \in S, NEW k \in S, j # k PROVE r[j] # r[k]
      OBVIOUS
    <3>1. r[j] \in Int /\ r[k] \in Int /\ j \in Nat /\ k \in Nat
      BY <1>1, <1>2, <1>5
    <3>2. j < k \/ k < j
      BY <3>1
    <3> QED
      BY <1>4, <3>1, <3>2
  <2>2. r \in Injection(S, 1 .. n)
    BY <1>5, <2>1 DEF Injection, IsInjective
  <2>3. IsFiniteSet(1 .. n) /\ Cardinality(1 .. n) = n
    BY <1>1, FS_Interval
  <2>4. r \in Surjection(S, 1 .. n)
    BY <2>2, <2>3, FS_Injection
  <2> QED
    BY <2>4 DEF Surjection
<1>7. \A i \in 1 .. n : e[i] \in S /\ r[e[i]] = i
  <2> HIDE DEF r, n
  <2> QED
    BY <1>6
<1>8. At(seq, S) = [i \in 1 .. n |-> seq[e[i]]]
  <2>1. \A k \in S : r[k] = Cardinality({j \in S : j <= k})
    OBVIOUS
  <2>2. \A i \in 1 .. n :
          e[i] = CHOOSE k \in S : Cardinality({j \in S : j <= k}) = i
    OBVIOUS
  <2>3. At(seq, S) = [i \in 1 .. n |->
                        seq[CHOOSE k \in S : Cardinality({j \in S : j <= k}) = i]]
    BY DEF At
  <2> HIDE DEF e, r, below, n
  <2> QED
    BY <2>2, <2>3
<1>9. e \in [1 .. n -> S]
  <2> HIDE DEF r, n
  <2>1. e = [i \in 1 .. n |-> e[i]]
    OBVIOUS
  <2> HIDE DEF e
  <2> QED
    BY <1>7, <2>1
<1>10. ASSUME NEW i \in 1 .. n, NEW j \in 1 .. n, i < j PROVE e[i] < e[j]
  <2> HIDE DEF e, r, n
  <2>1. e[i] \in S /\ e[j] \in S /\ r[e[i]] = i /\ r[e[j]] = j
    BY <1>7
  <2>2. e[i] \in Nat /\ e[j] \in Nat
    BY <1>2, <2>1
  <2>3. e[j] < e[i] => r[e[j]] < r[e[i]]
    BY <1>4, <2>1
  <2> QED
    BY <1>1, <1>10, <2>1, <2>2, <2>3
<1>11. ASSUME NEW k \in S PROVE \E i \in 1 .. n : e[i] = k
  <2> HIDE DEF e, n
  <2>1. r[k] \in 1 .. n
    BY <1>3
  <2>2. e[r[k]] \in S /\ r[e[r[k]]] = r[k]
    BY <1>7, <2>1
  <2> HIDE DEF r
  <2>3. /\ e[r[k]] < k => r[e[r[k]]] < r[k]
        /\ k < e[r[k]] => r[k] < r[e[r[k]]]
    BY <1>4, <2>2
  <2>4. e[r[k]] = k
    <3>1. k \in Nat /\ e[r[k]] \in Nat
      BY <1>2, <2>2
    <3>2. r[k] \in Int
      BY <1>1, <2>1
    <3> QED
      BY <2>2, <2>3, <3>1, <3>2
  <2> QED
    BY <2>1, <2>4
<1> HIDE DEF e, n, r
<1>12. Enumerates(e, n, S, seq, At(seq, S))
  BY <1>8, <1>10, <1>11 DEF Enumerates
<1> QED
  BY <1>1, <1>9, <1>12

-----------------------------------------------------------------------------
(* The messages from one worker to another, by number, wherever they are *)

\* What stands for the message of each number, in queues and in the stream.
To(s, r) == [k \in Nat |-> <<s, r, k>>]
Payload(s, r) == [k \in Nat |-> <<<<s, r, k>>, "payload">>]

\* The numbers found in a sequence, and whether it has them in order.
Numbers(q, x) == {k \in Nat : \E i \in 1 .. Len(q) : q[i] = x[k]}

Rising(q, x) ==
  \A i, j \in 1 .. Len(q) : \A k, l \in Nat : i < j /\ q[i] = x[k] /\ q[j] = x[l] => k < l

Below(A, B) == \A k \in A : \A l \in B : k < l

LEMMA NothingIn == \A x : Numbers(<<>>, x) = {} /\ Rising(<<>>, x)
BY DEF Numbers, Rising

\* Of two sequences, one after the other.
LEMMA ConcatNumbers ==
  ASSUME NEW T, NEW a \in Seq(T), NEW b \in Seq(T), NEW x
  PROVE  /\ Numbers(a \o b, x) = Numbers(a, x) \cup Numbers(b, x)
         /\ Rising(a \o b, x) <=> /\ Rising(a, x) /\ Rising(b, x)
                                  /\ Below(Numbers(a, x), Numbers(b, x))
<1> DEFINE c == a \o b
<1>1. PICK m \in Nat, n \in Nat :
        /\ Len(a) = m /\ Len(b) = n /\ Len(c) = m + n
        /\ \A i \in 1 .. m + n : c[i] = IF i <= m THEN a[i] ELSE b[i - m]
  BY ConcatProperties, LenProperties
<1> HIDE DEF c
<1>2. \A i \in 1 .. m : i \in 1 .. m + n /\ c[i] = a[i]
  BY <1>1
<1>3. \A i \in 1 .. n : m + i \in 1 .. m + n /\ c[m + i] = b[i]
  <2> TAKE i \in 1 .. n
  <2>1. m + i \in 1 .. m + n /\ ~(m + i <= m) /\ (m + i) - m = i
    BY <1>1
  <2>2. c[m + i] = b[(m + i) - m]
    BY <1>1, <2>1
  <2> QED
    BY <2>1, <2>2
<1>4. \A i \in 1 .. m + n : i \in 1 .. m \/ \E j \in 1 .. n : i = m + j
  <2> TAKE i \in 1 .. m + n
  <2>1. i \in 1 .. m \/ (i - m \in 1 .. n /\ i = m + (i - m))
    BY <1>1
  <2> QED
    BY <2>1
<1>5. \A k \in Nat : k \in Numbers(c, x) <=> k \in Numbers(a, x) \/ k \in Numbers(b, x)
  <2> TAKE k \in Nat
  <2>1. ASSUME NEW i \in 1 .. m + n, c[i] = x[k]
        PROVE  k \in Numbers(a, x) \/ k \in Numbers(b, x)
    <3>1. CASE i \in 1 .. m
      BY <1>1, <1>2, <2>1, <3>1 DEF Numbers
    <3>2. ASSUME NEW j \in 1 .. n, i = m + j PROVE k \in Numbers(b, x)
      BY <1>1, <1>3, <2>1, <3>2 DEF Numbers
    <3> QED
      BY <1>4, <3>1, <3>2
  <2>2. k \in Numbers(a, x) => k \in Numbers(c, x)
    BY <1>1, <1>2 DEF Numbers
  <2>3. k \in Numbers(b, x) => k \in Numbers(c, x)
    BY <1>1, <1>3 DEF Numbers
  <2> QED
    BY <1>1, <2>1, <2>2, <2>3 DEF Numbers
<1>6. Numbers(c, x) = Numbers(a, x) \cup Numbers(b, x)
  <2>1. \A q : Numbers(q, x) \subseteq Nat
    BY DEF Numbers
  <2> QED
    BY <1>5, <2>1
<1>7. ASSUME Rising(c, x)
      PROVE  Rising(a, x) /\ Rising(b, x) /\ Below(Numbers(a, x), Numbers(b, x))
  <2>1. Rising(a, x)
    BY <1>1, <1>2, <1>7 DEF Rising
  <2>2. Rising(b, x)
    <3> SUFFICES ASSUME NEW i \in 1 .. n, NEW j \in 1 .. n, NEW k \in Nat, NEW l \in Nat,
                        i < j, b[i] = x[k], b[j] = x[l]
                 PROVE  k < l
      BY <1>1 DEF Rising
    <3>1. m + i \in 1 .. m + n /\ m + j \in 1 .. m + n /\ m + i < m + j
      BY <1>1
    <3>2. c[m + i] = x[k] /\ c[m + j] = x[l]
      BY <1>3
    <3> QED
      BY <1>1, <1>7, <3>1, <3>2 DEF Rising
  <2>3. Below(Numbers(a, x), Numbers(b, x))
    <3> SUFFICES ASSUME NEW k \in Nat, NEW l \in Nat, NEW i \in 1 .. m, NEW j \in 1 .. n,
                        a[i] = x[k], b[j] = x[l]
                 PROVE  k < l
      BY <1>1 DEF Below, Numbers
    <3>1. i \in 1 .. m + n /\ m + j \in 1 .. m + n /\ i < m + j
      BY <1>1
    <3>2. c[i] = x[k] /\ c[m + j] = x[l]
      BY <1>2, <1>3
    <3> QED
      BY <1>1, <1>7, <3>1, <3>2 DEF Rising
  <2> QED
    BY <2>1, <2>2, <2>3
<1>8. ASSUME Rising(a, x), Rising(b, x), Below(Numbers(a, x), Numbers(b, x))
      PROVE  Rising(c, x)
  <2> SUFFICES ASSUME NEW i \in 1 .. m + n, NEW j \in 1 .. m + n, NEW k \in Nat, NEW l \in Nat,
                      i < j, c[i] = x[k], c[j] = x[l]
               PROVE  k < l
    BY <1>1 DEF Rising
  <2>1. CASE i \in 1 .. m /\ j \in 1 .. m
    BY <1>1, <1>2, <1>8, <2>1 DEF Rising
  <2>2. ASSUME i \in 1 .. m, NEW j1 \in 1 .. n, j = m + j1 PROVE k < l
    <3>1. k \in Numbers(a, x) /\ l \in Numbers(b, x)
      BY <1>1, <1>2, <1>3, <2>2 DEF Numbers
    <3> QED
      BY <1>8, <3>1 DEF Below
  <2>3. ASSUME NEW i1 \in 1 .. n, i = m + i1, NEW j1 \in 1 .. n, j = m + j1 PROVE k < l
    <3>1. i1 < j1 /\ b[i1] = x[k] /\ b[j1] = x[l]
      BY <1>1, <1>3, <2>3
    <3> QED
      BY <1>1, <1>8, <3>1 DEF Rising
  <2>4. ~(j \in 1 .. m /\ i \notin 1 .. m)
    BY <1>1
  <2> QED
    BY <1>4, <2>1, <2>2, <2>3, <2>4
<1> QED
  BY <1>6, <1>7, <1>8 DEF c

\* The messages at some positions of a sequence, and whether they are in order.
RisingAt(q, S, x) ==
  \A i, j \in S : \A k, l \in Nat : i < j /\ q[i] = x[k] /\ q[j] = x[l] => k < l

LEMMA AtNumbers ==
  ASSUME NEW seq, NEW L \in Nat, NEW S \in SUBSET (1 .. L),
         NEW T, \A i \in S : seq[i] \in T, NEW x
  PROVE  /\ At(seq, S) \in Seq(T)
         /\ Numbers(At(seq, S), x) = {k \in Nat : \E i \in S : seq[i] = x[k]}
         /\ RisingAt(seq, S, x) => Rising(At(seq, S), x)
<1> DEFINE a == At(seq, S)
<1>0. PICK n \in Nat : \E e \in [1 .. n -> S] : Enumerates(e, n, S, seq, a)
  BY AtFacts
<1> HIDE DEF a
<1>1. PICK e \in [1 .. n -> S] :
        /\ a = [i \in 1 .. n |-> seq[e[i]]]
        /\ \A i, j \in 1 .. n : i < j => e[i] < e[j]
        /\ \A k \in S : \E i \in 1 .. n : e[i] = k
  BY <1>0 DEF Enumerates
<1>2. a \in Seq(T) /\ Len(a) = n /\ \A i \in 1 .. n : a[i] = seq[e[i]] /\ e[i] \in S
  <2>1. \A i \in 1 .. n : e[i] \in S /\ seq[e[i]] \in T
    OBVIOUS
  <2>2. a \in [1 .. n -> T]
    BY <1>1, <2>1
  <2>3. a \in Seq(T) /\ DOMAIN a = 1 .. n
    BY <2>2, SequenceFromFunction
  <2>4. Len(a) = n
    BY <2>3, LenProperties
  <2> QED
    BY <1>1, <2>1, <2>3, <2>4
<1>3. Numbers(a, x) = {k \in Nat : \E i \in S : seq[i] = x[k]}
  <2>1. ASSUME NEW k \in Nat, NEW i \in 1 .. n, a[i] = x[k] PROVE \E j \in S : seq[j] = x[k]
    BY <1>2, <2>1
  <2>2. ASSUME NEW k \in Nat, NEW j \in S, seq[j] = x[k] PROVE \E i \in 1 .. n : a[i] = x[k]
    <3>1. PICK i \in 1 .. n : e[i] = j
      BY <1>1
    <3> QED
      BY <1>2, <2>2, <3>1
  <2> QED
    BY <1>2, <2>1, <2>2 DEF Numbers
<1>4. ASSUME RisingAt(seq, S, x) PROVE Rising(a, x)
  <2> SUFFICES ASSUME NEW i \in 1 .. n, NEW j \in 1 .. n, NEW k \in Nat, NEW l \in Nat,
                      i < j, a[i] = x[k], a[j] = x[l]
               PROVE  k < l
    BY <1>2 DEF Rising
  <2>1. /\ e[i] \in S /\ e[j] \in S /\ e[i] < e[j]
        /\ seq[e[i]] = x[k] /\ seq[e[j]] = x[l]
    BY <1>1, <1>2
  <2> QED
    BY <1>4, <2>1 DEF RisingAt
<1> QED
  BY <1>2, <1>3, <1>4 DEF a

\* Workers are numbered from one: no message is the final header, and each message is
\* from one worker to one worker.
LEMMA MessageFacts ==
  /\ Final \notin Message
  /\ \A m \in Message : m \in Msg /\ m = <<m[1], m[2], m[3]>> /\ m[1] \in Sender /\ m[2] \in Receiver
                        /\ m[3] \in Nat
BY WorkersAssumption DEF Message, Msg, Final

LEMMA UnitFacts ==
  ASSUME NEW u \in UnitSet
  PROVE  /\ u[1] \in Message \cup {Final}
         /\ Ends(u) /\ u[1] # Final => u = <<u[1], "payload">>
         /\ \A s \in Sender, r \in Receiver, k \in Nat :
              Ends(u) /\ u[1] = <<s, r, k>> <=> u = <<<<s, r, k>>, "payload">>
<1>1. u[1] \in Message \cup {Final} /\ (Ends(u) /\ u[1] # Final => u = <<u[1], "payload">>)
  BY DEF UnitSet, Ends
<1>2. ASSUME NEW s \in Sender, NEW r \in Receiver, NEW k \in Nat
      PROVE  /\ Ends(u) /\ u[1] = <<s, r, k>> => u = <<<<s, r, k>>, "payload">>
             /\ u = <<<<s, r, k>>, "payload">> => Ends(u) /\ u[1] = <<s, r, k>>
  <2>1. <<s, r, k>> # Final
    BY WorkersAssumption DEF Final
  <2> QED
    BY <1>1, <2>1 DEF Ends
<1> QED
  BY <1>1, <1>2

\* The messages completed by a stretch of the stream are those whose payloads are in it.
LEMMA CompletedNumbers ==
  ASSUME NEW units \in Seq(UnitSet), NEW s \in Sender, NEW r \in Receiver
  PROVE  /\ Completed(units) \in Seq(Message \cup {Final})
         /\ Numbers(Completed(units), To(s, r)) = Numbers(units, Payload(s, r))
         /\ Rising(units, Payload(s, r)) => Rising(Completed(units), To(s, r))
<1> DEFINE L == Len(units)
           heads == [i \in 1 .. L |-> units[i][1]]
           S == {i \in 1 .. L : Ends(units[i])}
           T == Message \cup {Final}
<1>1. L \in Nat /\ \A i \in 1 .. L : units[i] \in UnitSet
  OBVIOUS
<1>2. S \in SUBSET (1 .. L) /\ \A i \in S : heads[i] \in T
  BY <1>1, UnitFacts
<1>3. Completed(units) = At(heads, S)
  BY DEF Completed
<1>4. \A i \in 1 .. L, k \in Nat :
        i \in S /\ heads[i] = To(s, r)[k] <=> units[i] = Payload(s, r)[k]
  <2> TAKE i \in 1 .. L, k \in Nat
  <2>1. To(s, r)[k] = <<s, r, k>> /\ Payload(s, r)[k] = <<<<s, r, k>>, "payload">>
    BY DEF To, Payload
  <2>2. i \in S /\ heads[i] = <<s, r, k>> <=> Ends(units[i]) /\ units[i][1] = <<s, r, k>>
    OBVIOUS
  <2>3. Ends(units[i]) /\ units[i][1] = <<s, r, k>> <=> units[i] = <<<<s, r, k>>, "payload">>
    BY <1>1, UnitFacts
  <2> QED
    BY <2>1, <2>2, <2>3
<1> HIDE DEF heads, S, T
<1>5. /\ At(heads, S) \in Seq(T)
      /\ Numbers(At(heads, S), To(s, r)) = {k \in Nat : \E i \in S : heads[i] = To(s, r)[k]}
      /\ RisingAt(heads, S, To(s, r)) => Rising(At(heads, S), To(s, r))
  <2>1. L \in Nat /\ S \in SUBSET (1 .. L) /\ \A i \in S : heads[i] \in T
    BY <1>1, <1>2
  <2> HIDE DEF L
  <2> QED
    BY <2>1, AtNumbers
<1>6. Numbers(At(heads, S), To(s, r)) = Numbers(units, Payload(s, r))
  <2>1. \A k \in Nat : (\E i \in S : heads[i] = To(s, r)[k])
                         <=> (\E i \in 1 .. L : units[i] = Payload(s, r)[k])
    BY <1>2, <1>4
  <2>2. Numbers(units, Payload(s, r)) = {k \in Nat : \E i \in S : heads[i] = To(s, r)[k]}
    BY <2>1 DEF Numbers
  <2> QED
    BY <1>5, <2>2
<1>7. Rising(units, Payload(s, r)) => Rising(At(heads, S), To(s, r))
  BY <1>2, <1>4, <1>5 DEF Rising, RisingAt
<1> QED
  BY <1>3, <1>5, <1>6, <1>7 DEF T

\* What is picked from a sequence loses none of the messages from one worker to another
\* if it is all there is for the receiver, or all there is between the two.
LEMMA PickedNumbers ==
  ASSUME NEW q \in Seq(Message \cup {Final}), NEW s \in Sender, NEW r \in Receiver,
         NEW S, S = {i \in 1 .. Len(q) : q[i][2] = r}
                \/ S = {i \in 1 .. Len(q) : q[i][1] = s /\ q[i][2] = r}
  PROVE  /\ At(q, S) \in Seq(Message)
         /\ Numbers(At(q, S), To(s, r)) = Numbers(q, To(s, r))
         /\ Rising(q, To(s, r)) => Rising(At(q, S), To(s, r))
<1> DEFINE L == Len(q)
<1>1. L \in Nat /\ S \in SUBSET (1 .. L) /\ \A i \in 1 .. L : q[i] \in Message \cup {Final}
  OBVIOUS
<1>2. \A i \in S : q[i] \in Message
  <2> TAKE i \in S
  <2>1. q[i][2] = r /\ Final[2] = 0
    BY <1>1 DEF Final
  <2>2. r # 0
    BY WorkersAssumption
  <2> QED
    BY <1>1, <2>1, <2>2
<1>3. \A i \in 1 .. L, k \in Nat : q[i] = To(s, r)[k] => i \in S
  BY DEF To
<1> HIDE DEF L
<1>4. /\ At(q, S) \in Seq(Message)
      /\ Numbers(At(q, S), To(s, r)) = {k \in Nat : \E i \in S : q[i] = To(s, r)[k]}
      /\ RisingAt(q, S, To(s, r)) => Rising(At(q, S), To(s, r))
  BY <1>1, <1>2, AtNumbers
<1>5. \A k \in Nat : (\E i \in S : q[i] = To(s, r)[k]) <=> (\E i \in 1 .. L : q[i] = To(s, r)[k])
  BY <1>1, <1>3
<1>6. Numbers(q, To(s, r)) = {k \in Nat : \E i \in S : q[i] = To(s, r)[k]}
  BY <1>5 DEF Numbers, L
<1>7. Rising(q, To(s, r)) => RisingAt(q, S, To(s, r))
  BY <1>1 DEF Rising, RisingAt, L
<1> QED
  BY <1>4, <1>6, <1>7

\* What is written for messages has their payloads, in the same order.
LEMMA UnitsNumbers ==
  ASSUME NEW messages \in Seq(Message), NEW s \in Sender, NEW r \in Receiver
  PROVE  /\ Units(messages) \in Seq(UnitSet)
         /\ Numbers(Units(messages), Payload(s, r)) = Numbers(messages, To(s, r))
         /\ Rising(messages, To(s, r)) => Rising(Units(messages), Payload(s, r))
<1> DEFINE n == Len(messages)
           x == To(s, r)
           y == Payload(s, r)
           u == Units(messages)
<1>1. n \in Nat /\ \A k \in 1 .. n : messages[k] \in Message
  OBVIOUS
<1>2. u = [i \in 1 .. 2 * n |->
             <<messages[(i + 1) \div 2], IF i % 2 = 1 THEN "header" ELSE "payload">>]
  BY DEF Units
<1> HIDE DEF n, u, x, y
<1>3. ASSUME NEW i \in 1 .. 2 * n PROVE (i + 1) \div 2 \in 1 .. n
  BY <1>1
<1>4. ASSUME NEW i \in 1 .. 2 * n PROVE u[i] \in UnitSet
  <2>1. messages[(i + 1) \div 2] \in Message
    BY <1>1, <1>3
  <2> QED
    BY <1>2, <2>1 DEF UnitSet
<1>5. u \in Seq(UnitSet) /\ Len(u) = 2 * n
  <2>0. 2 * n \in Nat
    BY <1>1
  <2>1. 2 * n \in Nat /\ u \in [1 .. 2 * n -> UnitSet]
    <3> DEFINE m == 2 * n
    <3>1. u = [i \in 1 .. m |-> u[i]] /\ \A i \in 1 .. m : u[i] \in UnitSet
      BY <1>2, <1>4
    <3> HIDE DEF m
    <3>2. u \in [1 .. m -> UnitSet]
      BY <3>1
    <3> QED
      BY <2>0, <3>2 DEF m
  <2>2. u \in Seq(UnitSet)
    BY <2>1, SequenceFromFunction
  <2>3. DOMAIN u = 1 .. 2 * n
    BY <2>1
  <2> QED
    BY <2>1, <2>2, <2>3, LenProperties
<1>6. ASSUME NEW i \in 1 .. 2 * n, NEW k \in Nat, u[i] = y[k]
      PROVE  \E j \in 1 .. n : i = 2 * j /\ messages[j] = x[k]
  <2>1. y[k] = <<<<s, r, k>>, "payload">> /\ x[k] = <<s, r, k>>
    BY DEF x, y, To, Payload
  <2>2. i % 2 # 1 /\ messages[(i + 1) \div 2] = x[k]
    BY <1>2, <1>6, <2>1
  <2>3. i = 2 * ((i + 1) \div 2)
    BY <1>1, <2>2
  <2> QED
    BY <1>3, <2>2, <2>3
<1>7. ASSUME NEW j \in 1 .. n, NEW k \in Nat, messages[j] = x[k]
      PROVE  2 * j \in 1 .. 2 * n /\ u[2 * j] = y[k]
  <2>1. y[k] = <<<<s, r, k>>, "payload">> /\ x[k] = <<s, r, k>>
    BY DEF x, y, To, Payload
  <2>2. 2 * j \in 1 .. 2 * n /\ (2 * j) % 2 # 1 /\ (2 * j + 1) \div 2 = j
    BY <1>1
  <2> QED
    BY <1>2, <1>7, <2>1, <2>2
<1>8. Numbers(u, y) = Numbers(messages, x)
  <2>1. \A k \in Nat : (\E i \in 1 .. 2 * n : u[i] = y[k])
                         <=> (\E j \in 1 .. n : messages[j] = x[k])
    BY <1>6, <1>7
  <2> QED
    BY <1>5, <2>1 DEF Numbers, n
<1>9. ASSUME Rising(messages, x) PROVE Rising(u, y)
  <2> SUFFICES ASSUME NEW i1 \in 1 .. 2 * n, NEW i2 \in 1 .. 2 * n, NEW k \in Nat, NEW l \in Nat,
                      i1 < i2, u[i1] = y[k], u[i2] = y[l]
               PROVE  k < l
    BY <1>5 DEF Rising
  <2>1. PICK j1 \in 1 .. n : i1 = 2 * j1 /\ messages[j1] = x[k]
    BY <1>6
  <2>2. PICK j2 \in 1 .. n : i2 = 2 * j2 /\ messages[j2] = x[l]
    BY <1>6
  <2>3. j1 < j2
    BY <1>1, <2>1, <2>2
  <2> QED
    BY <1>9, <2>1, <2>2, <2>3 DEF Rising, n
<1> QED
  BY <1>5, <1>8, <1>9 DEF u, x, y

\* What is left after extracting messages has no payload: the messages are complete.
LEMMA RestNumbers ==
  ASSUME NEW units \in Seq(UnitSet)
  PROVE  /\ Rest(units) \in Seq(UnitSet)
         /\ \A s \in Sender, r \in Receiver : Numbers(Rest(units), Payload(s, r)) = {}
<1> DEFINE L == Len(units)
           last == {0} \cup {i \in 1 .. L : Ends(units[i])}
           k == CHOOSE i \in last : \A j \in last : j <= i
           rest == SubSeq(units, k + 1, L)
<1>1. L \in Nat /\ last \in SUBSET (0 .. L) /\ last # {}
  OBVIOUS
<1>2. k \in 0 .. L /\ \A j \in last : j <= k
  <2> HIDE DEF last
  <2>1. \E i \in last : \A j \in last : j <= i
    BY <1>1, LastExists
  <2> QED
    BY <1>1, <2>1
<1>3. Rest(units) = rest
  BY DEF Rest
<1>4. \A j \in 1 .. L : Ends(units[j]) => j <= k
  BY <1>2
<1> HIDE DEF k, last
<1>5. /\ rest \in Seq(UnitSet)
      /\ Len(rest) = IF k + 1 <= L THEN L - (k + 1) + 1 ELSE 0
      /\ \A i \in 1 .. L - (k + 1) + 1 : rest[i] = units[k + 1 + i - 1]
  <2>1. \A i \in k + 1 .. L : units[i] \in UnitSet
    BY <1>1, <1>2
  <2> HIDE DEF L
  <2> QED
    BY <1>1, <1>2, <2>1, SubSeqProperties
<1> HIDE DEF L, rest
<1>6. ASSUME NEW i \in 1 .. Len(rest) PROVE rest[i] \in UnitSet /\ ~Ends(rest[i])
  <2>1. i \in 1 .. L - (k + 1) + 1 /\ k + 1 + i - 1 = k + i /\ k + i \in 1 .. L /\ ~(k + i <= k)
    BY <1>1, <1>2, <1>5
  <2>2. rest[i] = units[k + i]
    BY <1>5, <2>1
  <2> QED
    BY <1>4, <1>5, <2>1, <2>2 DEF L
<1>7. ASSUME NEW s \in Sender, NEW r \in Receiver PROVE Numbers(rest, Payload(s, r)) = {}
  <2>1. \A i \in 1 .. Len(rest), m \in Nat : rest[i] # Payload(s, r)[m]
    BY <1>6, UnitFacts DEF Payload
  <2> QED
    BY <2>1 DEF Numbers
<1> QED
  BY <1>3, <1>5, <1>7

\* A sequence with part of what another has, none of it after what it has not, is its
\* beginning.
LEMMA BeginningIsPrefix ==
  ASSUME NEW p \in Seq(Message), NEW q \in Seq(Message), NEW s, NEW r,
         \A i \in 1 .. Len(p) : p[i][1] = s /\ p[i][2] = r,
         \A i \in 1 .. Len(q) : q[i][1] = s /\ q[i][2] = r,
         Rising(p, To(s, r)), Rising(q, To(s, r)),
         Numbers(p, To(s, r)) \subseteq Numbers(q, To(s, r)),
         \A k \in Numbers(q, To(s, r)), l \in Numbers(p, To(s, r)) :
           k < l => k \in Numbers(p, To(s, r))
  PROVE  Len(p) <= Len(q) /\ \A i \in 1 .. Len(p) : p[i] = q[i]
<1> DEFINE x == To(s, r)
<1>1. PICK m \in Nat, n \in Nat : Len(p) = m /\ Len(q) = n
  BY LenProperties
<1>2. /\ \A i \in 1 .. m : p[i][3] \in Nat /\ p[i] = x[p[i][3]]
      /\ \A i \in 1 .. n : q[i][3] \in Nat /\ q[i] = x[q[i][3]]
  <2>1. /\ \A i \in 1 .. m : p[i] \in Message
        /\ \A i \in 1 .. n : q[i] \in Message
    BY <1>1
  <2> QED
    BY <1>1, <2>1, MessageFacts DEF To
<1>3. \A k \in Nat, l \in Nat : x[k] = x[l] => k = l
  BY DEF To
<1> HIDE DEF x
<1>4. ASSUME NEW i \in 1 .. m PROVE \E j \in 1 .. n : p[i] = q[j]
  <2>1. p[i][3] \in Numbers(p, x)
    BY <1>1, <1>2 DEF Numbers
  <2>2. p[i][3] \in Numbers(q, x)
    BY <2>1 DEF x
  <2> QED
    BY <1>1, <1>2, <2>2 DEF Numbers
<1>5. ASSUME NEW i \in 1 .. n, NEW j \in 1 .. m, q[i][3] < p[j][3]
      PROVE  \E l \in 1 .. m : p[l] = q[i]
  <2>1. p[j][3] \in Numbers(p, x) /\ q[i][3] \in Numbers(q, x)
    BY <1>1, <1>2 DEF Numbers
  <2>2. q[i][3] \in Numbers(p, x)
    BY <1>5, <2>1 DEF x
  <2> QED
    BY <1>1, <1>2, <2>2 DEF Numbers
<1>6. /\ \A i, j \in 1 .. m : i < j => p[i][3] < p[j][3]
      /\ \A i, j \in 1 .. n : i < j => q[i][3] < q[j][3]
  <2>1. Rising(p, x) /\ Rising(q, x)
    BY DEF x
  <2>2. ASSUME NEW i \in 1 .. m, NEW j \in 1 .. m, i < j PROVE p[i][3] < p[j][3]
    <3>1. PICK k \in Nat, l \in Nat : k = p[i][3] /\ l = p[j][3] /\ p[i] = x[k] /\ p[j] = x[l]
      BY <1>2
    <3> QED
      BY <1>1, <2>1, <2>2, <3>1 DEF Rising
  <2>3. ASSUME NEW i \in 1 .. n, NEW j \in 1 .. n, i < j PROVE q[i][3] < q[j][3]
    <3>1. PICK k \in Nat, l \in Nat : k = q[i][3] /\ l = q[j][3] /\ q[i] = x[k] /\ q[j] = x[l]
      BY <1>2
    <3> QED
      BY <1>1, <2>1, <2>3, <3>1 DEF Rising
  <2> QED
    BY <2>2, <2>3
<1> DEFINE Odd == {i \in 1 .. m : ~(i <= n /\ p[i] = q[i])}
<1>7. Odd = {}
  <2> SUFFICES ASSUME Odd # {} PROVE FALSE
    OBVIOUS
  <2>1. Odd \in SUBSET Nat
    OBVIOUS
  <2>2. First(Odd) \in Odd /\ \A j \in Odd : First(Odd) <= j
    <3> HIDE DEF Odd
    <3> QED
      BY <2>1, FirstIsIn
  <2>3. PICK i \in 1 .. m : ~(i <= n /\ p[i] = q[i]) /\ \A j \in Odd : i <= j
    BY <2>2
  <2>4. \A j \in 1 .. m : j < i => j <= n /\ p[j] = q[j]
    BY <1>1, <2>3
  <2>5. PICK j \in 1 .. n : p[i] = q[j]
    BY <1>4
  <2>6. ~(j < i)
    <3> SUFFICES ASSUME j < i PROVE FALSE
      OBVIOUS
    <3>1. j \in 1 .. m /\ p[j] = q[j]
      BY <1>1, <2>4
    <3>2. p[j][3] < p[i][3] /\ p[j] = p[i] /\ p[i][3] \in Nat
      BY <1>2, <1>6, <2>5, <3>1
    <3> QED
      BY <3>2
  <2>7. i < j /\ i \in 1 .. n
    BY <1>1, <2>3, <2>5, <2>6
  <2>8. q[i][3] < p[i][3]
    BY <1>6, <2>5, <2>7
  <2>9. PICK l \in 1 .. m : p[l] = q[i]
    BY <1>5, <2>7, <2>8
  <2>10. p[l][3] < p[i][3] /\ p[l][3] \in Nat /\ p[i][3] \in Nat
    BY <1>2, <2>8, <2>9
  <2>11. l < i
    <3>1. ~(i < l) /\ i # l
      <4>1. i < l => p[i][3] < p[l][3]
        BY <1>6
      <4> QED
        BY <2>10, <4>1
    <3> QED
      BY <1>1, <3>1
  <2>12. p[l] = q[l] /\ l \in 1 .. n
    BY <1>1, <2>4, <2>11
  <2>13. q[l][3] < q[i][3] /\ q[l] = q[i] /\ q[i][3] \in Nat
    BY <1>2, <1>6, <2>7, <2>9, <2>11, <2>12
  <2> QED
    BY <2>13
<1>8. \A i \in 1 .. m : i <= n /\ p[i] = q[i]
  BY <1>7
<1>9. m <= n
  <2>1. m = 0 \/ m \in 1 .. m
    BY <1>1
  <2> QED
    BY <1>1, <1>8, <2>1
<1> QED
  BY <1>1, <1>8, <1>9

-----------------------------------------------------------------------------
(* Types *)

\* A stretch of the stream, cut in two.
LEMMA Cut ==
  ASSUME NEW T, NEW q \in Seq(T), NEW n \in 0 .. Len(q)
  PROVE  /\ SubSeq(q, 1, n) \in Seq(T) /\ SubSeq(q, n + 1, Len(q)) \in Seq(T)
         /\ q = SubSeq(q, 1, n) \o SubSeq(q, n + 1, Len(q))
<1> DEFINE L == Len(q)
           a == SubSeq(q, 1, n)
           b == SubSeq(q, n + 1, L)
<1>1. L \in Nat /\ n \in Nat /\ n <= L /\ \A i \in 1 .. L : q[i] \in T
  OBVIOUS
<1> HIDE DEF L
<1>2. a \in Seq(T) /\ Len(a) = n /\ \A i \in 1 .. n : a[i] = q[i]
  <2>1. \A i \in 1 .. n : q[i] \in T
    BY <1>1
  <2>2. /\ a \in Seq(T) /\ Len(a) = IF 1 <= n THEN n - 1 + 1 ELSE 0
        /\ \A i \in 1 .. n - 1 + 1 : a[i] = q[1 + i - 1]
    BY <1>1, <2>1, SubSeqProperties
  <2> HIDE DEF a
  <2> QED
    BY <1>1, <2>2
<1>3. b \in Seq(T) /\ Len(b) = L - n /\ \A i \in 1 .. L - n : b[i] = q[n + i]
  <2>1. \A i \in n + 1 .. L : q[i] \in T
    BY <1>1
  <2>2. /\ b \in Seq(T) /\ Len(b) = IF n + 1 <= L THEN L - (n + 1) + 1 ELSE 0
        /\ \A i \in 1 .. L - (n + 1) + 1 : b[i] = q[n + 1 + i - 1]
    BY <1>1, <2>1, SubSeqProperties
  <2> HIDE DEF b
  <2> QED
    BY <1>1, <2>2
<1> HIDE DEF a, b
<1>4. /\ a \o b \in Seq(T) /\ Len(a \o b) = L
      /\ \A i \in 1 .. L : (a \o b)[i] = IF i <= n THEN a[i] ELSE b[i - n]
  <2>1. /\ a \o b \in Seq(T) /\ Len(a \o b) = Len(a) + Len(b)
        /\ \A i \in 1 .. Len(a) + Len(b) :
             (a \o b)[i] = IF i <= Len(a) THEN a[i] ELSE b[i - Len(a)]
    BY <1>2, <1>3, ConcatProperties
  <2> QED
    BY <1>1, <1>2, <1>3, <2>1
<1>5. \A i \in 1 .. L : (a \o b)[i] = q[i]
  <2> TAKE i \in 1 .. L
  <2>1. CASE i <= n
    BY <1>1, <1>2, <1>4, <2>1
  <2>2. CASE ~(i <= n)
    <3>1. i - n \in 1 .. L - n /\ n + (i - n) = i
      BY <1>1, <2>2
    <3> QED
      BY <1>3, <1>4, <2>2, <3>1
  <2> QED
    BY <2>1, <2>2
<1>6. a \o b = q
  BY <1>4, <1>5, SeqEqual DEF L
<1> QED
  BY <1>2, <1>3, <1>6 DEF a, b, L

\* The first of what is left to visit is one of them.
LEMMA FirstVisited ==
  /\ TypeOK /\ StreamInv /\ send_pc \in {"drain", "check", "check empty"} =>
       First(todo) \in todo /\ First(todo) \in Sender
  /\ TypeOK /\ hand # {} => First(hand) \in hand /\ First(hand) \in Receiver
<1>1. TypeOK => todo \in SUBSET Nat /\ todo \subseteq Sender /\ hand \in SUBSET Nat
                /\ hand \subseteq Receiver
  BY WorkersAssumption DEF TypeOK
<1> QED
  BY <1>1, FirstIsIn DEF StreamInv, Rounds

Bytes == buffer \o wire \o buffered
Dead == send_pc \in {"panicked", "crashed"}

LEMMA InitTypeOK == Init => TypeOK
<1> SUFFICES ASSUME Init PROVE TypeOK
  OBVIOUS
<1>1. <<>> \in Seq(Message) /\ <<>> \in Seq(UnitSet)
  BY EmptySeq
<1> QED
  BY <1>1 DEF Init, TypeOK

LEMMA ProducersKeepTypes ==
  ASSUME TypeOK, NEW s \in Sender,
         (\E r \in Receiver : Push(s, r)) \/ Ping(s) \/ DropHandle(s) \/ Panic(s) \/ Unwound(s)
  PROVE  TypeOK'
<1>1. ASSUME NEW r \in Receiver, Push(s, r) PROVE TypeOK'
  <2> DEFINE m == <<s, r, Len(sent[s]) + 1>>
  <2>1. /\ sent[s] \in Seq(Message) /\ queue[s] \in Seq(Message)
        /\ sent \in [Sender -> Seq(Message)] /\ queue \in [Sender -> Seq(Message)]
        /\ handle \in [Sender -> {"open", "ping", "panic", "drop", "gone"}]
    BY DEF TypeOK
  <2>2. m \in Message
    BY <2>1 DEF Message
  <2>3. /\ sent' = [sent EXCEPT ![s] = Append(sent[s], m)]
        /\ queue' = [queue EXCEPT ![s] = Append(queue[s], m)]
        /\ handle' = [handle EXCEPT ![s] = IF ShouldPing(queue[s]) THEN "ping" ELSE "open"]
        /\ UNCHANGED <<poisoned, send_thread, send_token, stream, recv_thread, receivers>>
    BY <1>1 DEF Push
  <2> HIDE DEF m
  <2>4. Append(sent[s], m) \in Seq(Message) /\ Append(queue[s], m) \in Seq(Message)
    BY <2>1, <2>2
  <2>5. /\ sent' \in [Sender -> Seq(Message)] /\ queue' \in [Sender -> Seq(Message)]
        /\ handle' \in [Sender -> {"open", "ping", "panic", "drop", "gone"}]
    BY <2>1, <2>3, <2>4
  <2> QED
    BY <2>3, <2>5 DEF TypeOK, send_thread, stream, recv_thread, receivers
<1>2. CASE Ping(s) \/ DropHandle(s) \/ Panic(s) \/ Unwound(s)
  <2>1. /\ UNCHANGED <<sent, queue, send_thread, stream, recv_thread, receivers>>
        /\ send_token' \in {send_token, TRUE}
        /\ poisoned' = poisoned \/ poisoned' = [poisoned EXCEPT ![s] = TRUE]
        /\ \E h \in {"open", "gone", "drop", "panic"} : handle' = [handle EXCEPT ![s] = h]
    BY <1>2 DEF Ping, DropHandle, Panic, Unwound
  <2>2. /\ handle' \in [Sender -> {"open", "ping", "panic", "drop", "gone"}]
        /\ poisoned' \in [Sender -> BOOLEAN] /\ send_token' \in BOOLEAN
    <3>1. /\ handle \in [Sender -> {"open", "ping", "panic", "drop", "gone"}]
          /\ poisoned \in [Sender -> BOOLEAN] /\ send_token \in BOOLEAN
      BY DEF TypeOK
    <3> QED
      BY <2>1, <3>1
  <2> QED
    BY <2>1, <2>2 DEF TypeOK, send_thread, stream, recv_thread, receivers
<1> QED
  BY <1>1, <1>2

LEMMA SenderKeepsTypes ==
  TypeOK /\ StreamInv /\ (SendStep \/ LastClone \/ Crash) => TypeOK'
<1> SUFFICES ASSUME TypeOK, StreamInv, SendStep \/ LastClone \/ Crash PROVE TypeOK'
  OBVIOUS
<1>0. /\ <<>> \in Seq(Message) /\ <<>> \in Seq(UnitSet)
      /\ queue \in [Sender -> Seq(Message)] /\ stash \in Seq(Message)
      /\ buffered \in Seq(UnitSet) /\ wire \in Seq(UnitSet) /\ buffer \in Seq(UnitSet)
      /\ sources \subseteq Sender /\ todo \subseteq sources
      /\ poisoned \in [Sender -> BOOLEAN]
  BY EmptySeq DEF TypeOK
<1>1. CASE Drain
  <2> DEFINE s == First(todo)
  <2>1. s \in todo /\ s \in Sender
    BY <1>1, FirstVisited DEF Drain
  <2>2. /\ stash' = stash \o queue[s] /\ queue' = [queue EXCEPT ![s] = <<>>] /\ todo' = todo \ {s}
        /\ send_pc' \in {"drain", "write", "flush"}
        /\ UNCHANGED <<sent, handle, poisoned, send_token, sources, buffered, stream,
                       recv_thread, receivers>>
    BY <1>1 DEF Drain
  <2> HIDE DEF s
  <2>3. stash' \in Seq(Message) /\ queue' \in [Sender -> Seq(Message)]
    BY <1>0, <2>1, <2>2, ConcatProperties
  <2> QED
    BY <2>2, <2>3 DEF TypeOK, stream, recv_thread, receivers
<1>2. CASE Write
  <2> DEFINE all == buffered \o Units(stash)
  <2>1. PICK n \in {0, Len(all) - 1} :
          wire' = wire \o SubSeq(all, 1, n) /\ buffered' = SubSeq(all, n + 1, Len(all))
    BY <1>2 DEF Write
  <2>2. all \in Seq(UnitSet) /\ Len(all) \in Nat
    <3>1. Units(stash) \in Seq(UnitSet)
      BY <1>0, UnitsNumbers, WorkersAssumption
    <3>2. all \in Seq(UnitSet)
      BY <1>0, <3>1, ConcatProperties
    <3> HIDE DEF all
    <3> QED
      BY <3>2
  <2>3. Len(all) >= 1
    <3>1. stash # <<>> /\ Len(stash) \in Nat
      BY <1>0, <1>2 DEF StreamInv, Rounds, Write
    <3>2. stash \in Seq(Msg) /\ Len(stash) # 0
      <4>1. Message \subseteq Msg
        BY MessageFacts
      <4> QED
        BY <1>0, <3>1, <4>1, SeqMonotonic
    <3>3. Len(Units(stash)) = 2 * Len(stash) /\ Units(stash) \in Seq(UnitSet)
      BY <1>0, <3>2, UnitsPlain, UnitsNumbers, WorkersAssumption
    <3>4. Len(buffered) \in Nat
      BY <1>0, LenProperties
    <3>5. Len(all) = Len(buffered) + Len(Units(stash))
      BY <1>0, <3>3, ConcatProperties
    <3> QED
      BY <3>1, <3>2, <3>3, <3>4, <3>5
  <2> HIDE DEF all
  <2>4. n \in 0 .. Len(all)
    BY <2>2, <2>3
  <2>5. SubSeq(all, 1, n) \in Seq(UnitSet) /\ SubSeq(all, n + 1, Len(all)) \in Seq(UnitSet)
    BY <2>2, <2>4, Cut
  <2>6. wire' \in Seq(UnitSet) /\ buffered' \in Seq(UnitSet)
    BY <1>0, <2>1, <2>5, ConcatProperties
  <2>7. /\ stash' = <<>> /\ todo' = sources /\ send_pc' = "drain"
        /\ UNCHANGED <<producers, send_token, sources, closed, recv_thread, receivers>>
    BY <1>2 DEF Write
  <2> QED
    BY <1>0, <2>6, <2>7 DEF TypeOK, producers, recv_thread, receivers
<1>3. CASE Flush \/ Finish
  <2>1. wire \o buffered \in Seq(UnitSet)
    BY <1>0, ConcatProperties
  <2>2. wire \o buffered \o <<<<Final, "header">>>> \in Seq(UnitSet)
    <3>1. <<Final, "header">> \in UnitSet
      BY DEF UnitSet
    <3>2. <<<<Final, "header">>>> \in Seq(UnitSet)
      BY <3>1
    <3> QED
      BY <2>1, <3>2, ConcatProperties
  <2>3. wire' \in Seq(UnitSet) /\ buffered' \in Seq(UnitSet)
    BY <1>0, <1>3, <2>1, <2>2 DEF Flush, Finish
  <2>4. /\ todo' \in {todo, sources} /\ closed' \in {closed, TRUE}
        /\ send_pc' \in {"check", "shutdown", "done"}
        /\ UNCHANGED <<producers, send_token, sources, stash, recv_thread, receivers>>
    BY <1>3 DEF Flush, Finish
  <2> QED
    BY <2>3, <2>4 DEF TypeOK, producers, recv_thread, receivers
<1>4. ASSUME NEW s \in Sender, NEW kept \in BOOLEAN, Examined(s, kept) PROVE TypeOK'
  <2>1. /\ sources' = IF kept THEN sources ELSE sources \ {s}
        /\ todo' \in {sources', todo \ {s}}
        /\ send_pc' \in {"check", "finish", "park"}
        /\ queue' = queue \/ queue' = [queue EXCEPT ![s] = <<>>]
        /\ UNCHANGED <<sent, handle, poisoned, send_token, stash, buffered, stream,
                       recv_thread, receivers>>
    BY <1>4 DEF Examined
  <2>2. queue' \in [Sender -> Seq(Message)]
    BY <1>0, <2>1
  <2> QED
    BY <2>1, <2>2 DEF TypeOK, stream, recv_thread, receivers
<1>5. CASE CheckLast
  <2>1. First(todo) \in Sender
    BY <1>5, FirstVisited DEF CheckLast
  <2>2. CASE Examined(First(todo), TRUE)
    BY <1>4, <2>1, <2>2
  <2>3. CASE /\ send_pc' = "check empty"
             /\ UNCHANGED <<producers, send_token, sources, todo, stash, buffered, stream,
                            recv_thread, receivers>>
    BY <2>3 DEF TypeOK, producers, stream, recv_thread, receivers
  <2> QED
    BY <1>5, <2>2, <2>3 DEF CheckLast
<1>6. CASE CheckEmpty
  <2>1. First(todo) \in Sender
    BY <1>6, FirstVisited DEF CheckEmpty
  <2>2. Examined(First(todo), queue[First(todo)] # <<>>)
    BY <1>6 DEF CheckEmpty
  <2> QED
    BY <1>4, <2>1, <2>2
<1>7. CASE FindPoisoned
  <2>1. /\ send_pc' = "panicked"
        /\ poisoned' = [s \in Sender |-> s \in sources \/ poisoned[s]]
        /\ wire' = wire \o buffered
        /\ stash' = <<>> /\ buffered' = <<>> /\ sources' = {} /\ todo' = {}
        /\ UNCHANGED <<sent, queue, handle, send_token, closed, recv_thread, receivers>>
    BY <1>7 DEF FindPoisoned, SendPanic
  <2>2. wire' \in Seq(UnitSet)
    BY <1>0, <2>1, ConcatProperties
  <2>3. poisoned' \in [Sender -> BOOLEAN]
    <3>1. \A s \in Sender : (s \in sources \/ poisoned[s]) \in BOOLEAN
      BY <1>0
    <3> QED
      BY <2>1, <3>1
  <2> QED
    BY <1>0, <2>1, <2>2, <2>3 DEF TypeOK, recv_thread, receivers
<1>8. CASE Crash
  <2>1. PICK n \in 0 .. Len(wire) : wire' = SubSeq(wire, 1, n)
    BY <1>8 DEF Crash
  <2>2. wire' \in Seq(UnitSet)
    BY <1>0, <2>1, Cut
  <2>3. /\ send_pc' = "crashed" /\ closed' = TRUE
        /\ handle' = [s \in Sender |-> "gone"] /\ queue' = [s \in Sender |-> <<>>]
        /\ stash' = <<>> /\ buffered' = <<>> /\ sources' = {} /\ todo' = {}
        /\ UNCHANGED <<sent, poisoned, send_token, recv_thread, receivers>>
    BY <1>8 DEF Crash
  <2> QED
    BY <1>0, <2>2, <2>3 DEF TypeOK, recv_thread, receivers
<1>9. CASE SendPark
  BY <1>9 DEF SendPark, TypeOK, producers, stream, recv_thread, receivers
<1>10. CASE LastClone
  <2>1. PICK n \in 0 .. Len(wire) : wire' = SubSeq(wire, 1, n)
    BY <1>10 DEF LastClone
  <2>2. wire' \in Seq(UnitSet)
    BY <1>0, <2>1, Cut
  <2>3. closed' = TRUE /\ UNCHANGED <<producers, send_thread, send_token, recv_thread, receivers>>
    BY <1>10 DEF LastClone
  <2> QED
    BY <1>0, <2>2, <2>3 DEF TypeOK, producers, send_thread, recv_thread, receivers
<1> QED
  BY <1>1, <1>2, <1>3, <1>5, <1>6, <1>7, <1>8, <1>9, <1>10 DEF SendStep

LEMMA ReceiversKeepTypes ==
  ASSUME TypeOK, RecvStep \/ (\E r \in Receiver : WorkerStep(r)) \/ UNCHANGED vars
  PROVE  TypeOK'
<1>0. /\ <<>> \in Seq(Message) /\ <<>> \in Seq(UnitSet)
      /\ wire \in Seq(UnitSet) /\ buffer \in Seq(UnitSet)
      /\ hand \subseteq Receiver
      /\ staged \in [Receiver -> Seq(Message)] /\ inbox \in [Receiver -> Seq(Message)]
      /\ delivered \in [Receiver -> Seq(Message)]
      /\ token \in [Receiver -> BOOLEAN] /\ inbox_poisoned \in [Receiver -> BOOLEAN]
      /\ worker \in [Receiver -> {"run", "park", "panicked"}]
  BY EmptySeq DEF TypeOK
<1>1. ASSUME NEW n, Read(n) PROVE TypeOK'
  <2> DEFINE units == buffer \o SubSeq(wire, 1, n)
             S(r) == {i \in 1 .. Len(Completed(units)) : Completed(units)[i][2] = r}
             got(r) == At(Completed(units), S(r))
  <2>1. /\ n \in 1 .. Len(wire)
        /\ wire' = SubSeq(wire, n + 1, Len(wire)) /\ buffer' = Rest(units)
        /\ staged' = [r \in Receiver |-> staged[r] \o got(r)]
        /\ recv_pc' \in {"confirm", "hand"} /\ hand' = Receiver
        /\ UNCHANGED <<producers, send_thread, send_token, closed, receivers>>
    BY <1>1 DEF Read, Stage
  <2>2. SubSeq(wire, 1, n) \in Seq(UnitSet) /\ SubSeq(wire, n + 1, Len(wire)) \in Seq(UnitSet)
    <3>1. n \in 0 .. Len(wire)
      BY <2>1
    <3> QED
      BY <1>0, <3>1, Cut
  <2>3. units \in Seq(UnitSet)
    BY <1>0, <2>2, ConcatProperties
  <2> HIDE DEF units
  <2>4. buffer' \in Seq(UnitSet) /\ wire' \in Seq(UnitSet)
    BY <2>1, <2>2, <2>3, RestNumbers
  <2>5. ASSUME NEW r \in Receiver PROVE staged[r] \o got(r) \in Seq(Message)
    <3>1. Completed(units) \in Seq(Message \cup {Final})
      BY <2>3, CompletedNumbers, WorkersAssumption
    <3>2. got(r) \in Seq(Message)
      <4> DEFINE q == Completed(units)
                 P == S(r)
      <4>1. q \in Seq(Message \cup {Final}) /\ P = {i \in 1 .. Len(q) : q[i][2] = r}
        BY <3>1
      <4>2. \E s \in Sender : TRUE
        BY WorkersAssumption
      <4> HIDE DEF q, P
      <4>3. At(q, P) \in Seq(Message)
        BY <4>1, <4>2, PickedNumbers
      <4> QED
        BY <4>3 DEF q, P
    <3> HIDE DEF got
    <3>3. staged[r] \in Seq(Message)
      BY <1>0
    <3> QED
      BY <3>2, <3>3, ConcatProperties
  <2> HIDE DEF got
  <2>6. staged' \in [Receiver -> Seq(Message)]
    BY <2>1, <2>5
  <2> QED
    BY <1>0, <2>1, <2>4, <2>6 DEF TypeOK, producers, send_thread, receivers
<1>2. CASE Confirm
  BY <1>2 DEF Confirm, TypeOK, producers, send_thread, stream, receivers
<1>3. CASE BadStream
  <2>1. /\ recv_pc' = "panicked" /\ inbox_poisoned' = [r \in Receiver |-> TRUE]
        /\ token' = [r \in Receiver |-> TRUE]
        /\ buffer' = <<>> /\ staged' = [r \in Receiver |-> <<>>] /\ hand' = {}
        /\ UNCHANGED <<producers, send_thread, send_token, wire, closed, inbox, worker, delivered>>
    BY <1>3 DEF BadStream, RecvPanic
  <2> QED
    BY <1>0, <2>1 DEF TypeOK, producers, send_thread
<1>4. CASE HandOver
  <2> DEFINE r == First(hand)
  <2>1. r \in Receiver
    BY <1>4, FirstVisited DEF HandOver
  <2>2. /\ inbox' = [inbox EXCEPT ![r] = inbox[r] \o staged[r]]
        /\ staged' = [staged EXCEPT ![r] = <<>>]
        /\ recv_pc' \in {recv_pc, "ping", "last ping"} /\ hand' \in {hand, hand \ {r}}
        /\ UNCHANGED <<producers, send_thread, send_token, stream, buffer, inbox_poisoned,
                       worker, token, delivered>>
    BY <1>4 DEF HandOver
  <2> HIDE DEF r
  <2>3. inbox' \in [Receiver -> Seq(Message)] /\ staged' \in [Receiver -> Seq(Message)]
    <3>1. inbox[r] \o staged[r] \in Seq(Message)
      BY <1>0, <2>1, ConcatProperties
    <3> QED
      BY <1>0, <2>2, <3>1
  <2> QED
    BY <2>2, <2>3 DEF TypeOK, producers, send_thread, stream
<1>5. CASE HandPing \/ HandDone
  <2>1. /\ recv_pc' \in {"hand", "last hand", "read", "done"} /\ hand' \subseteq hand
        /\ \/ token' = token
           \/ token' = [token EXCEPT ![First(hand)] = TRUE]
           \/ token' = [r \in Receiver |-> TRUE]
        /\ UNCHANGED <<producers, send_thread, send_token, stream, buffer, staged, inbox,
                       inbox_poisoned, worker, delivered>>
    BY <1>5 DEF HandPing, HandDone
  <2>2. token' \in [Receiver -> BOOLEAN]
    BY <1>0, <2>1
  <2> QED
    BY <2>1, <2>2 DEF TypeOK, producers, send_thread, stream
<1>6. ASSUME NEW r \in Receiver, WorkerStep(r) PROVE TypeOK'
  <2>1. delivered[r] \o inbox[r] \in Seq(Message)
    BY <1>0, ConcatProperties
  <2>2. /\ UNCHANGED <<producers, send_thread, send_token, stream, recv_thread, inbox_poisoned>>
        /\ delivered' = delivered \/ delivered' = [delivered EXCEPT ![r] = delivered[r] \o inbox[r]]
        /\ inbox' = inbox \/ inbox' = [inbox EXCEPT ![r] = <<>>]
        /\ \E w \in {"run", "park", "panicked"} : worker' = [worker EXCEPT ![r] = w]
        /\ token' = token \/ token' = [token EXCEPT ![r] = FALSE]
    BY <1>6 DEF WorkerStep, Receive, ReceivePoison, Unparked
  <2>3. /\ delivered' \in [Receiver -> Seq(Message)] /\ inbox' \in [Receiver -> Seq(Message)]
        /\ worker' \in [Receiver -> {"run", "park", "panicked"}] /\ token' \in [Receiver -> BOOLEAN]
    BY <1>0, <2>1, <2>2
  <2> QED
    BY <2>2, <2>3 DEF TypeOK, producers, send_thread, stream, recv_thread
<1>7. CASE UNCHANGED vars
  BY <1>7 DEF vars, TypeOK, producers, send_thread, stream, recv_thread, receivers
<1> QED
  BY <1>1, <1>2, <1>3, <1>4, <1>5, <1>6, <1>7 DEF RecvStep

LEMMA NextTypeOK == TypeOK /\ StreamInv /\ [Next]_vars => TypeOK'
BY ProducersKeepTypes, SenderKeepsTypes, ReceiversKeepTypes DEF Next

\* Prefixes, entry by entry.
LEMMA PrefixByEntries ==
  ASSUME NEW T, NEW p \in Seq(T), NEW q \in Seq(T), Len(p) <= Len(q),
         \A i \in 1 .. Len(p) : p[i] = q[i]
  PROVE  IsPrefix(p, q)
<1> DEFINE m == Len(p)
           a == SubSeq(p, 1, m)
           b == SubSeq(q, 1, m)
<1>1. m \in Nat /\ Len(q) \in Nat /\ m <= Len(q)
  BY LenProperties
<1>2. (\A i \in 1 .. m : p[i] \in T) /\ (\A i \in 1 .. m : q[i] \in T) /\ a = p
  BY <1>1, SubSeqFull, ElementOfSeq
<1> HIDE DEF m
<1>3. /\ b \in Seq(T) /\ Len(b) = m /\ \A i \in 1 .. m : b[i] = q[i]
  <2>1. /\ b \in Seq(T) /\ Len(b) = IF 1 <= m THEN m - 1 + 1 ELSE 0
        /\ \A i \in 1 .. m - 1 + 1 : b[i] = q[1 + i - 1]
    BY <1>1, <1>2, SubSeqProperties
  <2> HIDE DEF b
  <2> QED
    BY <1>1, <2>1
<1> HIDE DEF a, b
<1>4. a = b
  BY <1>2, <1>3, SeqEqual DEF m
<1> QED
  BY <1>1, <1>4 DEF IsPrefix, m, a, b

-----------------------------------------------------------------------------
(* What is delivered: the invariant *)

\* Where the messages from one worker to another are.
Delivered(s, r) == Numbers(delivered[r], To(s, r))
Handed(s, r) == Numbers(inbox[r], To(s, r))
Extracted(s, r) == Numbers(staged[r], To(s, r))
Streamed(s, r) == Numbers(Bytes, Payload(s, r))
Drained(s, r) == Numbers(stash, To(s, r))
Queued(s, r) == Numbers(queue[s], To(s, r))
Pushed(s, r) == Numbers(sent[s], To(s, r))

\* Everywhere they are in the order they were pushed.
AllRising(s, r) ==
  /\ Rising(delivered[r], To(s, r)) /\ Rising(inbox[r], To(s, r)) /\ Rising(staged[r], To(s, r))
  /\ Rising(Bytes, Payload(s, r))
  /\ Rising(stash, To(s, r)) /\ Rising(queue[s], To(s, r)) /\ Rising(sent[s], To(s, r))

\* And those further on come before those behind.
Line(d, i, e, b, h, q) ==
  /\ Below(d, i \cup e \cup b \cup h \cup q)
  /\ Below(i, e \cup b \cup h \cup q)
  /\ Below(e, b \cup h \cup q)
  /\ Below(b, h \cup q)
  /\ Below(h, q)

\* Those that may yet be delivered, whichever threads have failed ...
Kept(s, r) ==
  IF recv_pc = "panicked" THEN Delivered(s, r) \cup Handed(s, r)
  ELSE Delivered(s, r) \cup Handed(s, r) \cup Extracted(s, r) \cup Streamed(s, r)
         \cup Drained(s, r) \cup (IF Dead THEN {} ELSE Queued(s, r))

\* ... are a beginning of what was pushed, and all of it if none has.
Closed(A, P) == A \subseteq P /\ \A k \in P : \A l \in A : k < l => k \in A

PairInv(s, r) ==
  /\ Line(Delivered(s, r), Handed(s, r), Extracted(s, r), Streamed(s, r), Drained(s, r),
          Queued(s, r))
  /\ Delivered(s, r) \cup Handed(s, r) \cup Extracted(s, r) \cup Streamed(s, r)
       \cup Drained(s, r) \cup Queued(s, r) \subseteq Pushed(s, r)
  /\ Closed(Kept(s, r), Pushed(s, r))
  /\ recv_pc # "panicked" /\ ~Dead => Pushed(s, r) \subseteq Kept(s, r)

\* A worker numbers its messages and queues no one else's.
Own(s) ==
  /\ \A i \in 1 .. Len(sent[s]) : sent[s][i][1] = s /\ sent[s][i][3] = i
  /\ \A i \in 1 .. Len(queue[s]) : queue[s][i][1] = s

LineInv ==
  /\ \A s \in Sender : Own(s)
  /\ \A s \in Sender, r \in Receiver : AllRising(s, r) /\ PairInv(s, r)

\* Numbers are numbers.
LEMMA NumbersAreNat == \A q, x : Numbers(q, x) \in SUBSET Nat
BY DEF Numbers

LEMMA PlacesAreNat ==
  \A s, r : /\ Delivered(s, r) \in SUBSET Nat /\ Handed(s, r) \in SUBSET Nat
            /\ Extracted(s, r) \in SUBSET Nat /\ Streamed(s, r) \in SUBSET Nat
            /\ Drained(s, r) \in SUBSET Nat /\ Queued(s, r) \in SUBSET Nat
            /\ Pushed(s, r) \in SUBSET Nat
BY NumbersAreNat DEF Delivered, Handed, Extracted, Streamed, Drained, Queued, Pushed

\* What is left of a beginning when its end is lost is a beginning.
LEMMA StaysClosed ==
  ASSUME NEW P \in SUBSET Nat, NEW A, NEW B, A \subseteq B, Closed(B, P),
         \A k \in A : \A l \in B \ A : k < l
  PROVE  Closed(A, P)
BY DEF Closed

-----------------------------------------------------------------------------
LEMMA Joined ==
  ASSUME NEW T, NEW x, NEW a \in Seq(T), NEW b \in Seq(T), NEW A, NEW B,
         Numbers(a, x) = A, Rising(a, x), Numbers(b, x) = B, Rising(b, x), Below(A, B)
  PROVE  a \o b \in Seq(T) /\ Numbers(a \o b, x) = A \cup B /\ Rising(a \o b, x)
BY ConcatNumbers, ConcatProperties

\* The invariant is enough: the line as one sequence.
LEMMA WholeLine ==
  ASSUME TypeOK, LineInv, NEW s \in Sender, NEW r \in Receiver
  PROVE  LET line == delivered[r] \o inbox[r] \o staged[r] \o Completed(Bytes) \o stash \o queue[s]
         IN  /\ line \in Seq(Message \cup {Final})
             /\ Rising(line, To(s, r))
             /\ Numbers(line, To(s, r)) =
                  Delivered(s, r) \cup Handed(s, r) \cup Extracted(s, r) \cup Streamed(s, r)
                    \cup Drained(s, r) \cup Queued(s, r)
<1> DEFINE T == Message \cup {Final}
           x == To(s, r)
           l1 == delivered[r] \o inbox[r]
           l2 == l1 \o staged[r]
           l3 == l2 \o Completed(Bytes)
           l4 == l3 \o stash
           l5 == l4 \o queue[s]
<1>1. /\ delivered[r] \in Seq(Message) /\ inbox[r] \in Seq(Message) /\ staged[r] \in Seq(Message)
      /\ stash \in Seq(Message) /\ queue[s] \in Seq(Message)
      /\ buffer \in Seq(UnitSet) /\ wire \in Seq(UnitSet) /\ buffered \in Seq(UnitSet)
  BY DEF TypeOK
<1>2. /\ delivered[r] \in Seq(T) /\ inbox[r] \in Seq(T) /\ staged[r] \in Seq(T)
      /\ stash \in Seq(T) /\ queue[s] \in Seq(T)
  BY <1>1, SeqMonotonic
<1>3. Bytes \in Seq(UnitSet)
  BY <1>1, ConcatProperties DEF Bytes
<1>4. /\ Completed(Bytes) \in Seq(T) /\ Numbers(Completed(Bytes), x) = Streamed(s, r)
      /\ Rising(Completed(Bytes), x)
  <2>1. Rising(Bytes, Payload(s, r))
    BY DEF LineInv, AllRising
  <2> QED
    BY <1>3, <2>1, CompletedNumbers DEF Streamed
<1> DEFINE d == Delivered(s, r)
           i == Handed(s, r)
           e == Extracted(s, r)
           b == Streamed(s, r)
           h == Drained(s, r)
           q == Queued(s, r)
<1>5. /\ Numbers(delivered[r], x) = d /\ Numbers(inbox[r], x) = i /\ Numbers(staged[r], x) = e
      /\ Numbers(Completed(Bytes), x) = b /\ Numbers(stash, x) = h /\ Numbers(queue[s], x) = q
  BY <1>4 DEF Delivered, Handed, Extracted, Drained, Queued
<1>6. /\ Rising(delivered[r], x) /\ Rising(inbox[r], x) /\ Rising(staged[r], x)
      /\ Rising(stash, x) /\ Rising(queue[s], x)
  BY DEF LineInv, AllRising
<1>7. Line(Delivered(s, r), Handed(s, r), Extracted(s, r), Streamed(s, r), Drained(s, r),
           Queued(s, r))
  BY DEF LineInv, PairInv
<1> DEFINE s1 == d \cup i
           s2 == s1 \cup e
           s3 == s2 \cup b
           s4 == s3 \cup h
<1>8. Below(d, i) /\ Below(s1, e) /\ Below(s2, b) /\ Below(s3, h) /\ Below(s4, q)
  <2> HIDE DEF d, i, e, b, h, q
  <2>1. Line(d, i, e, b, h, q)
    BY <1>7 DEF d, i, e, b, h, q
  <2> QED
    BY <2>1 DEF Line, Below
<1> HIDE DEF x, T, d, i, e, b, h, q
<1>9. l1 \in Seq(T) /\ Numbers(l1, x) = s1 /\ Rising(l1, x)
  BY <1>2, <1>5, <1>6, <1>8, Joined
<1> HIDE DEF l1, s1
<1>10. l2 \in Seq(T) /\ Numbers(l2, x) = s2 /\ Rising(l2, x)
  BY <1>2, <1>5, <1>6, <1>8, <1>9, Joined
<1> HIDE DEF l2, s2
<1>11. l3 \in Seq(T) /\ Numbers(l3, x) = s3 /\ Rising(l3, x)
  BY <1>4, <1>5, <1>8, <1>10, Joined
<1> HIDE DEF l3, s3
<1>12. l4 \in Seq(T) /\ Numbers(l4, x) = s4 /\ Rising(l4, x)
  BY <1>2, <1>5, <1>6, <1>8, <1>11, Joined
<1> HIDE DEF l4, s4
<1>13. l5 \in Seq(T) /\ Numbers(l5, x) = s4 \cup q /\ Rising(l5, x)
  BY <1>2, <1>5, <1>6, <1>8, <1>12, Joined
<1> QED
  BY <1>13 DEF l1, l2, l3, l4, l5, s1, s2, s3, s4, x, T, d, i, e, b, h, q

\* Between picks what is between the two.
LEMMA BetweenFacts ==
  ASSUME NEW q \in Seq(Message \cup {Final}), NEW s \in Sender, NEW r \in Receiver,
         Rising(q, To(s, r))
  PROVE  /\ Between(s, r, q) \in Seq(Message)
         /\ Numbers(Between(s, r, q), To(s, r)) = Numbers(q, To(s, r))
         /\ Rising(Between(s, r, q), To(s, r))
         /\ \A i \in 1 .. Len(Between(s, r, q)) :
              Between(s, r, q)[i][1] = s /\ Between(s, r, q)[i][2] = r
<1> DEFINE S == {i \in 1 .. Len(q) : q[i][1] = s /\ q[i][2] = r}
           T == {m \in Message : m[1] = s /\ m[2] = r}
<1>1. Between(s, r, q) = At(q, S)
  BY DEF Between
<1>2. S = {i \in 1 .. Len(q) : q[i][1] = s /\ q[i][2] = r}
  OBVIOUS
<1>3. Len(q) \in Nat /\ S \in SUBSET (1 .. Len(q)) /\ \A i \in S : q[i] \in T
  <2>1. Len(q) \in Nat /\ \A i \in 1 .. Len(q) : q[i] \in Message \cup {Final}
    OBVIOUS
  <2>2. Final[1] # s
    BY WorkersAssumption DEF Final
  <2> QED
    BY <2>1, <2>2
<1> HIDE DEF S, T
<1>4. /\ At(q, S) \in Seq(Message)
      /\ Numbers(At(q, S), To(s, r)) = Numbers(q, To(s, r))
      /\ Rising(At(q, S), To(s, r))
  BY <1>2, PickedNumbers
<1>5. At(q, S) \in Seq(T)
  BY <1>3, AtNumbers
<1>6. \A i \in 1 .. Len(At(q, S)) : At(q, S)[i] \in T
  BY <1>5, ElementOfSeq
<1> QED
  BY <1>1, <1>4, <1>6 DEF T

LEMMA DeliveredFollows == TypeOK /\ StreamInv /\ LineInv => DeliveredIntact
<1> SUFFICES ASSUME TypeOK, StreamInv, LineInv,
                    NEW s \in Sender, NEW r \in Receiver
             PROVE  /\ ~Failed =>
                         Between(s, r, delivered[r] \o inbox[r] \o staged[r]
                                         \o Completed(buffer \o wire \o buffered) \o stash
                                         \o queue[s])
                           = Between(s, r, sent[s])
                    /\ IsPrefix(Between(s, r, delivered[r]), Between(s, r, sent[s]))
  BY DEF DeliveredIntact, NothingLost, DeliveredInOrder
<1> DEFINE T == Message \cup {Final}
           x == To(s, r)
           line == delivered[r] \o inbox[r] \o staged[r] \o Completed(Bytes) \o stash \o queue[s]
           whole == Between(s, r, line)
           got == Between(s, r, delivered[r])
           all == Between(s, r, sent[s])
<1>1. delivered[r] \in Seq(T) /\ sent[s] \in Seq(T)
  <2>1. delivered[r] \in Seq(Message) /\ sent[s] \in Seq(Message)
    BY DEF TypeOK
  <2> QED
    BY <2>1, SeqMonotonic
<1>2. Rising(delivered[r], x) /\ Rising(sent[s], x)
  BY DEF LineInv, AllRising
<1>3. line \in Seq(T) /\ Rising(line, x)
      /\ Numbers(line, x) = Delivered(s, r) \cup Handed(s, r) \cup Extracted(s, r)
                              \cup Streamed(s, r) \cup Drained(s, r) \cup Queued(s, r)
  BY WholeLine
<1>4. PairInv(s, r)
  BY DEF LineInv
<1> HIDE DEF line
<1>5. /\ whole \in Seq(Message) /\ Numbers(whole, x) = Numbers(line, x) /\ Rising(whole, x)
      /\ \A i \in 1 .. Len(whole) : whole[i][1] = s /\ whole[i][2] = r
  BY <1>3, BetweenFacts
<1>6. /\ got \in Seq(Message) /\ Numbers(got, x) = Delivered(s, r) /\ Rising(got, x)
      /\ \A i \in 1 .. Len(got) : got[i][1] = s /\ got[i][2] = r
  BY <1>1, <1>2, BetweenFacts DEF Delivered
<1>7. /\ all \in Seq(Message) /\ Numbers(all, x) = Pushed(s, r) /\ Rising(all, x)
      /\ \A i \in 1 .. Len(all) : all[i][1] = s /\ all[i][2] = r
  BY <1>1, <1>2, BetweenFacts DEF Pushed
<1> HIDE DEF whole, got, all, T
<1>8. Closed(Delivered(s, r), Pushed(s, r))
  <2>1. Closed(Kept(s, r), Pushed(s, r))
    BY <1>4 DEF PairInv
  <2>2. /\ Delivered(s, r) \subseteq Kept(s, r)
        /\ Kept(s, r) \ Delivered(s, r) \subseteq
             Handed(s, r) \cup Extracted(s, r) \cup Streamed(s, r) \cup Drained(s, r)
               \cup Queued(s, r)
    BY DEF Kept
  <2>3. \A k \in Delivered(s, r) : \A l \in Kept(s, r) \ Delivered(s, r) : k < l
    BY <1>4, <2>2 DEF PairInv, Line, Below
  <2> QED
    BY <2>1, <2>2, <2>3, PlacesAreNat, StaysClosed
<1>9. IsPrefix(got, all)
  <2>1. /\ Numbers(got, x) \subseteq Numbers(all, x)
        /\ \A k \in Numbers(all, x), l \in Numbers(got, x) : k < l => k \in Numbers(got, x)
    BY <1>6, <1>7, <1>8 DEF Closed
  <2>2. Len(got) <= Len(all) /\ \A i \in 1 .. Len(got) : got[i] = all[i]
    BY <1>6, <1>7, <2>1, BeginningIsPrefix
  <2> QED
    BY <1>6, <1>7, <2>2, PrefixByEntries
<1>10. ASSUME ~Failed PROVE whole = all
  <2>1. recv_pc # "panicked" /\ ~Dead
    BY <1>10, PanicsFollows DEF PanicsOnlyAfterFailure, Failed, Dead
  <2>2. Numbers(whole, x) = Numbers(all, x)
    BY <1>3, <1>4, <1>5, <1>7, <2>1 DEF PairInv, Kept
  <2>3. Len(whole) <= Len(all) /\ \A i \in 1 .. Len(whole) : whole[i] = all[i]
    BY <1>5, <1>7, <2>2, BeginningIsPrefix
  <2>4. Len(all) <= Len(whole)
    BY <1>5, <1>7, <2>2, BeginningIsPrefix
  <2>5. Len(all) \in Nat /\ Len(whole) \in Nat
    BY <1>5, <1>7, LenProperties
  <2>6. Len(whole) = Len(all)
    BY <2>3, <2>4, <2>5
  <2> QED
    BY <1>5, <1>7, <2>3, <2>6, SeqEqual
<1> QED
  BY <1>9, <1>10 DEF whole, got, all, line, Bytes

-----------------------------------------------------------------------------
(* What is delivered: producers *)

LEMMA InitLineInv == Init => LineInv
<1> SUFFICES ASSUME Init PROVE LineInv
  OBVIOUS
<1>1. <<>> \in Seq(UnitSet) /\ Bytes = <<>>
  <2>1. <<>> \in Seq(UnitSet)
    BY EmptySeq
  <2> QED
    BY <2>1, ConcatEmptySeq DEF Init, Bytes
<1>2. ASSUME NEW s \in Sender PROVE Own(s)
  BY DEF Init, Own
<1>3. ASSUME NEW s \in Sender, NEW r \in Receiver PROVE AllRising(s, r) /\ PairInv(s, r)
  <2>1. /\ Delivered(s, r) = {} /\ Handed(s, r) = {} /\ Extracted(s, r) = {}
        /\ Streamed(s, r) = {} /\ Drained(s, r) = {} /\ Queued(s, r) = {} /\ Pushed(s, r) = {}
    BY <1>1, NothingIn
       DEF Init, Delivered, Handed, Extracted, Streamed, Drained, Queued, Pushed
  <2>2. AllRising(s, r)
    BY <1>1, NothingIn DEF Init, AllRising
  <2>3. PairInv(s, r)
    BY <2>1 DEF PairInv, Line, Below, Kept, Closed
  <2> QED
    BY <2>2, <2>3
<1> QED
  BY <1>2, <1>3 DEF LineInv

\* What moves no message and fails no thread.
LEMMA NothingMoves ==
  ASSUME LineInv, UNCHANGED <<sent, queue, stash, buffered, wire, buffer, staged, inbox, delivered>>,
         Dead' <=> Dead, (recv_pc = "panicked")' <=> recv_pc = "panicked"
  PROVE  LineInv'
<1>1. UNCHANGED Bytes
  BY DEF Bytes
<1>2. ASSUME NEW s \in Sender PROVE Own(s)'
  BY DEF LineInv, Own
<1>3. ASSUME NEW s \in Sender, NEW r \in Receiver PROVE AllRising(s, r)' /\ PairInv(s, r)'
  <2>1. /\ Delivered(s, r)' = Delivered(s, r) /\ Handed(s, r)' = Handed(s, r)
        /\ Extracted(s, r)' = Extracted(s, r) /\ Streamed(s, r)' = Streamed(s, r)
        /\ Drained(s, r)' = Drained(s, r) /\ Queued(s, r)' = Queued(s, r)
        /\ Pushed(s, r)' = Pushed(s, r)
    BY <1>1 DEF Delivered, Handed, Extracted, Streamed, Drained, Queued, Pushed
  <2>2. AllRising(s, r)'
    BY <1>1 DEF LineInv, AllRising
  <2>3. Kept(s, r)' = Kept(s, r)
    BY <2>1 DEF Kept
  <2>4. PairInv(s, r)'
    BY <2>1, <2>3 DEF LineInv, PairInv
  <2> QED
    BY <2>2, <2>4
<1> QED
  BY <1>2, <1>3 DEF LineInv

\* One message more, at the end of a sequence.
LEMMA AppendNumbers ==
  ASSUME NEW q \in Seq(Message), NEW m \in Message, NEW s \in Sender, NEW r \in Receiver
  PROVE  /\ Append(q, m) \in Seq(Message)
         /\ Numbers(Append(q, m), To(s, r)) =
              Numbers(q, To(s, r)) \cup (IF m[1] = s /\ m[2] = r THEN {m[3]} ELSE {})
         /\ Rising(q, To(s, r)) /\ (m[1] = s /\ m[2] = r => \A k \in Numbers(q, To(s, r)) : k < m[3])
              => Rising(Append(q, m), To(s, r))
<1> DEFINE x == To(s, r)
           A == IF m[1] = s /\ m[2] = r THEN {m[3]} ELSE {}
<1>1. Append(q, m) = q \o <<m>> /\ <<m>> \in Seq(Message)
  BY AppendIsConcat
<1>2. Len(<<m>>) = 1 /\ <<m>>[1] = m
  OBVIOUS
<1>3. Numbers(<<m>>, x) = A
  <2>1. m = <<m[1], m[2], m[3]>> /\ m[3] \in Nat
    BY MessageFacts
  <2>2. \A k \in Nat : m = x[k] <=> m[1] = s /\ m[2] = r /\ m[3] = k
    BY <2>1 DEF To
  <2> HIDE DEF x
  <2>3. \A k \in Nat : k \in Numbers(<<m>>, x) <=> m = x[k]
    BY <1>2 DEF Numbers
  <2>4. \A k \in Nat : k \in Numbers(<<m>>, x) <=> k \in A
    BY <2>2, <2>3
  <2>5. Numbers(<<m>>, x) \subseteq Nat /\ A \subseteq Nat
    BY <2>1, NumbersAreNat
  <2> QED
    BY <2>4, <2>5
<1>4. Rising(<<m>>, x)
  <2> HIDE DEF x
  <2> QED
    BY <1>2 DEF Rising
<1> HIDE DEF x, A
<1> DEFINE one == <<m>>
           qm == Append(q, m)
<1>1a. qm = q \o one /\ one \in Seq(Message)
  BY <1>1
<1>3a. Numbers(one, x) = A /\ Rising(one, x)
  BY <1>3, <1>4
<1> HIDE DEF one, qm
<1>5. Numbers(qm, x) = Numbers(q, x) \cup A
  BY <1>1a, <1>3a, ConcatNumbers
<1>6. ASSUME Rising(q, x), m[1] = s /\ m[2] = r => \A k \in Numbers(q, x) : k < m[3]
      PROVE  Rising(qm, x)
  <2>1. Below(Numbers(q, x), Numbers(one, x))
    BY <1>3a, <1>6 DEF Below, A
  <2> QED
    BY <1>1a, <1>3a, <1>6, <2>1, ConcatNumbers
<1>7. qm \in Seq(Message)
  BY DEF qm
<1> QED
  BY <1>5, <1>6, <1>7 DEF x, A, qm

\* What is pushed comes after all that was.
LEMMA PushKeepsLine ==
  ASSUME TypeOK, LineInv, NEW s \in Sender, NEW r \in Receiver, Push(s, r)
  PROVE  LineInv'
<1> DEFINE n == Len(sent[s]) + 1
           m == <<s, r, n>>
<1>1. /\ sent \in [Sender -> Seq(Message)] /\ queue \in [Sender -> Seq(Message)]
      /\ Len(sent[s]) \in Nat /\ n \in Nat \ {0}
      /\ m \in Message /\ m[1] = s /\ m[2] = r /\ m[3] = n
  <2>1. sent \in [Sender -> Seq(Message)] /\ queue \in [Sender -> Seq(Message)]
    BY DEF TypeOK
  <2>2. Len(sent[s]) \in Nat
    BY <2>1
  <2> QED
    BY <2>1, <2>2 DEF Message
<1>2. /\ sent' = [sent EXCEPT ![s] = Append(sent[s], m)]
      /\ queue' = [queue EXCEPT ![s] = Append(queue[s], m)]
      /\ UNCHANGED <<stash, buffered, wire, buffer, staged, inbox, delivered, send_pc, recv_pc>>
  BY DEF Push, send_thread, stream, recv_thread, receivers
<1>3. Len(sent[s]) = n - 1
  BY <1>1
<1> HIDE DEF m, n
<1>4. UNCHANGED Bytes /\ (Dead' <=> Dead)
  BY <1>2 DEF Bytes, Dead
<1>5. ASSUME NEW t \in Sender PROVE Own(t)'
  <2>1. Own(t)
    BY DEF LineInv
  <2>2. CASE t # s
    BY <1>1, <1>2, <2>1, <2>2 DEF Own
  <2>3. CASE t = s
    <3>1. sent'[s] = Append(sent[s], m) /\ queue'[s] = Append(queue[s], m)
      BY <1>1, <1>2
    <3>2. sent[s] \in Seq(Message) /\ queue[s] \in Seq(Message)
      BY <1>1
    <3>3. ASSUME NEW i \in 1 .. Len(sent'[s]) PROVE sent'[s][i][1] = s /\ sent'[s][i][3] = i
      <4>1. i \in 1 .. n /\ n \in Nat
        BY <1>1, <1>3, <3>1, <3>2, AppendProperties
      <4>2. CASE i = n
        <5>1. sent'[s][n] = m
          BY <1>1, <1>3, <3>1, <3>2, AppendProperties
        <5> QED
          BY <1>1, <4>2, <5>1
      <4>3. CASE i # n
        <5>1. i \in 1 .. Len(sent[s])
          BY <1>3, <4>1, <4>3
        <5>2. sent'[s][i] = sent[s][i]
          BY <1>1, <3>1, <3>2, <5>1, AppendProperties
        <5> QED
          BY <2>1, <2>3, <5>1, <5>2 DEF Own
      <4> QED
        BY <4>2, <4>3
    <3>4. ASSUME NEW i \in 1 .. Len(queue'[s]) PROVE queue'[s][i][1] = s
      <4>1. PICK L \in Nat : L = Len(queue[s])
        BY <3>2
      <4>2. i \in 1 .. L + 1
        BY <1>1, <3>1, <3>2, <4>1, AppendProperties
      <4>3. CASE i = L + 1
        <5>1. queue'[s][L + 1] = m
          BY <1>1, <3>1, <3>2, <4>1, AppendProperties
        <5> QED
          BY <1>1, <4>3, <5>1
      <4>4. CASE i # L + 1
        <5>1. i \in 1 .. L
          BY <4>1, <4>2, <4>4
        <5>2. queue'[s][i] = queue[s][i]
          BY <1>1, <3>1, <3>2, <4>1, <5>1, AppendProperties
        <5> QED
          BY <2>1, <2>3, <4>1, <5>1, <5>2 DEF Own
      <4> QED
        BY <4>3, <4>4
    <3> QED
      BY <2>3, <3>3, <3>4 DEF Own
  <2> QED
    BY <2>2, <2>3
<1>6. ASSUME NEW t \in Sender, NEW u \in Receiver
      PROVE  /\ Delivered(t, u)' = Delivered(t, u) /\ Handed(t, u)' = Handed(t, u)
             /\ Extracted(t, u)' = Extracted(t, u) /\ Streamed(t, u)' = Streamed(t, u)
             /\ Drained(t, u)' = Drained(t, u)
             /\ PairInv(t, u) /\ AllRising(t, u)
  BY <1>2, <1>4 DEF Delivered, Handed, Extracted, Streamed, Drained, LineInv
<1>7. ASSUME NEW t \in Sender, NEW u \in Receiver, ~(t = s /\ u = r)
      PROVE  AllRising(t, u)' /\ PairInv(t, u)'
  <2>1. /\ Numbers(sent'[t], To(t, u)) = Numbers(sent[t], To(t, u))
        /\ Numbers(queue'[t], To(t, u)) = Numbers(queue[t], To(t, u))
        /\ Rising(sent'[t], To(t, u)) /\ Rising(queue'[t], To(t, u))
    <3>1. Rising(sent[t], To(t, u)) /\ Rising(queue[t], To(t, u))
      BY <1>6 DEF AllRising
    <3>2. CASE t # s
      <4>1. sent'[t] = sent[t] /\ queue'[t] = queue[t]
        BY <1>1, <1>2, <3>2
      <4> QED
        BY <3>1, <4>1
    <3>3. CASE t = s
      <4>1. /\ sent'[t] = Append(sent[t], m) /\ queue'[t] = Append(queue[t], m)
            /\ sent[t] \in Seq(Message) /\ queue[t] \in Seq(Message)
        BY <1>1, <1>2, <3>3
      <4>2. ~(m[1] = t /\ m[2] = u)
        BY <1>1, <1>7, <3>3
      <4>3. \A q \in Seq(Message) :
              /\ Numbers(Append(q, m), To(t, u)) = Numbers(q, To(t, u))
              /\ Rising(q, To(t, u)) => Rising(Append(q, m), To(t, u))
        <5> TAKE q \in Seq(Message)
        <5>1. m \in Message
          BY <1>1
        <5>2. /\ Numbers(Append(q, m), To(t, u)) =
                   Numbers(q, To(t, u)) \cup (IF m[1] = t /\ m[2] = u THEN {m[3]} ELSE {})
              /\ Rising(q, To(t, u))
                   /\ (m[1] = t /\ m[2] = u => \A k \in Numbers(q, To(t, u)) : k < m[3])
                   => Rising(Append(q, m), To(t, u))
          BY <5>1, AppendNumbers
        <5> QED
          BY <4>2, <5>2
      <4> QED
        BY <3>1, <4>1, <4>3
    <3> QED
      BY <3>2, <3>3
  <2>2. Queued(t, u)' = Queued(t, u) /\ Pushed(t, u)' = Pushed(t, u)
    BY <2>1 DEF Queued, Pushed
  <2>3. AllRising(t, u)'
    BY <1>2, <1>4, <1>6, <2>1 DEF AllRising
  <2>4. Kept(t, u)' = Kept(t, u)
    BY <1>2, <1>4, <1>6, <2>2 DEF Kept
  <2> QED
    BY <1>2, <1>4, <1>6, <2>2, <2>3, <2>4 DEF PairInv
<1>8. AllRising(s, r)' /\ PairInv(s, r)'
  <2>1. \A k \in Pushed(s, r) : k \in Nat /\ k < n
    <3> SUFFICES ASSUME NEW k \in Nat, NEW i \in 1 .. Len(sent[s]), sent[s][i] = To(s, r)[k]
                 PROVE  k < n
      BY PlacesAreNat DEF Pushed, Numbers
    <3>1. sent[s][i][3] = i /\ To(s, r)[k][3] = k
      BY DEF LineInv, Own, To
    <3> QED
      BY <1>1, <1>3, <3>1
  <2>2. Queued(s, r) \subseteq Pushed(s, r)
    BY <1>6 DEF PairInv
  <2>3. /\ sent'[s] = Append(sent[s], m) /\ queue'[s] = Append(queue[s], m)
        /\ sent[s] \in Seq(Message) /\ queue[s] \in Seq(Message)
    BY <1>1, <1>2
  <2>4. Rising(sent[s], To(s, r)) /\ Rising(queue[s], To(s, r))
    BY <1>6 DEF AllRising
  <2>5. /\ Numbers(sent'[s], To(s, r)) = Numbers(sent[s], To(s, r)) \cup {n}
        /\ Rising(sent'[s], To(s, r))
    BY <1>1, <2>1, <2>3, <2>4, AppendNumbers DEF Pushed
  <2>6. /\ Numbers(queue'[s], To(s, r)) = Numbers(queue[s], To(s, r)) \cup {n}
        /\ Rising(queue'[s], To(s, r))
    BY <1>1, <2>1, <2>2, <2>3, <2>4, AppendNumbers DEF Queued
  <2>7. Queued(s, r)' = Queued(s, r) \cup {n} /\ Pushed(s, r)' = Pushed(s, r) \cup {n}
    BY <2>5, <2>6 DEF Queued, Pushed
  <2>8. AllRising(s, r)'
    BY <1>2, <1>4, <1>6, <2>5, <2>6 DEF AllRising
  <2>9. Kept(s, r)' = IF recv_pc # "panicked" /\ ~Dead THEN Kept(s, r) \cup {n} ELSE Kept(s, r)
    BY <1>2, <1>4, <1>6, <2>7 DEF Kept
  <2>10. Closed(Kept(s, r)', Pushed(s, r)')
    <3>1. Closed(Kept(s, r), Pushed(s, r))
          /\ (recv_pc # "panicked" /\ ~Dead => Pushed(s, r) \subseteq Kept(s, r))
      BY <1>6 DEF PairInv
    <3> QED
      BY <1>1, <2>1, <2>7, <2>9, <3>1 DEF Closed
  <2>11. Line(Delivered(s, r), Handed(s, r), Extracted(s, r), Streamed(s, r), Drained(s, r),
              Queued(s, r) \cup {n})
    <3>1. /\ \A k \in Delivered(s, r) \cup Handed(s, r) \cup Extracted(s, r) \cup Streamed(s, r)
                        \cup Drained(s, r) : k < n
          /\ Line(Delivered(s, r), Handed(s, r), Extracted(s, r), Streamed(s, r), Drained(s, r),
                  Queued(s, r))
      BY <1>6, <2>1 DEF PairInv
    <3> QED
      BY <3>1 DEF Line, Below
  <2>12. recv_pc' # "panicked" /\ ~Dead' => Pushed(s, r)' \subseteq Kept(s, r)'
    BY <1>2, <1>4, <1>6, <2>7, <2>9 DEF PairInv
  <2>13. PairInv(s, r)'
    BY <1>6, <2>7, <2>10, <2>11, <2>12 DEF PairInv
  <2> QED
    BY <2>8, <2>13
<1> QED
  BY <1>5, <1>7, <1>8 DEF LineInv

-----------------------------------------------------------------------------
(* What is delivered: the send thread *)

\* Whatever moves or is lost, what may yet be delivered stays a beginning.
LEMMA Flows ==
  ASSUME NEW s \in Sender, NEW r \in Receiver, PairInv(s, r), Pushed(s, r)' = Pushed(s, r),
         Line(Delivered(s, r)', Handed(s, r)', Extracted(s, r)', Streamed(s, r)',
              Drained(s, r)', Queued(s, r)'),
         Delivered(s, r)' \cup Handed(s, r)' \cup Extracted(s, r)' \cup Streamed(s, r)'
           \cup Drained(s, r)' \cup Queued(s, r)' \subseteq Pushed(s, r),
         Kept(s, r)' \subseteq Kept(s, r),
         \A k \in Kept(s, r)' : \A l \in Kept(s, r) \ Kept(s, r)' : k < l,
         recv_pc' # "panicked" /\ ~Dead' =>
           recv_pc # "panicked" /\ ~Dead /\ Kept(s, r)' = Kept(s, r)
  PROVE  PairInv(s, r)'
<1>1. Closed(Kept(s, r), Pushed(s, r)) /\ Pushed(s, r) \in SUBSET Nat
  BY PlacesAreNat DEF PairInv
<1>2. Closed(Kept(s, r)', Pushed(s, r))
  BY <1>1, StaysClosed
<1> QED
  BY <1>2 DEF PairInv

\* What is drained moves to the end of the stash.
LEMMA DrainKeepsLine == TypeOK /\ StreamInv /\ LineInv /\ Drain => LineInv'
<1> SUFFICES ASSUME TypeOK, StreamInv, LineInv, Drain PROVE LineInv'
  OBVIOUS
<1> DEFINE f == First(todo)
<1>1. f \in Sender
  BY FirstVisited DEF Drain
<1>2. /\ stash' = stash \o queue[f] /\ queue' = [queue EXCEPT ![f] = <<>>]
      /\ send_pc = "drain" /\ send_pc' \in {"drain", "flush", "write"}
      /\ UNCHANGED <<sent, buffered, wire, buffer, staged, inbox, delivered, recv_pc>>
  BY DEF Drain, stream, recv_thread, receivers
<1>3. /\ stash \in Seq(Message) /\ queue \in [Sender -> Seq(Message)]
      /\ queue[f] \in Seq(Message)
  BY <1>1 DEF TypeOK
<1> HIDE DEF f
<1>4. UNCHANGED Bytes /\ ~Dead /\ ~Dead'
  BY <1>2 DEF Bytes, Dead
<1>5. ASSUME NEW s \in Sender PROVE Own(s)'
  <2>1. queue'[s] \in {queue[s], <<>>}
    BY <1>1, <1>2, <1>3
  <2>2. Own(s)
    BY DEF LineInv
  <2> QED
    BY <1>2, <2>1, <2>2 DEF Own
<1>6. ASSUME NEW s \in Sender, NEW r \in Receiver PROVE AllRising(s, r)' /\ PairInv(s, r)'
  <2>0. PairInv(s, r) /\ AllRising(s, r)
    BY DEF LineInv
  <2>1. /\ Delivered(s, r)' = Delivered(s, r) /\ Handed(s, r)' = Handed(s, r)
        /\ Extracted(s, r)' = Extracted(s, r) /\ Streamed(s, r)' = Streamed(s, r)
        /\ Pushed(s, r)' = Pushed(s, r)
    BY <1>2, <1>4 DEF Delivered, Handed, Extracted, Streamed, Pushed
  <2>2. /\ Numbers(queue[f], To(s, r)) = IF s = f THEN Queued(s, r) ELSE {}
        /\ Rising(queue[f], To(s, r))
    <3>1. CASE s = f
      BY <2>0, <3>1 DEF Queued, AllRising
    <3>2. CASE s # f
      <4>1. \A i \in 1 .. Len(queue[f]), k \in Nat : queue[f][i] # To(s, r)[k]
        BY <1>1, <3>2 DEF LineInv, Own, To
      <4> QED
        BY <3>2, <4>1 DEF Numbers, Rising
    <3> QED
      BY <3>1, <3>2
  <2>3. Below(Drained(s, r), Queued(s, r)) /\ Below(Drained(s, r), {})
    BY <2>0 DEF PairInv, Line, Below
  <2>4. /\ Numbers(stash', To(s, r)) = Drained(s, r) \cup (IF s = f THEN Queued(s, r) ELSE {})
        /\ Rising(stash', To(s, r))
    <3>1. Numbers(stash, To(s, r)) = Drained(s, r) /\ Rising(stash, To(s, r))
      BY <2>0 DEF Drained, AllRising
    <3> DEFINE A == Drained(s, r)
               B == IF s = f THEN Queued(s, r) ELSE {}
               a == stash
               b == queue[f]
    <3>2. /\ Numbers(a, To(s, r)) = A /\ Numbers(b, To(s, r)) = B
          /\ Rising(a, To(s, r)) /\ Rising(b, To(s, r)) /\ Below(A, B)
          /\ a \in Seq(Message) /\ b \in Seq(Message)
      BY <1>3, <2>2, <2>3, <3>1
    <3> HIDE DEF A, B, a, b
    <3>3. Numbers(a \o b, To(s, r)) = A \cup B /\ Rising(a \o b, To(s, r))
      BY <3>2, Joined
    <3> QED
      BY <1>2, <3>3 DEF a, b, A, B
  <2>5. /\ Numbers(queue'[s], To(s, r)) = IF s = f THEN {} ELSE Queued(s, r)
        /\ Rising(queue'[s], To(s, r))
    <3>1. queue'[s] = IF s = f THEN <<>> ELSE queue[s]
      BY <1>1, <1>2, <1>3
    <3>2. Numbers(queue[s], To(s, r)) = Queued(s, r) /\ Rising(queue[s], To(s, r))
      BY <2>0 DEF Queued, AllRising
    <3> QED
      BY <3>1, <3>2, NothingIn
  <2>6. /\ Drained(s, r)' = Drained(s, r) \cup (IF s = f THEN Queued(s, r) ELSE {})
        /\ Queued(s, r)' = IF s = f THEN {} ELSE Queued(s, r)
    BY <2>4, <2>5 DEF Drained, Queued
  <2>7. AllRising(s, r)'
    BY <1>2, <1>4, <2>0, <2>4, <2>5 DEF AllRising
  <2>8. Kept(s, r)' = Kept(s, r)
    BY <1>2, <1>4, <2>1, <2>6 DEF Kept
  <2>9. Line(Delivered(s, r)', Handed(s, r)', Extracted(s, r)', Streamed(s, r)',
             Drained(s, r)', Queued(s, r)')
    BY <2>0, <2>1, <2>6 DEF PairInv, Line, Below
  <2>10. Delivered(s, r)' \cup Handed(s, r)' \cup Extracted(s, r)' \cup Streamed(s, r)'
           \cup Drained(s, r)' \cup Queued(s, r)' \subseteq Pushed(s, r)
    BY <2>0, <2>1, <2>6 DEF PairInv
  <2>11. PairInv(s, r)'
    BY <1>2, <1>4, <2>0, <2>1, <2>8, <2>9, <2>10, Flows
  <2> QED
    BY <2>7, <2>11
<1> QED
  BY <1>5, <1>6 DEF LineInv

\* What changes in the stream and the stash, everything else where it was.
LEMMA StreamMoves ==
  ASSUME LineInv, NEW s \in Sender, NEW r \in Receiver,
         UNCHANGED <<sent, staged, inbox, delivered, recv_pc>>, queue' = queue,
         Dead' <=> Dead,
         Rising(Bytes', Payload(s, r)), Rising(stash', To(s, r)),
         Streamed(s, r)' \cup Drained(s, r)' = Streamed(s, r) \cup Drained(s, r),
         Below(Streamed(s, r)', Drained(s, r)')
  PROVE  AllRising(s, r)' /\ PairInv(s, r)'
<1>1. PairInv(s, r) /\ AllRising(s, r)
  BY DEF LineInv
<1>2. /\ Delivered(s, r)' = Delivered(s, r) /\ Handed(s, r)' = Handed(s, r)
      /\ Extracted(s, r)' = Extracted(s, r)
      /\ Pushed(s, r)' = Pushed(s, r) /\ Queued(s, r)' = Queued(s, r)
  BY DEF Delivered, Handed, Extracted, Pushed, Queued
<1>3. AllRising(s, r)'
  BY <1>1 DEF AllRising
<1>4. Kept(s, r)' = Kept(s, r)
  BY <1>2 DEF Kept
<1>5. Line(Delivered(s, r)', Handed(s, r)', Extracted(s, r)', Streamed(s, r)',
           Drained(s, r)', Queued(s, r)')
  <2> DEFINE b1 == Streamed(s, r)'
             h1 == Drained(s, r)'
  <2>1. b1 \cup h1 = Streamed(s, r) \cup Drained(s, r) /\ Below(b1, h1)
    OBVIOUS
  <2> HIDE DEF b1, h1
  <2>2. Line(Delivered(s, r), Handed(s, r), Extracted(s, r), b1, h1, Queued(s, r))
    BY <1>1, <2>1 DEF PairInv, Line, Below
  <2> QED
    BY <1>2, <2>2 DEF b1, h1
<1>6. Delivered(s, r)' \cup Handed(s, r)' \cup Extracted(s, r)' \cup Streamed(s, r)'
        \cup Drained(s, r)' \cup Queued(s, r)' \subseteq Pushed(s, r)
  BY <1>1, <1>2 DEF PairInv
<1>7. PairInv(s, r)'
  BY <1>1, <1>2, <1>4, <1>5, <1>6, Flows
<1> QED
  BY <1>3, <1>7

\* Joining is associative.
Assoc(a, b, c) == (a \o b) \o c = a \o (b \o c)

LEMMA Associative == \A T : \A a, b, c \in Seq(T) : Assoc(a, b, c)
BY ConcatAssociative DEF Assoc

\* What goes from the buffer to the stream, of what is there or has come, stays in line.
SameAfter(T, y, a, b) ==
  \A c, v \in Seq(T) : a \o b = c \o v => (y \o a) \o b = (y \o c) \o v

LEMMA Regrouped ==
  ASSUME NEW T, NEW y \in Seq(T), NEW a \in Seq(T), NEW b \in Seq(T)
  PROVE  SameAfter(T, y, a, b)
<1>1. (y \o a) \o b = y \o (a \o b)
  <2>1. Assoc(y, a, b)
    BY Associative
  <2> QED
    BY <2>1 DEF Assoc
<1>2. \A c, v \in Seq(T) : (y \o c) \o v = y \o (c \o v)
  <2>1. \A c, v \in Seq(T) : Assoc(y, c, v)
    BY Associative
  <2> QED
    BY <2>1 DEF Assoc
<1> SUFFICES ASSUME NEW c \in Seq(T), NEW v \in Seq(T)
             PROVE  a \o b = c \o v => (y \o a) \o b = (y \o c) \o v
  BY DEF SameAfter
<1> DEFINE p == a \o b
           q == c \o v
           p1 == (y \o a) \o b
           q1 == (y \o c) \o v
<1>3. p1 = y \o p /\ q1 = y \o q
  BY <1>1, <1>2
<1> SUFFICES p = q => p1 = q1
  OBVIOUS
<1> HIDE DEF p, q, p1, q1
<1> QED
  BY <1>3

\* What is written is the stash, after what had been.
LEMMA WriteKeepsLine == TypeOK /\ StreamInv /\ LineInv /\ Write => LineInv'
<1> SUFFICES ASSUME TypeOK, StreamInv, LineInv, Write PROVE LineInv'
  OBVIOUS
<1> DEFINE u == Units(stash)
           all == buffered \o u
<1>1. PICK n \in {0, Len(all) - 1} :
        wire' = wire \o SubSeq(all, 1, n) /\ buffered' = SubSeq(all, n + 1, Len(all))
  BY DEF Write
<1>2. /\ send_pc = "write" /\ send_pc' = "drain" /\ stash' = <<>>
      /\ UNCHANGED <<sent, queue, buffer, staged, inbox, delivered, recv_pc>>
  BY DEF Write, producers, recv_thread, receivers
<1>3. /\ buffer \in Seq(UnitSet) /\ wire \in Seq(UnitSet) /\ buffered \in Seq(UnitSet)
      /\ stash \in Seq(Message)
  BY DEF TypeOK
<1>4. u \in Seq(UnitSet)
  BY <1>3, UnitsNumbers, WorkersAssumption
<1>5. all \in Seq(UnitSet) /\ n \in 0 .. Len(all)
  <2>1. stash # <<>> /\ stash \in Seq(Msg)
    <3>1. Message \subseteq Msg
      BY MessageFacts
    <3> QED
      BY <1>2, <1>3, <3>1, SeqMonotonic DEF StreamInv, Rounds
  <2>2. Len(stash) \in Nat \ {0}
    BY <1>3, <2>1, EmptySeq
  <2>3. Len(u) = 2 * Len(stash)
    BY <2>1, UnitsPlain
  <2>4. Len(buffered) \in Nat
    BY <1>3, LenProperties
  <2> HIDE DEF u
  <2>5. all \in Seq(UnitSet) /\ Len(all) = Len(buffered) + Len(u)
    BY <1>3, <1>4, ConcatProperties
  <2> HIDE DEF all
  <2> QED
    BY <1>1, <2>2, <2>3, <2>4, <2>5
<1> DEFINE a == SubSeq(all, 1, n)
           b == SubSeq(all, n + 1, Len(all))
<1>6. a \in Seq(UnitSet) /\ b \in Seq(UnitSet) /\ a \o b = buffered \o u
  <2> DEFINE q == all
  <2>1. q \in Seq(UnitSet) /\ n \in 0 .. Len(q)
    BY <1>5
  <2> HIDE DEF q
  <2>2. /\ SubSeq(q, 1, n) \in Seq(UnitSet) /\ SubSeq(q, n + 1, Len(q)) \in Seq(UnitSet)
        /\ q = SubSeq(q, 1, n) \o SubSeq(q, n + 1, Len(q))
    BY <2>1, Cut
  <2> QED
    BY <2>2 DEF q
<1>7. wire' = wire \o a /\ buffered' = b
  BY <1>1
<1> HIDE DEF a, b, u
<1>8. Bytes' = Bytes \o u /\ Bytes \in Seq(UnitSet)
  <2>0. PICK y \in Seq(UnitSet) : y = buffer \o wire
    BY <1>3, ConcatProperties
  <2>1. (buffer \o (wire \o a)) \o b = ((buffer \o wire) \o buffered) \o u
    <3>0. a \in Seq(UnitSet) /\ b \in Seq(UnitSet)
      BY <1>6
    <3>1. (buffer \o wire) \o a = buffer \o (wire \o a)
      <4>1. Assoc(buffer, wire, a)
        BY <1>3, <3>0, Associative
      <4> QED
        BY <4>1 DEF Assoc
    <3>2. SameAfter(UnitSet, y, a, b)
      BY <3>0, Regrouped
    <3>3. (y \o a) \o b = (y \o buffered) \o u
      BY <1>3, <1>4, <1>6, <3>2, Zenon DEF SameAfter
    <3> QED
      BY <2>0, <3>1, <3>3
  <2>2. Bytes \in Seq(UnitSet)
    BY <1>3, ConcatProperties DEF Bytes
  <2> QED
    BY <1>2, <1>7, <2>1, <2>2 DEF Bytes
<1>9. Dead' <=> Dead
  BY <1>2 DEF Dead
<1>10. ASSUME NEW s \in Sender PROVE Own(s)'
  BY <1>2 DEF LineInv, Own
<1>11. ASSUME NEW s \in Sender, NEW r \in Receiver PROVE AllRising(s, r)' /\ PairInv(s, r)'
  <2>1. PairInv(s, r) /\ AllRising(s, r)
    BY DEF LineInv
  <2>2. Numbers(u, Payload(s, r)) = Drained(s, r) /\ Rising(u, Payload(s, r))
    <3>1. Rising(stash, To(s, r))
      BY <2>1 DEF AllRising
    <3> QED
      BY <1>3, <3>1, UnitsNumbers DEF u, Drained
  <2>3. Numbers(Bytes, Payload(s, r)) = Streamed(s, r) /\ Rising(Bytes, Payload(s, r))
        /\ Below(Streamed(s, r), Drained(s, r))
    BY <2>1 DEF AllRising, PairInv, Line, Below, Streamed
  <2>4. /\ Numbers(Bytes \o u, Payload(s, r)) = Streamed(s, r) \cup Drained(s, r)
        /\ Rising(Bytes \o u, Payload(s, r))
    <3> DEFINE A == Streamed(s, r)
               B == Drained(s, r)
               q == Bytes
    <3>1. /\ Numbers(q, Payload(s, r)) = A /\ Numbers(u, Payload(s, r)) = B
          /\ Rising(q, Payload(s, r)) /\ Rising(u, Payload(s, r)) /\ Below(A, B)
          /\ q \in Seq(UnitSet)
      BY <1>8, <2>2, <2>3
    <3> HIDE DEF A, B, q
    <3>2. Numbers(q \o u, Payload(s, r)) = A \cup B /\ Rising(q \o u, Payload(s, r))
      BY <1>4, <3>1, Joined
    <3> QED
      BY <3>2 DEF A, B, q
  <2>5. Streamed(s, r)' = Streamed(s, r) \cup Drained(s, r) /\ Rising(Bytes', Payload(s, r))
    BY <1>8, <2>4 DEF Streamed
  <2>6. Drained(s, r)' = {} /\ Rising(stash', To(s, r))
    BY <1>2, NothingIn DEF Drained
  <2>7. /\ Streamed(s, r)' \cup Drained(s, r)' = Streamed(s, r) \cup Drained(s, r)
        /\ Below(Streamed(s, r)', Drained(s, r)')
    BY <2>5, <2>6 DEF Below
  <2> QED
    BY <1>2, <1>9, <2>5, <2>6, <2>7, StreamMoves
<1> QED
  BY <1>10, <1>11 DEF LineInv

\* A flush, and the last header, leave the messages where they were.
LEMMA FlushKeepsLine == TypeOK /\ LineInv /\ (Flush \/ Finish) => LineInv'
<1> SUFFICES ASSUME TypeOK, LineInv, Flush \/ Finish PROVE LineInv'
  OBVIOUS
<1>1. /\ buffer \in Seq(UnitSet) /\ wire \in Seq(UnitSet) /\ buffered \in Seq(UnitSet)
      /\ <<>> \in Seq(UnitSet)
  BY EmptySeq DEF TypeOK
<1>2. /\ UNCHANGED <<sent, queue, stash, buffer, staged, inbox, delivered, recv_pc>>
      /\ ~Dead /\ ~Dead'
  BY DEF Flush, Finish, producers, recv_thread, receivers, Dead
<1> DEFINE end == <<FinalUnit>>
<1>3. end \in Seq(UnitSet) /\ Len(end) = 1 /\ end[1] = FinalUnit
  <2>1. FinalUnit \in UnitSet
    BY DEF FinalUnit, UnitSet
  <2> QED
    BY <2>1
<1> HIDE DEF end
<1>4. /\ wire \o buffered \in Seq(UnitSet) /\ Bytes \in Seq(UnitSet)
      /\ \A q \in Seq(UnitSet) : q \o <<>> = q
  BY <1>1, ConcatProperties, ConcatEmptySeq DEF Bytes
<1>5. \A u \in Seq(UnitSet) : (buffer \o (wire \o (buffered \o u))) \o <<>> = Bytes \o u
  <2> TAKE u \in Seq(UnitSet)
  <2>1. PICK a \in Seq(UnitSet) : a = buffered \o u
    BY <1>1, ConcatProperties
  <2>2. PICK y \in Seq(UnitSet) : y = buffer \o wire
    BY <1>1, ConcatProperties
  <2>3. a \o <<>> = buffered \o u
    BY <2>1, ConcatEmptySeq
  <2>4. (y \o a) \o <<>> = (y \o buffered) \o u
    <3>1. SameAfter(UnitSet, y, a, <<>>)
      BY <1>1, Regrouped
    <3> QED
      BY <1>1, <2>3, <3>1, Zenon DEF SameAfter
  <2>5. (buffer \o wire) \o a = buffer \o (wire \o a)
    <3>1. Assoc(buffer, wire, a)
      BY <1>1, Associative
    <3> QED
      BY <3>1 DEF Assoc
  <2> QED
    BY <2>1, <2>2, <2>4, <2>5 DEF Bytes
<1>6. Bytes' = Bytes \/ Bytes' = Bytes \o end
  <2>1. CASE wire' = wire \o buffered /\ buffered' = <<>>
    <3>1. buffered \o <<>> = buffered /\ Bytes \o <<>> = Bytes
      BY <1>1, <1>4
    <3>2. Bytes' = buffer \o (wire \o (buffered \o <<>>)) \o <<>>
      BY <1>2, <2>1, <3>1 DEF Bytes
    <3> QED
      BY <1>1, <1>5, <3>1, <3>2
  <2>2. CASE wire' = wire \o buffered \o end /\ buffered' = <<>>
    <3>1. (wire \o buffered) \o end = wire \o (buffered \o end)
      <4>1. Assoc(wire, buffered, end)
        BY <1>1, <1>3, Associative
      <4> QED
        BY <4>1 DEF Assoc
    <3> QED
      BY <1>2, <1>3, <1>5, <2>2, <3>1 DEF Bytes
  <2>3. CASE UNCHANGED <<wire, buffered>>
    BY <1>2, <2>3 DEF Bytes
  <2> QED
    BY <2>1, <2>2, <2>3 DEF Flush, Finish, end, FinalUnit
<1>7. ASSUME NEW s \in Sender PROVE Own(s)'
  BY <1>2 DEF LineInv, Own
<1>8. ASSUME NEW s \in Sender, NEW r \in Receiver PROVE AllRising(s, r)' /\ PairInv(s, r)'
  <2>1. PairInv(s, r) /\ AllRising(s, r)
    BY DEF LineInv
  <2>2. Numbers(end, Payload(s, r)) = {} /\ Rising(end, Payload(s, r))
    <3>1. \A k \in Nat : FinalUnit # Payload(s, r)[k]
      BY DEF Payload, FinalUnit
    <3> QED
      BY <1>3, <3>1 DEF Numbers, Rising
  <2>3. Numbers(Bytes, Payload(s, r)) = Streamed(s, r) /\ Rising(Bytes, Payload(s, r))
    BY <2>1 DEF AllRising, Streamed
  <2>4. /\ Numbers(Bytes \o end, Payload(s, r)) = Streamed(s, r)
        /\ Rising(Bytes \o end, Payload(s, r))
    <3> DEFINE A == Streamed(s, r)
               B == {}
               q == Bytes
    <3>1. /\ Numbers(q, Payload(s, r)) = A /\ Numbers(end, Payload(s, r)) = B
          /\ Rising(q, Payload(s, r)) /\ Rising(end, Payload(s, r)) /\ Below(A, B)
          /\ q \in Seq(UnitSet) /\ A \cup B = A
      BY <1>4, <2>2, <2>3 DEF Below
    <3> HIDE DEF A, B, q
    <3>2. Numbers(q \o end, Payload(s, r)) = A \cup B /\ Rising(q \o end, Payload(s, r))
      BY <1>3, <3>1, Joined
    <3> QED
      BY <3>1, <3>2 DEF A, q
  <2>5. Streamed(s, r)' = Streamed(s, r) /\ Rising(Bytes', Payload(s, r))
    BY <1>6, <2>3, <2>4 DEF Streamed
  <2>6. Drained(s, r)' = Drained(s, r) /\ Rising(stash', To(s, r))
    BY <1>2, <2>1 DEF Drained, AllRising
  <2>7. /\ Streamed(s, r)' \cup Drained(s, r)' = Streamed(s, r) \cup Drained(s, r)
        /\ Below(Streamed(s, r)', Drained(s, r)')
    BY <2>1, <2>5, <2>6 DEF PairInv, Line, Below
  <2> QED
    BY <1>2, <2>5, <2>6, <2>7, StreamMoves
<1> QED
  BY <1>7, <1>8 DEF LineInv

\* Moving the whole buffer to the stream leaves what is on its way as it is.
LEMMA FlushedBytes ==
  ASSUME TypeOK, wire' = wire \o buffered, buffered' = <<>>, buffer' = buffer
  PROVE  Bytes' = Bytes
<1>1. /\ buffer \in Seq(UnitSet) /\ wire \in Seq(UnitSet) /\ buffered \in Seq(UnitSet)
  BY DEF TypeOK
<1>2. PICK a \in Seq(UnitSet) : a = buffer \o (wire \o buffered) /\ a = Bytes
  <2>1. (buffer \o wire) \o buffered = buffer \o (wire \o buffered)
    <3>1. Assoc(buffer, wire, buffered)
      BY <1>1, Associative
    <3> QED
      BY <3>1 DEF Assoc
  <2>2. Bytes \in Seq(UnitSet)
    BY <1>1, ConcatProperties DEF Bytes
  <2> QED
    BY <2>1, <2>2 DEF Bytes
<1>3. a \o <<>> = a
  BY ConcatEmptySeq
<1> QED
  BY <1>2, <1>3 DEF Bytes

\* What is on its way, cut anywhere in the stream.
LEMMA CutBytes ==
  ASSUME TypeOK, NEW n \in 0 .. Len(wire)
  PROVE  LET front == buffer \o SubSeq(wire, 1, n)
             back == SubSeq(wire, n + 1, Len(wire)) \o buffered
         IN  /\ front \in Seq(UnitSet) /\ back \in Seq(UnitSet) /\ Bytes = front \o back
             /\ SubSeq(wire, n + 1, Len(wire)) \in Seq(UnitSet)
<1> DEFINE w1 == SubSeq(wire, 1, n)
           w2 == SubSeq(wire, n + 1, Len(wire))
<1>1. /\ buffer \in Seq(UnitSet) /\ wire \in Seq(UnitSet) /\ buffered \in Seq(UnitSet)
  BY DEF TypeOK
<1>2. w1 \in Seq(UnitSet) /\ w2 \in Seq(UnitSet) /\ wire = w1 \o w2
  BY <1>1, Cut
<1> HIDE DEF w1, w2
<1>3. PICK front \in Seq(UnitSet) : front = buffer \o w1
  BY <1>1, <1>2, ConcatProperties
<1>4. w2 \o buffered \in Seq(UnitSet)
  BY <1>1, <1>2, ConcatProperties
<1>5. (buffer \o w1) \o w2 = buffer \o (w1 \o w2)
  <2>1. w1 \in Seq(UnitSet) /\ w2 \in Seq(UnitSet)
    BY <1>2
  <2>2. Assoc(buffer, w1, w2)
    BY <1>1, <2>1, Associative
  <2> QED
    BY <2>2 DEF Assoc
<1>6. (front \o w2) \o buffered = front \o (w2 \o buffered)
  <2>1. w2 \in Seq(UnitSet)
    BY <1>2
  <2>2. Assoc(front, w2, buffered)
    BY <1>1, <2>1, Associative
  <2> QED
    BY <2>2 DEF Assoc
<1>7. Bytes = front \o (w2 \o buffered)
  <2>1. Bytes = (buffer \o (w1 \o w2)) \o buffered
    BY <1>2, Zenon DEF Bytes
  <2> QED
    BY <1>3, <1>5, <1>6, <2>1, Zenon
<1> QED
  BY <1>2, <1>3, <1>4, <1>7, Zenon DEF w1, w2

\* What a thread held is gone when it has unwound.
DeadHoldsNothing == Dead => stash = <<>> /\ buffered = <<>>

LEMMA InitDeadHoldsNothing == Init => DeadHoldsNothing
BY DEF Init, DeadHoldsNothing, Dead

LEMMA NextDeadHoldsNothing == DeadHoldsNothing /\ [Next]_vars => DeadHoldsNothing'
<1> SUFFICES ASSUME DeadHoldsNothing, [Next]_vars PROVE DeadHoldsNothing'
  OBVIOUS
<1>1. CASE FindPoisoned \/ Crash
  BY <1>1 DEF FindPoisoned, SendPanic, Crash, DeadHoldsNothing
<1>2. CASE LastClone \/ RecvStep \/ UNCHANGED vars
  <2>1. UNCHANGED <<send_pc, stash, buffered>>
    BY <1>2 DEF LastClone, RecvStep, Read, Confirm, BadStream, RecvPanic, HandOver, HandPing,
                HandDone, vars, send_thread
  <2> QED
    BY <2>1 DEF DeadHoldsNothing, Dead
<1>3. CASE Drain \/ Write \/ Flush \/ CheckLast \/ CheckEmpty \/ SendPark \/ Finish
  <2>1. ~Dead'
    BY <1>3 DEF Drain, Write, Flush, CheckLast, CheckEmpty, Examined, SendPark, Finish, Dead
  <2> QED
    BY <2>1 DEF DeadHoldsNothing
<1>4. ASSUME NEW s \in Sender, \/ \E r \in Receiver : Push(s, r)
                               \/ Ping(s) \/ DropHandle(s) \/ Panic(s) \/ Unwound(s)
      PROVE  DeadHoldsNothing'
  BY <1>4 DEF Push, Ping, DropHandle, Panic, Unwound, send_thread, DeadHoldsNothing, Dead
<1>5. ASSUME NEW r \in Receiver, WorkerStep(r) PROVE DeadHoldsNothing'
  BY <1>5 DEF WorkerStep, Receive, ReceivePoison, Unparked, send_thread, DeadHoldsNothing, Dead
<1> QED
  BY <1>1, <1>2, <1>3, <1>4, <1>5 DEF Next, SendStep

\* A panic loses what the send thread had drained; a crash, or the last clone of the socket
\* after a panic, any end of the stream.  Neither loses anything before what it does not.
LEMMA FailureKeepsLine ==
  TypeOK /\ DeadHoldsNothing /\ LineInv /\ (FindPoisoned \/ LastClone \/ Crash) => LineInv'
<1> SUFFICES ASSUME TypeOK, DeadHoldsNothing, LineInv, FindPoisoned \/ LastClone \/ Crash
             PROVE  LineInv'
  OBVIOUS
<1>1. /\ UNCHANGED <<sent, buffer, staged, inbox, delivered, recv_pc>>
      /\ stash' = <<>> /\ Dead' /\ buffered' = <<>>
      /\ queue' = queue \/ queue' = [s \in Sender |-> <<>>]
  <2>1. CASE LastClone
    BY <2>1 DEF LastClone, Dead, DeadHoldsNothing, producers, send_thread, recv_thread, receivers
  <2> QED
    BY <2>1 DEF FindPoisoned, SendPanic, Crash, recv_thread, receivers, Dead
<1>2. PICK front \in Seq(UnitSet), back \in Seq(UnitSet) :
        Bytes = front \o back /\ Bytes' = front
  <2>1. CASE FindPoisoned
    <3>1. wire' = wire \o buffered /\ buffered' = <<>>
      BY <2>1 DEF FindPoisoned, SendPanic
    <3>2. Bytes' = Bytes
      BY <1>1, <3>1, FlushedBytes
    <3>3. Bytes \in Seq(UnitSet) /\ <<>> \in Seq(UnitSet)
      BY ConcatProperties, EmptySeq DEF TypeOK, Bytes
    <3>4. Bytes \o <<>> = Bytes
      BY <3>3, ConcatEmptySeq
    <3> QED
      BY <3>2, <3>3, <3>4
  <2>2. CASE LastClone \/ Crash
    <3>1. PICK n \in 0 .. Len(wire) : wire' = SubSeq(wire, 1, n)
      BY <2>2 DEF LastClone, Crash
    <3>2. PICK f \in Seq(UnitSet), b \in Seq(UnitSet) :
            f = buffer \o SubSeq(wire, 1, n) /\ Bytes = f \o b
      BY CutBytes
    <3>3. Bytes' = f \o <<>>
      BY <1>1, <3>1, <3>2 DEF Bytes
    <3>4. f \o <<>> = f
      BY ConcatEmptySeq
    <3> QED
      BY <3>2, <3>3, <3>4
  <2> QED
    BY <2>1, <2>2
<1>3. ASSUME NEW s \in Sender PROVE Own(s)'
  <2>1. queue'[s] \in {queue[s], <<>>} /\ Own(s)
    BY <1>1 DEF LineInv
  <2> QED
    BY <1>1, <2>1 DEF Own
<1>4. ASSUME NEW s \in Sender, NEW r \in Receiver PROVE AllRising(s, r)' /\ PairInv(s, r)'
  <2>1. PairInv(s, r) /\ AllRising(s, r)
    BY DEF LineInv
  <2>2. /\ Delivered(s, r)' = Delivered(s, r) /\ Handed(s, r)' = Handed(s, r)
        /\ Extracted(s, r)' = Extracted(s, r) /\ Pushed(s, r)' = Pushed(s, r)
    BY <1>1 DEF Delivered, Handed, Extracted, Pushed
  <2>3. Drained(s, r)' = {} /\ Rising(stash', To(s, r))
    BY <1>1, NothingIn DEF Drained
  <2>4. Queued(s, r)' \subseteq Queued(s, r) /\ Rising(queue'[s], To(s, r))
    <3>1. queue'[s] \in {queue[s], <<>>}
      BY <1>1
    <3> QED
      BY <2>1, <3>1, NothingIn DEF Queued, AllRising
  <2>5. PICK b2 \in SUBSET Nat :
          /\ Streamed(s, r) = Streamed(s, r)' \cup b2 /\ Below(Streamed(s, r)', b2)
          /\ Rising(Bytes', Payload(s, r))
    <3>1. Rising(front \o back, Payload(s, r))
      BY <1>2, <2>1 DEF AllRising
    <3>2. /\ Numbers(front \o back, Payload(s, r)) =
               Numbers(front, Payload(s, r)) \cup Numbers(back, Payload(s, r))
          /\ Rising(front, Payload(s, r))
          /\ Below(Numbers(front, Payload(s, r)), Numbers(back, Payload(s, r)))
      BY <3>1, ConcatNumbers
    <3>3. Streamed(s, r)' = Numbers(front, Payload(s, r))
          /\ Streamed(s, r) = Numbers(front \o back, Payload(s, r))
      BY <1>2 DEF Streamed
    <3> QED
      BY <1>2, <3>2, <3>3, NumbersAreNat
  <2>6. AllRising(s, r)'
    BY <1>1, <2>1, <2>3, <2>4, <2>5 DEF AllRising
  <2> DEFINE d == Delivered(s, r)
             i == Handed(s, r)
             e == Extracted(s, r)
             b == Streamed(s, r)
             b1 == Streamed(s, r)'
             h == Drained(s, r)
             q == Queued(s, r)
             q1 == Queued(s, r)'
  <2>7. /\ b = b1 \cup b2 /\ Below(b1, b2) /\ q1 \subseteq q
        /\ Line(d, i, e, b, h, q)
        /\ d \cup i \cup e \cup b \cup h \cup q \subseteq Pushed(s, r)
    BY <2>1, <2>4, <2>5 DEF PairInv
  <2>8. /\ Kept(s, r) = IF recv_pc = "panicked" THEN d \cup i
                        ELSE d \cup i \cup e \cup b \cup h \cup (IF Dead THEN {} ELSE q)
        /\ Kept(s, r)' = IF recv_pc = "panicked" THEN d \cup i ELSE d \cup i \cup e \cup b1
    BY <1>1, <2>2, <2>3 DEF Kept
  <2> HIDE DEF d, i, e, b, b1, h, q, q1
  <2>9. Line(d, i, e, b1, {}, q1) /\ d \cup i \cup e \cup b1 \cup {} \cup q1 \subseteq Pushed(s, r)
    BY <2>7 DEF Line, Below
  <2>10. Kept(s, r)' \subseteq Kept(s, r) /\ \A k \in Kept(s, r)' : \A l \in Kept(s, r) \ Kept(s, r)' : k < l
    BY <2>7, <2>8 DEF Line, Below
  <2>11. Line(Delivered(s, r)', Handed(s, r)', Extracted(s, r)', Streamed(s, r)',
              Drained(s, r)', Queued(s, r)')
    BY <2>2, <2>3, <2>9 DEF d, i, e, b1, q1
  <2>12. Delivered(s, r)' \cup Handed(s, r)' \cup Extracted(s, r)' \cup Streamed(s, r)'
           \cup Drained(s, r)' \cup Queued(s, r)' \subseteq Pushed(s, r)
    BY <2>2, <2>3, <2>9 DEF d, i, e, b1, q1
  <2>13. PairInv(s, r)'
    BY <1>1, <2>1, <2>2, <2>10, <2>11, <2>12, Flows
  <2> QED
    BY <2>6, <2>13
<1> QED
  BY <1>3, <1>4 DEF LineInv

\* Every step of the send thread, and a crash of its process.
LEMMA SenderKeepsLine ==
  /\ TypeOK /\ StreamInv /\ DeadHoldsNothing /\ LineInv
  /\ SendStep \/ LastClone \/ Crash
  => LineInv'
<1> SUFFICES ASSUME TypeOK, StreamInv, DeadHoldsNothing, LineInv, SendStep \/ LastClone \/ Crash
             PROVE  LineInv'
  OBVIOUS
<1>1. CASE CheckLast \/ CheckEmpty \/ SendPark
  <2>1. /\ UNCHANGED <<sent, stash, buffered, wire, buffer, staged, inbox, delivered, recv_pc>>
        /\ ~Dead /\ ~Dead'
    BY <1>1 DEF CheckLast, CheckEmpty, Examined, SendPark, producers, stream, recv_thread,
                receivers, Dead
  <2>2. UNCHANGED queue
    <3>1. CASE CheckEmpty
      <4> DEFINE s == First(todo)
      <4>1. s \in Sender /\ queue \in [Sender -> Seq(Message)]
        BY <3>1, FirstVisited DEF CheckEmpty, TypeOK
      <4>2. queue' = IF queue[s] # <<>> THEN queue ELSE [queue EXCEPT ![s] = <<>>]
        BY <3>1 DEF CheckEmpty, Examined
      <4> HIDE DEF s
      <4> QED
        BY <4>1, <4>2
    <3> QED
      BY <1>1, <3>1 DEF CheckLast, Examined, SendPark, producers
  <2> QED
    BY <2>1, <2>2, NothingMoves
<1> QED
  BY <1>1, DrainKeepsLine, WriteKeepsLine, FlushKeepsLine, FailureKeepsLine DEF SendStep

-----------------------------------------------------------------------------
(* What is delivered: the receive thread and the receiving workers *)

\* What moves on from the stream or behind it, nothing being lost.
LEMMA ReceiverMoves ==
  ASSUME LineInv, NEW s \in Sender, NEW r \in Receiver,
         UNCHANGED <<sent, stash>>, queue' = queue, Dead' <=> Dead,
         (recv_pc = "panicked")' <=> recv_pc = "panicked",
         Rising(delivered'[r], To(s, r)), Rising(inbox'[r], To(s, r)),
         Rising(staged'[r], To(s, r)), Rising(Bytes', Payload(s, r)),
         Delivered(s, r)' \cup Handed(s, r)' \cup Extracted(s, r)' \cup Streamed(s, r)' =
           Delivered(s, r) \cup Handed(s, r) \cup Extracted(s, r) \cup Streamed(s, r),
         recv_pc = "panicked" =>
           Delivered(s, r)' \cup Handed(s, r)' = Delivered(s, r) \cup Handed(s, r),
         Below(Delivered(s, r)', Handed(s, r)' \cup Extracted(s, r)' \cup Streamed(s, r)'),
         Below(Handed(s, r)', Extracted(s, r)' \cup Streamed(s, r)'),
         Below(Extracted(s, r)', Streamed(s, r)')
  PROVE  AllRising(s, r)' /\ PairInv(s, r)'
<1>1. PairInv(s, r) /\ AllRising(s, r)
  BY DEF LineInv
<1>2. /\ Pushed(s, r)' = Pushed(s, r) /\ Queued(s, r)' = Queued(s, r)
      /\ Drained(s, r)' = Drained(s, r)
  BY DEF Pushed, Queued, Drained
<1>3. AllRising(s, r)'
  BY <1>1 DEF AllRising
<1> DEFINE d == Delivered(s, r)
           i == Handed(s, r)
           e == Extracted(s, r)
           b == Streamed(s, r)
           h == Drained(s, r)
           q == Queued(s, r)
           d1 == Delivered(s, r)'
           i1 == Handed(s, r)'
           e1 == Extracted(s, r)'
           b1 == Streamed(s, r)'
<1>4. /\ Line(d, i, e, b, h, q) /\ d \cup i \cup e \cup b \cup h \cup q \subseteq Pushed(s, r)
      /\ d1 \cup i1 \cup e1 \cup b1 = d \cup i \cup e \cup b
      /\ recv_pc = "panicked" => d1 \cup i1 = d \cup i
      /\ Below(d1, i1 \cup e1 \cup b1) /\ Below(i1, e1 \cup b1) /\ Below(e1, b1)
  BY <1>1 DEF PairInv
<1>5. /\ Kept(s, r) = IF recv_pc = "panicked" THEN d \cup i
                      ELSE d \cup i \cup e \cup b \cup h \cup (IF Dead THEN {} ELSE q)
      /\ Kept(s, r)' = IF recv_pc = "panicked" THEN d1 \cup i1
                       ELSE d1 \cup i1 \cup e1 \cup b1 \cup h \cup (IF Dead THEN {} ELSE q)
  BY <1>2 DEF Kept
<1> HIDE DEF d, i, e, b, h, q, d1, i1, e1, b1
<1>6. Kept(s, r)' = Kept(s, r)
  BY <1>4, <1>5
<1>7. Line(d1, i1, e1, b1, h, q) /\ d1 \cup i1 \cup e1 \cup b1 \cup h \cup q \subseteq Pushed(s, r)
  <2>1. PICK all : all = d1 \cup i1 \cup e1 \cup b1 /\ all = d \cup i \cup e \cup b
    BY <1>4
  <2>2. Below(all, h \cup q) /\ Below(h, q)
    BY <1>4, <2>1 DEF Line, Below
  <2>3. Line(d1, i1, e1, b1, h, q)
    BY <1>4, <2>1, <2>2 DEF Line, Below
  <2> QED
    BY <1>4, <2>3
<1>8. Line(Delivered(s, r)', Handed(s, r)', Extracted(s, r)', Streamed(s, r)',
           Drained(s, r)', Queued(s, r)')
  BY <1>2, <1>7 DEF d1, i1, e1, b1, h, q
<1>9. Delivered(s, r)' \cup Handed(s, r)' \cup Extracted(s, r)' \cup Streamed(s, r)'
        \cup Drained(s, r)' \cup Queued(s, r)' \subseteq Pushed(s, r)
  BY <1>2, <1>7 DEF d1, i1, e1, b1, h, q
<1>10. PairInv(s, r)'
  BY <1>1, <1>2, <1>6, <1>8, <1>9, Flows
<1> QED
  BY <1>3, <1>10

\* What is handed over, or received, moves from one end to the next beginning.
LEMMA HandOverKeepsLine == TypeOK /\ LineInv /\ HandOver => LineInv'
<1> SUFFICES ASSUME TypeOK, LineInv, HandOver PROVE LineInv'
  OBVIOUS
<1> DEFINE f == First(hand)
<1>1. /\ f \in Receiver /\ staged \in [Receiver -> Seq(Message)]
      /\ inbox \in [Receiver -> Seq(Message)]
  BY FirstVisited DEF HandOver, TypeOK
<1>2. /\ inbox' = [inbox EXCEPT ![f] = inbox[f] \o staged[f]]
      /\ staged' = [staged EXCEPT ![f] = <<>>]
      /\ recv_pc # "panicked" /\ recv_pc' # "panicked"
      /\ UNCHANGED <<sent, queue, stash, buffered, wire, buffer, delivered, send_pc>>
  BY DEF HandOver, producers, send_thread, stream
<1> HIDE DEF f
<1>3. UNCHANGED Bytes /\ (Dead' <=> Dead)
  BY <1>2 DEF Bytes, Dead
<1>4. ASSUME NEW s \in Sender PROVE Own(s)'
  BY <1>2 DEF LineInv, Own
<1>5. ASSUME NEW s \in Sender, NEW r \in Receiver PROVE AllRising(s, r)' /\ PairInv(s, r)'
  <2>1. PairInv(s, r) /\ AllRising(s, r)
    BY DEF LineInv
  <2>2. Delivered(s, r)' = Delivered(s, r) /\ Streamed(s, r)' = Streamed(s, r)
    BY <1>2, <1>3 DEF Delivered, Streamed
  <2>3. /\ Handed(s, r)' \cup Extracted(s, r)' = Handed(s, r) \cup Extracted(s, r)
        /\ Below(Handed(s, r)', Extracted(s, r)')
        /\ Rising(inbox'[r], To(s, r)) /\ Rising(staged'[r], To(s, r))
    <3>1. CASE r # f
      <4>1. inbox'[r] = inbox[r] /\ staged'[r] = staged[r]
        BY <1>1, <1>2, <3>1
      <4> QED
        BY <2>1, <4>1 DEF Handed, Extracted, AllRising, PairInv, Line, Below
    <3>2. CASE r = f
      <4> DEFINE A == Handed(s, r)
                 B == Extracted(s, r)
                 a == inbox[r]
                 b == staged[r]
      <4>1. /\ Numbers(a, To(s, r)) = A /\ Numbers(b, To(s, r)) = B
            /\ Rising(a, To(s, r)) /\ Rising(b, To(s, r)) /\ Below(A, B)
            /\ a \in Seq(Message) /\ b \in Seq(Message)
        BY <1>1, <2>1 DEF Handed, Extracted, AllRising, PairInv, Line, Below
      <4>2. inbox'[r] = a \o b /\ staged'[r] = <<>>
        BY <1>1, <1>2, <3>2
      <4> HIDE DEF A, B, a, b
      <4>3. Numbers(a \o b, To(s, r)) = A \cup B /\ Rising(a \o b, To(s, r))
        BY <4>1, Joined
      <4>4. Numbers(<<>>, To(s, r)) = {} /\ Rising(<<>>, To(s, r))
        BY NothingIn
      <4>5. Handed(s, r)' = A \cup B /\ Extracted(s, r)' = {}
        BY <4>2, <4>3, <4>4 DEF Handed, Extracted
      <4> QED
        BY <4>2, <4>3, <4>4, <4>5 DEF A, B, Below
    <3> QED
      BY <3>1, <3>2
  <2>4. Rising(delivered'[r], To(s, r)) /\ Rising(Bytes', Payload(s, r))
    BY <1>2, <1>3, <2>1 DEF AllRising
  <2>5. /\ Below(Delivered(s, r), Handed(s, r) \cup Extracted(s, r) \cup Streamed(s, r))
        /\ Below(Handed(s, r) \cup Extracted(s, r), Streamed(s, r))
    BY <2>1 DEF PairInv, Line, Below
  <2> DEFINE i1 == Handed(s, r)'
             e1 == Extracted(s, r)'
  <2>6. /\ i1 \cup e1 = Handed(s, r) \cup Extracted(s, r) /\ Below(i1, e1)
    BY <2>3
  <2> HIDE DEF i1, e1
  <2>7. /\ Below(Delivered(s, r), i1 \cup e1 \cup Streamed(s, r))
        /\ Below(i1, e1 \cup Streamed(s, r)) /\ Below(e1, Streamed(s, r))
        /\ Delivered(s, r) \cup i1 \cup e1 \cup Streamed(s, r)
             = Delivered(s, r) \cup Handed(s, r) \cup Extracted(s, r) \cup Streamed(s, r)
    BY <2>5, <2>6 DEF Below
  <2>8. /\ Below(Delivered(s, r)', Handed(s, r)' \cup Extracted(s, r)' \cup Streamed(s, r)')
        /\ Below(Handed(s, r)', Extracted(s, r)' \cup Streamed(s, r)')
        /\ Below(Extracted(s, r)', Streamed(s, r)')
        /\ Delivered(s, r)' \cup Handed(s, r)' \cup Extracted(s, r)' \cup Streamed(s, r)'
             = Delivered(s, r) \cup Handed(s, r) \cup Extracted(s, r) \cup Streamed(s, r)
    BY <2>2, <2>7 DEF i1, e1
  <2> QED
    BY <1>2, <1>3, <2>3, <2>4, <2>8, ReceiverMoves
<1> QED
  BY <1>4, <1>5 DEF LineInv

LEMMA ReceiveKeepsLine ==
  ASSUME TypeOK, LineInv, NEW f \in Receiver, Receive(f)
  PROVE  LineInv'
<1>1. /\ inbox \in [Receiver -> Seq(Message)] /\ delivered \in [Receiver -> Seq(Message)]
  BY DEF TypeOK
<1>2. /\ delivered' = [delivered EXCEPT ![f] = delivered[f] \o inbox[f]]
      /\ inbox' = [inbox EXCEPT ![f] = <<>>]
      /\ UNCHANGED <<sent, queue, stash, buffered, wire, buffer, staged, send_pc, recv_pc>>
  BY DEF Receive, producers, send_thread, stream, recv_thread
<1>3. UNCHANGED Bytes /\ (Dead' <=> Dead)
  BY <1>2 DEF Bytes, Dead
<1>4. ASSUME NEW s \in Sender PROVE Own(s)'
  BY <1>2 DEF LineInv, Own
<1>5. ASSUME NEW s \in Sender, NEW r \in Receiver PROVE AllRising(s, r)' /\ PairInv(s, r)'
  <2>1. PairInv(s, r) /\ AllRising(s, r)
    BY DEF LineInv
  <2>2. Extracted(s, r)' = Extracted(s, r) /\ Streamed(s, r)' = Streamed(s, r)
    BY <1>2, <1>3 DEF Extracted, Streamed
  <2>3. /\ Delivered(s, r)' \cup Handed(s, r)' = Delivered(s, r) \cup Handed(s, r)
        /\ Below(Delivered(s, r)', Handed(s, r)')
        /\ Rising(delivered'[r], To(s, r)) /\ Rising(inbox'[r], To(s, r))
    <3>1. CASE r # f
      <4>1. inbox'[r] = inbox[r] /\ delivered'[r] = delivered[r]
        BY <1>1, <1>2, <3>1
      <4> QED
        BY <2>1, <4>1 DEF Handed, Delivered, AllRising, PairInv, Line, Below
    <3>2. CASE r = f
      <4> DEFINE A == Delivered(s, r)
                 B == Handed(s, r)
                 a == delivered[r]
                 b == inbox[r]
      <4>1. /\ Numbers(a, To(s, r)) = A /\ Numbers(b, To(s, r)) = B
            /\ Rising(a, To(s, r)) /\ Rising(b, To(s, r)) /\ Below(A, B)
            /\ a \in Seq(Message) /\ b \in Seq(Message)
        BY <1>1, <2>1 DEF Handed, Delivered, AllRising, PairInv, Line, Below
      <4>2. delivered'[r] = a \o b /\ inbox'[r] = <<>>
        BY <1>1, <1>2, <3>2
      <4> HIDE DEF A, B, a, b
      <4>3. Numbers(a \o b, To(s, r)) = A \cup B /\ Rising(a \o b, To(s, r))
        BY <4>1, Joined
      <4>4. Numbers(<<>>, To(s, r)) = {} /\ Rising(<<>>, To(s, r))
        BY NothingIn
      <4>5. Delivered(s, r)' = A \cup B /\ Handed(s, r)' = {}
        BY <4>2, <4>3, <4>4 DEF Handed, Delivered
      <4> QED
        BY <4>2, <4>3, <4>4, <4>5 DEF A, B, Below
    <3> QED
      BY <3>1, <3>2
  <2>4. Rising(staged'[r], To(s, r)) /\ Rising(Bytes', Payload(s, r))
    BY <1>2, <1>3, <2>1 DEF AllRising
  <2>5. /\ Below(Delivered(s, r) \cup Handed(s, r), Extracted(s, r) \cup Streamed(s, r))
        /\ Below(Extracted(s, r), Streamed(s, r))
    BY <2>1 DEF PairInv, Line, Below
  <2> DEFINE d1 == Delivered(s, r)'
             i1 == Handed(s, r)'
  <2>6. /\ d1 \cup i1 = Delivered(s, r) \cup Handed(s, r) /\ Below(d1, i1)
    BY <2>3
  <2> HIDE DEF i1, d1
  <2>7. /\ Below(d1, i1 \cup Extracted(s, r) \cup Streamed(s, r))
        /\ Below(i1, Extracted(s, r) \cup Streamed(s, r))
        /\ d1 \cup i1 \cup Extracted(s, r) \cup Streamed(s, r)
             = Delivered(s, r) \cup Handed(s, r) \cup Extracted(s, r) \cup Streamed(s, r)
    BY <2>5, <2>6 DEF Below
  <2>8. /\ Below(Delivered(s, r)', Handed(s, r)' \cup Extracted(s, r)' \cup Streamed(s, r)')
        /\ Below(Handed(s, r)', Extracted(s, r)' \cup Streamed(s, r)')
        /\ Below(Extracted(s, r)', Streamed(s, r)')
        /\ Delivered(s, r)' \cup Handed(s, r)' \cup Extracted(s, r)' \cup Streamed(s, r)'
             = Delivered(s, r) \cup Handed(s, r) \cup Extracted(s, r) \cup Streamed(s, r)
    BY <2>2, <2>5, <2>7 DEF i1, d1
  <2> QED
    BY <1>2, <1>3, <2>3, <2>4, <2>8, ReceiverMoves
<1> QED
  BY <1>4, <1>5 DEF LineInv

\* A stretch without payloads changes nothing.
LEMMA NothingBefore ==
  ASSUME NEW T, NEW b \in Seq(T), NEW x
  PROVE  \A a \in Seq(T) : Numbers(a, x) = {} =>
           /\ Numbers(a \o b, x) = Numbers(b, x)
           /\ Rising(b, x) => Rising(a \o b, x)
<1> TAKE a \in Seq(T)
<1> DEFINE c == a \o b
           A == Numbers(a, x)
           B == Numbers(b, x)
<1>1. A = {} => Rising(a, x) /\ Below(A, B)
  BY DEF Numbers, Rising, Below
<1>2. Numbers(c, x) = A \cup B /\ (Rising(a, x) /\ Rising(b, x) /\ Below(A, B) => Rising(c, x))
  BY ConcatNumbers
<1> HIDE DEF A, B, c
<1>3. A = {} => Numbers(c, x) = B /\ (Rising(b, x) => Rising(c, x))
  BY <1>1, <1>2
<1> QED
  BY <1>3 DEF A, B, c

\* What is read is extracted as far as it is complete; what follows holds no payload yet.
LEMMA ReadKeepsLine ==
  ASSUME TypeOK, LineInv, NEW n, Read(n)
  PROVE  LineInv'
<1> DEFINE units == buffer \o SubSeq(wire, 1, n)
           got(r) == At(Completed(units), {i \in 1 .. Len(Completed(units)) :
                                             Completed(units)[i][2] = r})
<1>1. /\ n \in 0 .. Len(wire)
      /\ wire' = SubSeq(wire, n + 1, Len(wire)) /\ buffer' = Rest(units)
      /\ staged' = [r \in Receiver |-> staged[r] \o got(r)]
      /\ recv_pc = "read" /\ recv_pc' # "panicked"
      /\ UNCHANGED <<sent, queue, stash, buffered, inbox, delivered, send_pc>>
  BY DEF Read, Stage, producers, send_thread, receivers
<1>2. PICK front \in Seq(UnitSet), w2 \in Seq(UnitSet), back \in Seq(UnitSet) :
        /\ front = units /\ w2 = wire' /\ back = w2 \o buffered /\ Bytes = front \o back
  <2>1. /\ units \in Seq(UnitSet) /\ wire' \in Seq(UnitSet) /\ wire' \o buffered \in Seq(UnitSet)
        /\ Bytes = units \o (wire' \o buffered)
    BY <1>1, CutBytes
  <2> HIDE DEF units
  <2> QED
    BY <2>1
<1> HIDE DEF units, got
<1>3. PICK left \in Seq(UnitSet) :
        /\ left = buffer' /\ Bytes' = left \o back
        /\ \A s \in Sender, r \in Receiver : Numbers(left, Payload(s, r)) = {}
  <2>1. PICK left \in Seq(UnitSet) :
          /\ left = buffer' /\ left = Rest(front)
          /\ \A s \in Sender, r \in Receiver : Numbers(left, Payload(s, r)) = {}
    <3> QED
      BY <1>1, <1>2, RestNumbers
  <2>2. (left \o w2) \o buffered = left \o (w2 \o buffered)
    <3>1. left \in Seq(UnitSet) /\ w2 \in Seq(UnitSet) /\ buffered \in Seq(UnitSet)
      BY <1>2, <2>1 DEF TypeOK
    <3>2. Assoc(left, w2, buffered)
      BY <3>1, Associative
    <3> QED
      BY <3>2 DEF Assoc
  <2>3. Bytes' = (left \o w2) \o buffered
    BY <1>1, <1>2, <2>1, Zenon DEF Bytes
  <2> QED
    BY <1>2, <2>1, <2>2, <2>3, Zenon
<1>4. Dead' <=> Dead
  BY <1>1 DEF Dead
<1>5. ASSUME NEW s \in Sender PROVE Own(s)'
  BY <1>1 DEF LineInv, Own
<1>6. ASSUME NEW s \in Sender, NEW r \in Receiver PROVE AllRising(s, r)' /\ PairInv(s, r)'
  <2>1. PairInv(s, r) /\ AllRising(s, r)
    BY DEF LineInv
  <2>2. Delivered(s, r)' = Delivered(s, r) /\ Handed(s, r)' = Handed(s, r)
    BY <1>1 DEF Delivered, Handed
  <2> DEFINE F == Numbers(front, Payload(s, r))
             B == Numbers(back, Payload(s, r))
             E == Extracted(s, r)
  <2>3. /\ Streamed(s, r) = F \cup B /\ Below(F, B)
        /\ Rising(front, Payload(s, r)) /\ Rising(back, Payload(s, r))
    <3>1. Streamed(s, r) = Numbers(front \o back, Payload(s, r)) /\ Rising(front \o back, Payload(s, r))
      BY <1>2, <2>1 DEF Streamed, AllRising
    <3> QED
      BY <3>1, ConcatNumbers
  <2>4. Streamed(s, r)' = B /\ Rising(Bytes', Payload(s, r))
    <3>1. \A a \in Seq(UnitSet) : Numbers(a, Payload(s, r)) = {} =>
            /\ Numbers(a \o back, Payload(s, r)) = Numbers(back, Payload(s, r))
            /\ Rising(back, Payload(s, r)) => Rising(a \o back, Payload(s, r))
      BY <1>2, NothingBefore
    <3> QED
      BY <1>3, <2>3, <3>1 DEF Streamed
  <2>5. /\ got(r) \in Seq(Message) /\ Numbers(got(r), To(s, r)) = F
        /\ Rising(got(r), To(s, r))
    <3> DEFINE q == Completed(front)
               P == {i \in 1 .. Len(q) : q[i][2] = r}
    <3>1. /\ q \in Seq(Message \cup {Final}) /\ Numbers(q, To(s, r)) = F
          /\ Rising(q, To(s, r))
      BY <2>3, CompletedNumbers
    <3>2. got(r) = At(q, P) /\ P = {i \in 1 .. Len(q) : q[i][2] = r}
      BY <1>2 DEF got
    <3> HIDE DEF q, P, F
    <3>3. /\ At(q, P) \in Seq(Message)
          /\ Numbers(At(q, P), To(s, r)) = Numbers(q, To(s, r))
          /\ Rising(q, To(s, r)) => Rising(At(q, P), To(s, r))
      BY <3>1, <3>2, PickedNumbers
    <3> QED
      BY <3>1, <3>2, <3>3
  <2>6. staged[r] \in Seq(Message) /\ Numbers(staged[r], To(s, r)) = E /\ Rising(staged[r], To(s, r))
    BY <2>1 DEF TypeOK, Extracted, AllRising
  <2> HIDE DEF F, B, E
  <2>7. /\ Below(E, F \cup B) /\ Below(Delivered(s, r), Handed(s, r) \cup E \cup F \cup B)
        /\ Below(Handed(s, r), E \cup F \cup B)
    BY <2>1, <2>3 DEF PairInv, Line, Below, E
  <2>8. Extracted(s, r)' = E \cup F /\ Rising(staged'[r], To(s, r))
    <3> DEFINE a == staged[r]
               b == got(r)
    <3>1. staged'[r] = a \o b
      BY <1>1
    <3>2. /\ a \in Seq(Message) /\ Numbers(a, To(s, r)) = E /\ Rising(a, To(s, r))
          /\ b \in Seq(Message) /\ Numbers(b, To(s, r)) = F /\ Rising(b, To(s, r))
          /\ Below(E, F)
      BY <2>5, <2>6, <2>7 DEF Below
    <3> HIDE DEF a, b
    <3>3. Numbers(a \o b, To(s, r)) = E \cup F /\ Rising(a \o b, To(s, r))
      BY <3>2, Joined
    <3> QED
      BY <3>1, <3>3 DEF Extracted
  <2>9. Rising(delivered'[r], To(s, r)) /\ Rising(inbox'[r], To(s, r))
    BY <1>1, <2>1 DEF AllRising
  <2>10. /\ Below(Delivered(s, r)', Handed(s, r)' \cup Extracted(s, r)' \cup Streamed(s, r)')
         /\ Below(Handed(s, r)', Extracted(s, r)' \cup Streamed(s, r)')
         /\ Below(Extracted(s, r)', Streamed(s, r)')
         /\ Delivered(s, r)' \cup Handed(s, r)' \cup Extracted(s, r)' \cup Streamed(s, r)'
              = Delivered(s, r) \cup Handed(s, r) \cup Extracted(s, r) \cup Streamed(s, r)
    <3>1. /\ Below(Delivered(s, r), Handed(s, r) \cup (E \cup F) \cup B)
          /\ Below(Handed(s, r), (E \cup F) \cup B) /\ Below(E \cup F, B)
          /\ Delivered(s, r) \cup Handed(s, r) \cup (E \cup F) \cup B
               = Delivered(s, r) \cup Handed(s, r) \cup E \cup (F \cup B)
      BY <2>3, <2>7 DEF Below
    <3>2. Extracted(s, r) = E
      BY DEF E
    <3> QED
      BY <2>2, <2>3, <2>4, <2>8, <3>1, <3>2
  <2> QED
    BY <1>1, <1>4, <2>4, <2>8, <2>9, <2>10, ReceiverMoves
<1> QED
  BY <1>5, <1>6 DEF LineInv

\* A receive thread that panics loses what it has extracted and read; what it handed over
\* before is a beginning.
LEMMA BadStreamKeepsLine == TypeOK /\ LineInv /\ BadStream => LineInv'
<1> SUFFICES ASSUME TypeOK, LineInv, BadStream PROVE LineInv'
  OBVIOUS
<1>1. /\ recv_pc # "panicked" /\ recv_pc' = "panicked"
      /\ buffer' = <<>> /\ staged' = [r \in Receiver |-> <<>>]
      /\ UNCHANGED <<sent, queue, stash, wire, buffered, inbox, delivered, send_pc>>
  BY DEF BadStream, RecvPanic, producers, send_thread
<1>2. /\ buffer \in Seq(UnitSet) /\ wire \in Seq(UnitSet) /\ buffered \in Seq(UnitSet)
  BY DEF TypeOK
<1>3. PICK back \in Seq(UnitSet) : Bytes = buffer \o back /\ Bytes' = back
  <2>1. wire \o buffered \in Seq(UnitSet)
    BY <1>2, ConcatProperties
  <2>2. (buffer \o wire) \o buffered = buffer \o (wire \o buffered)
    <3>1. Assoc(buffer, wire, buffered)
      BY <1>2, Associative
    <3> QED
      BY <3>1 DEF Assoc
  <2>3. <<>> \o wire = wire
    BY <1>2, ConcatEmptySeq
  <2>4. Bytes' = wire \o buffered
    BY <1>1, <2>3 DEF Bytes
  <2> QED
    BY <2>1, <2>2, <2>4 DEF Bytes
<1>4. Dead' <=> Dead
  BY <1>1 DEF Dead
<1>5. ASSUME NEW s \in Sender PROVE Own(s)'
  BY <1>1 DEF LineInv, Own
<1>6. ASSUME NEW s \in Sender, NEW r \in Receiver PROVE AllRising(s, r)' /\ PairInv(s, r)'
  <2>1. PairInv(s, r) /\ AllRising(s, r)
    BY DEF LineInv
  <2>2. /\ Delivered(s, r)' = Delivered(s, r) /\ Handed(s, r)' = Handed(s, r)
        /\ Drained(s, r)' = Drained(s, r) /\ Queued(s, r)' = Queued(s, r)
        /\ Pushed(s, r)' = Pushed(s, r)
    BY <1>1 DEF Delivered, Handed, Drained, Queued, Pushed
  <2>3. Extracted(s, r)' = {} /\ Rising(staged'[r], To(s, r))
    BY <1>1, NothingIn DEF Extracted
  <2>4. Streamed(s, r)' \subseteq Streamed(s, r) /\ Rising(Bytes', Payload(s, r))
    <3>1. Rising(buffer \o back, Payload(s, r))
      BY <1>3, <2>1 DEF AllRising
    <3>2. /\ Numbers(buffer \o back, Payload(s, r)) =
               Numbers(buffer, Payload(s, r)) \cup Numbers(back, Payload(s, r))
          /\ Rising(back, Payload(s, r))
      BY <1>2, <3>1, ConcatNumbers
    <3>3. Streamed(s, r)' = Numbers(back, Payload(s, r))
          /\ Streamed(s, r) = Numbers(buffer \o back, Payload(s, r))
      BY <1>3 DEF Streamed
    <3> QED
      BY <1>3, <3>2, <3>3
  <2>5. AllRising(s, r)'
    BY <1>1, <2>1, <2>3, <2>4 DEF AllRising
  <2> DEFINE d == Delivered(s, r)
             i == Handed(s, r)
             e == Extracted(s, r)
             b == Streamed(s, r)
             b1 == Streamed(s, r)'
             h == Drained(s, r)
             q == Queued(s, r)
  <2>6. /\ b1 \subseteq b /\ Line(d, i, e, b, h, q)
        /\ d \cup i \cup e \cup b \cup h \cup q \subseteq Pushed(s, r)
    BY <2>1, <2>4 DEF PairInv
  <2>7. /\ Kept(s, r) = d \cup i \cup e \cup b \cup h \cup (IF Dead THEN {} ELSE q)
        /\ Kept(s, r)' = d \cup i
    BY <1>1, <2>2 DEF Kept
  <2> HIDE DEF d, i, e, b, b1, h, q
  <2>8. Line(d, i, {}, b1, h, q) /\ d \cup i \cup {} \cup b1 \cup h \cup q \subseteq Pushed(s, r)
    BY <2>6 DEF Line, Below
  <2>9. Kept(s, r)' \subseteq Kept(s, r) /\ \A k \in Kept(s, r)' : \A l \in Kept(s, r) \ Kept(s, r)' : k < l
    BY <2>6, <2>7 DEF Line, Below
  <2>10. Line(Delivered(s, r)', Handed(s, r)', Extracted(s, r)', Streamed(s, r)',
              Drained(s, r)', Queued(s, r)')
    BY <2>2, <2>3, <2>8 DEF d, i, b1, h, q
  <2>11. Delivered(s, r)' \cup Handed(s, r)' \cup Extracted(s, r)' \cup Streamed(s, r)'
           \cup Drained(s, r)' \cup Queued(s, r)' \subseteq Pushed(s, r)
    BY <2>2, <2>3, <2>8 DEF d, i, b1, h, q
  <2>12. PairInv(s, r)'
    BY <1>1, <2>1, <2>2, <2>9, <2>10, <2>11, Flows
  <2> QED
    BY <2>5, <2>12
<1> QED
  BY <1>5, <1>6 DEF LineInv

\* Every step of the program.
LEMMA NextLineInv ==
  TypeOK /\ StreamInv /\ DeadHoldsNothing /\ LineInv /\ [Next]_vars => LineInv'
<1> SUFFICES ASSUME TypeOK, StreamInv, DeadHoldsNothing, LineInv, [Next]_vars PROVE LineInv'
  OBVIOUS
<1>1. CASE SendStep \/ LastClone \/ Crash
  BY <1>1, SenderKeepsLine
<1>2. CASE RecvStep
  <2>1. CASE Confirm \/ HandPing \/ HandDone
    <3>1. /\ UNCHANGED <<sent, queue, stash, buffered, wire, buffer, staged, inbox, delivered>>
          /\ UNCHANGED send_pc /\ recv_pc # "panicked" /\ recv_pc' # "panicked"
      BY <2>1 DEF Confirm, HandPing, HandDone, producers, send_thread, stream, receivers
    <3> QED
      BY <3>1, NothingMoves DEF Dead
  <2> QED
    BY <1>2, <2>1, ReadKeepsLine, BadStreamKeepsLine, HandOverKeepsLine DEF RecvStep
<1>3. ASSUME NEW s \in Sender, \/ \E r \in Receiver : Push(s, r)
                               \/ Ping(s) \/ DropHandle(s) \/ Panic(s) \/ Unwound(s)
      PROVE  LineInv'
  <2>1. CASE Ping(s) \/ DropHandle(s) \/ Panic(s) \/ Unwound(s)
    <3>1. UNCHANGED <<sent, queue, stash, buffered, wire, buffer, staged, inbox, delivered,
                      send_pc, recv_pc>>
      BY <2>1 DEF Ping, DropHandle, Panic, Unwound, send_thread, stream, recv_thread, receivers
    <3> QED
      BY <3>1, NothingMoves DEF Dead
  <2> QED
    BY <1>3, <2>1, PushKeepsLine
<1>4. ASSUME NEW r \in Receiver, WorkerStep(r) PROVE LineInv'
  <2>1. CASE ReceivePoison(r) \/ Unparked(r)
    <3>1. UNCHANGED <<sent, queue, stash, buffered, wire, buffer, staged, inbox, delivered,
                      send_pc, recv_pc>>
      BY <2>1 DEF ReceivePoison, Unparked, producers, send_thread, stream, recv_thread
    <3> QED
      BY <3>1, NothingMoves DEF Dead
  <2> QED
    BY <1>4, <2>1, ReceiveKeepsLine DEF WorkerStep
<1>5. CASE UNCHANGED vars
  <2>1. UNCHANGED <<sent, queue, stash, buffered, wire, buffer, staged, inbox, delivered,
                    send_pc, recv_pc>>
    BY <1>5 DEF vars, producers, send_thread, stream, recv_thread, receivers
  <2> QED
    BY <2>1, NothingMoves DEF Dead
<1> QED
  BY <1>1, <1>2, <1>3, <1>4, <1>5 DEF Next

\* For any number of workers and messages, through panics and crashes: without a failure
\* every message pushed is in exactly one place, its pair's order kept; and after one,
\* what a worker has received from another is what that one pushed first.
THEOREM EverythingArrivesIntact == Spec => []DeliveredIntact
<1>1. Spec => []StreamInv
  BY InitStreamInv, NextStreamInv, Invariance, PTL DEF Spec
<1>2. Spec => []TypeOK
  BY <1>1, InitTypeOK, NextTypeOK, PTL DEF Spec
<1>3. Spec => []DeadHoldsNothing
  BY InitDeadHoldsNothing, NextDeadHoldsNothing, PTL DEF Spec
<1>4. Spec => []LineInv
  BY <1>1, <1>2, <1>3, InitLineInv, NextLineInv, PTL DEF Spec
<1> QED
  BY <1>1, <1>2, <1>4, DeliveredFollows, PTL

=============================================================================
