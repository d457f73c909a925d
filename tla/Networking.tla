------------------------------ MODULE Networking ------------------------------
(***************************************************************************)
(* One direction of the connection between two processes                   *)
(* (communication/src/allocator/zero_copy: bytes_exchange.rs, tcp.rs).     *)
(*                                                                         *)
(* Each worker of the sending process has a MergeQueue to the send thread, *)
(* which writes what it drains to a buffered TCP stream; the receive       *)
(* thread of the other process cuts the stream into messages and hands     *)
(* them to the MergeQueues of its workers.  A producer wakes the consumer  *)
(* of a queue only when it finds the queue empty, after releasing its      *)
(* lock.  The last handle to a queue makes it complete; when all are, the  *)
(* stream is closed with a header of length zero.  A panic poisons the     *)
(* queues of the thread that panics, so that failures cascade; the stream  *)
(* of a send thread that panics stays open until its process has dropped   *)
(* the socket's other clone.                                               *)
(***************************************************************************)
EXTENDS Integers, Sequences, SequencesExt, FiniteSets

CONSTANTS
  Sender,       \* the workers of the sending process, by index
  Receiver,     \* the workers of the receiving process, by index
  MayPanic,     \* the sending workers that may panic of themselves
  MayCrash,     \* whether the sending process may crash
  MaxMessages   \* bound on the messages pushed in all

ASSUME WorkersAssumption ==
  /\ Sender \subseteq Nat \ {0} /\ Receiver \subseteq Nat \ {0}
  /\ Sender # {} /\ Receiver # {}
  /\ MayPanic \subseteq Sender /\ MayCrash \in BOOLEAN

VARIABLES
  sent,       \* sent[s]: the messages s has pushed, as <<s, receiver, number>>
  queue,      \* queue[s]: the MergeQueue from s to the send thread
  handle,     \* handle[s]: what s is doing with its handle to it
  poisoned,   \* poisoned[s]: its panic flag
  send_pc, send_token,
  sources,    \* the queues the send thread has not found complete
  todo,       \* those it has yet to visit in this round
  stash,      \* what it has drained in this round
  buffered,   \* what is in its BufWriter
  wire,       \* what is on its way in the TCP stream
  closed,     \* the stream has been closed for writing
  recv_pc,
  buffer,     \* what the receive thread has read and not extracted
  staged,     \* staged[r]: the messages extracted for r
  hand,       \* the receivers it has yet to hand messages to in this round
  inbox,      \* inbox[r]: the MergeQueue from the receive thread to r
  inbox_poisoned, \* its panic flag
  worker,     \* worker[r]: what receiving worker r is doing
  token,      \* token[r]: its park token
  delivered   \* delivered[r]: what r has received

producers == <<sent, queue, handle, poisoned>>
send_thread == <<send_pc, sources, todo, stash, buffered>>
stream == <<wire, closed>>
recv_thread == <<recv_pc, buffer, staged, hand>>
receivers == <<inbox, inbox_poisoned, worker, token, delivered>>

vars == <<producers, send_thread, send_token, stream, recv_thread, receivers>>

-----------------------------------------------------------------------------
(* Messages as units that reads may separate: a header and a payload *)

Final == <<0, 0, 0>>  \* "a header for a zero length message"

Units(messages) ==
  [i \in 1 .. 2 * Len(messages) |->
     <<messages[(i + 1) \div 2], IF i % 2 = 1 THEN "header" ELSE "payload">>]

Ends(unit) == unit[2] = "payload" \/ unit[1] = Final

\* The entries of a sequence at some of its positions, in order.
At(seq, S) ==
  LET Rank(k) == Cardinality({j \in S : j <= k})
  IN  [i \in 1 .. Cardinality(S) |-> seq[CHOOSE k \in S : Rank(k) = i]]

\* The messages whose last unit is in a stretch of the stream.
Completed(units) ==
  At([i \in 1 .. Len(units) |-> units[i][1]], {i \in 1 .. Len(units) : Ends(units[i])})

\* What follows the last complete message.
Rest(units) ==
  LET last == {0} \cup {i \in 1 .. Len(units) : Ends(units[i])}
  IN  SubSeq(units, (CHOOSE i \in last : \A j \in last : j <= i) + 1, Len(units))

\* Is there the last header in a stretch of the stream, and something behind it?
HasFinal(units) == \E i \in 1 .. Len(units) : units[i][1] = Final
DataAfterFinal(units) == \E i \in 1 .. Len(units) - 1 : units[i][1] = Final

First(S) == CHOOSE x \in S : \A y \in S : x <= y

-----------------------------------------------------------------------------
(* Sending workers *)

MutantShouldPing(q) == Len(q) = 1

\* "only signal from empty to non-empty"
ShouldPing(q) == q = <<>>

\* Pusher::push ends in MergeQueue::extend: under the lock, the message joins the queue;
\* the lock is released before the send thread is woken.
Push(s, r) ==
  LET m == <<s, r, Len(sent[s]) + 1>>
  IN  /\ handle[s] = "open" /\ ~poisoned[s]
      /\ SumFunction([x \in Sender |-> Len(sent[x])]) < MaxMessages
      /\ sent' = [sent EXCEPT ![s] = Append(@, m)]
      /\ queue' = [queue EXCEPT ![s] = Append(@, m)]
      /\ handle' = [handle EXCEPT ![s] = IF ShouldPing(queue[s]) THEN "ping" ELSE "open"]
      /\ UNCHANGED <<poisoned, send_thread, send_token, stream, recv_thread, receivers>>

\* buzzer.buzz, the last call of extend and of drop.
MutantPing(s) ==
  /\ handle[s] \in {"ping", "drop"}
  /\ send_token' = (send_token \/ handle[s] = "ping")
  /\ handle' = [handle EXCEPT ![s] = IF @ = "ping" THEN "open" ELSE "gone"]
  /\ UNCHANGED <<sent, queue, poisoned, send_thread, stream, recv_thread, receivers>>

Ping(s) ==
  /\ handle[s] \in {"ping", "drop"}
  /\ send_token' = TRUE
  /\ handle' = [handle EXCEPT ![s] = IF @ = "ping" THEN "open" ELSE "gone"]
  /\ UNCHANGED <<sent, queue, poisoned, send_thread, stream, recv_thread, receivers>>

\* MergeQueue::drop, with the worker's last handle: the reference count falls to one.
DropHandle(s) ==
  /\ handle[s] = "open" /\ ~poisoned[s]
  /\ handle' = [handle EXCEPT ![s] = "drop"]
  /\ UNCHANGED <<sent, queue, poisoned, send_thread, send_token, stream, recv_thread,
                 receivers>>

\* The same while the worker panics, of itself or because extend or drop find the queue
\* poisoned: the flag is set before the handle is gone.
Panic(s) ==
  /\ handle[s] = "open"
  /\ s \in MayPanic \/ poisoned[s]
  /\ poisoned' = [poisoned EXCEPT ![s] = TRUE]
  /\ handle' = [handle EXCEPT ![s] = "panic"]
  /\ UNCHANGED <<sent, queue, send_thread, send_token, stream, recv_thread, receivers>>

Unwound(s) ==
  /\ handle[s] = "panic"
  /\ handle' = [handle EXCEPT ![s] = "drop"]
  /\ UNCHANGED <<sent, queue, poisoned, send_thread, send_token, stream, recv_thread,
                 receivers>>

HandleDropped(s) == handle[s] \in {"drop", "gone"}

-----------------------------------------------------------------------------
(* send_loop *)

\* The send thread unwinds: its queues are poisoned as they drop, the BufWriter writes
\* what it has.  Nothing shuts the stream down, and the process's receive thread holds a
\* clone of the socket: the stream stays open.
SendPanic ==
  /\ send_pc' = "panicked"
  /\ poisoned' = [s \in Sender |-> s \in sources \/ poisoned[s]]
  /\ wire' = wire \o buffered
  /\ stash' = <<>> /\ buffered' = <<>> /\ sources' = {} /\ todo' = {}
  /\ UNCHANGED <<sent, queue, handle, send_token, closed, recv_thread, receivers>>

\* The other clone goes too, and the connection with it, at whatever moment: the receive
\* thread ends, or the process, when its workers have been joined and CommsGuard finds
\* that the send thread panicked.  If bytes were left unread on this side the connection
\* is reset, and any end of the stream may be gone.
LastClone ==
  /\ send_pc = "panicked" /\ ~closed
  /\ closed' = TRUE
  /\ \E n \in 0 .. Len(wire) : wire' = SubSeq(wire, 1, n)
  /\ UNCHANGED <<producers, send_thread, send_token, recv_thread, receivers>>

\* One source.drain_into(&mut stash), and where the loop goes after the last.
Drain ==
  LET s == First(todo)
      all == stash \o queue[s]
      next == IF todo # {s} THEN "drain" ELSE IF all = <<>> THEN "flush" ELSE "write"
  IN  /\ send_pc = "drain"
      /\ ~poisoned[s]
      /\ stash' = all
      /\ queue' = [queue EXCEPT ![s] = <<>>]
      /\ todo' = todo \ {s}
      /\ send_pc' = next
      /\ UNCHANGED <<sent, handle, poisoned, send_token, sources, buffered, stream,
                     recv_thread, receivers>>

\* write_all the stash; the BufWriter may let go of part of what it holds, in the middle
\* of a message.
Write ==
  LET all == buffered \o Units(stash)
  IN  /\ send_pc = "write"
      /\ \E n \in {0, Len(all) - 1} :
           /\ wire' = wire \o SubSeq(all, 1, n)
           /\ buffered' = SubSeq(all, n + 1, Len(all))
      /\ stash' = <<>>
      /\ todo' = sources
      /\ send_pc' = "drain"
      /\ UNCHANGED <<producers, send_token, sources, closed, recv_thread, receivers>>

MutantFlush ==
  /\ send_pc = "flush"
  /\ todo' = sources
  /\ send_pc' = "check"
  /\ UNCHANGED <<producers, send_token, sources, stash, buffered, wire, closed, recv_thread,
                 receivers>>

Flush ==
  /\ send_pc = "flush"
  /\ wire' = wire \o buffered
  /\ buffered' = <<>>
  /\ todo' = sources
  /\ send_pc' = "check"
  /\ UNCHANGED <<producers, send_token, sources, stash, closed, recv_thread, receivers>>

\* After a source has been examined by `sources.retain'; one not kept is dropped with
\* what is in it.
Examined(s, kept) ==
  LET left == IF kept THEN sources ELSE sources \ {s}
  IN  /\ sources' = left
      /\ todo' = IF todo = {s} /\ left # {} THEN left ELSE todo \ {s}
      /\ send_pc' = IF todo # {s} THEN "check" ELSE IF left = {} THEN "finish" ELSE "park"
      /\ queue' = IF kept THEN queue ELSE [queue EXCEPT ![s] = <<>>]
      /\ UNCHANGED <<sent, handle, poisoned, send_token, stash, buffered, stream,
                     recv_thread, receivers>>

\* is_complete: first the flag and whether this is the last handle ...
CheckLast ==
  LET s == First(todo)
  IN  /\ send_pc = "check" /\ ~poisoned[s]
      /\ \/ ~HandleDropped(s) /\ Examined(s, TRUE)
         \/ /\ HandleDropped(s)
            /\ send_pc' = "check empty"
            /\ UNCHANGED <<producers, send_token, sources, todo, stash, buffered, stream,
                           recv_thread, receivers>>

\* ... then whether it is empty; a complete queue is dropped, which looks at the flag.
MutantCheckEmpty ==
  LET s == First(todo)
  IN  /\ send_pc = "check empty"
      /\ ~poisoned[s]
      /\ Examined(s, FALSE)

CheckEmpty ==
  LET s == First(todo)
  IN  /\ send_pc = "check empty"
      /\ queue[s] = <<>> => ~poisoned[s]
      /\ Examined(s, queue[s] # <<>>)

\* A drain or a check that finds the queue poisoned.
FindPoisoned ==
  /\ \/ send_pc \in {"drain", "check"}
     \/ send_pc = "check empty" /\ queue[First(todo)] = <<>>
  /\ poisoned[First(todo)]
  /\ SendPanic

\* std::thread::park; then the loop starts over.
SendPark ==
  /\ send_pc = "park"
  /\ send_token
  /\ send_token' = FALSE
  /\ send_pc' = "drain"
  /\ UNCHANGED <<producers, sources, todo, stash, buffered, stream, recv_thread, receivers>>

\* The final header, flushed; then the stream is shut down.
MutantFinish ==
  /\ send_pc = "finish"
  /\ wire' = wire \o buffered
  /\ buffered' = <<>>
  /\ closed' = TRUE
  /\ send_pc' = "done"
  /\ UNCHANGED <<producers, send_token, sources, todo, stash, recv_thread, receivers>>

Finish ==
  /\ \/ /\ send_pc = "finish"
        /\ wire' = wire \o buffered \o <<<<Final, "header">>>>
        /\ buffered' = <<>>
        /\ send_pc' = "shutdown"
        /\ UNCHANGED closed
     \/ /\ send_pc = "shutdown"
        /\ closed' = TRUE
        /\ send_pc' = "done"
        /\ UNCHANGED <<wire, buffered>>
  /\ UNCHANGED <<producers, send_token, sources, todo, stash, recv_thread, receivers>>

\* The sending process dies: its memory is gone, and any end of the stream may be.
Crash ==
  /\ MayCrash
  /\ send_pc # "crashed"
  /\ \E n \in 0 .. Len(wire) : wire' = SubSeq(wire, 1, n)
  /\ closed' = TRUE
  /\ handle' = [s \in Sender |-> "gone"]
  /\ queue' = [s \in Sender |-> <<>>]
  /\ stash' = <<>> /\ buffered' = <<>> /\ sources' = {} /\ todo' = {}
  /\ send_pc' = "crashed"
  /\ UNCHANGED <<sent, poisoned, send_token, recv_thread, receivers>>

-----------------------------------------------------------------------------
(* recv_loop *)

\* The receive thread panics: its queues are poisoned as they drop, and their workers
\* woken.
MutantRecvPanic ==
  /\ recv_pc' = "panicked"
  /\ inbox_poisoned' = [r \in Receiver |-> TRUE]
  /\ buffer' = <<>> /\ staged' = [r \in Receiver |-> <<>>] /\ hand' = {}
  /\ UNCHANGED <<producers, send_thread, send_token, wire, closed, inbox, worker, token,
                 delivered>>

RecvPanic ==
  /\ recv_pc' = "panicked"
  /\ inbox_poisoned' = [r \in Receiver |-> TRUE]
  /\ token' = [r \in Receiver |-> TRUE]
  /\ buffer' = <<>> /\ staged' = [r \in Receiver |-> <<>>] /\ hand' = {}
  /\ UNCHANGED <<producers, send_thread, send_token, wire, closed, inbox, worker, delivered>>

\* What is extracted goes to the receiver its header names.
Stage(messages) ==
  staged' = [r \in Receiver |->
               staged[r] \o At(messages, {i \in 1 .. Len(messages) : messages[i][2] = r})]

\* read some bytes, then extract every complete message.
Read(n) ==
  LET units == buffer \o SubSeq(wire, 1, n)
  IN  /\ recv_pc = "read"
      /\ n \in 1 .. Len(wire)
      /\ ~DataAfterFinal(units)
      /\ wire' = SubSeq(wire, n + 1, Len(wire))
      /\ buffer' = Rest(units)
      /\ Stage(Completed(units))
      /\ recv_pc' = IF HasFinal(units) THEN "confirm" ELSE "hand"
      /\ hand' = Receiver
      /\ UNCHANGED <<producers, send_thread, send_token, closed, receivers>>

\* "confirm absence of subsequent data": the read that must find the stream closed.
Confirm ==
  /\ recv_pc = "confirm"
  /\ wire = <<>> /\ closed
  /\ recv_pc' = "last hand"
  /\ UNCHANGED <<producers, send_thread, send_token, stream, buffer, staged, hand, receivers>>

\* The stream ends or continues where it should not.
BadStream ==
  /\ \/ recv_pc = "read" /\ wire = <<>> /\ closed
     \/ recv_pc = "confirm" /\ wire # <<>>
     \/ /\ recv_pc = "read"
        /\ \E n \in 1 .. Len(wire) : DataAfterFinal(buffer \o SubSeq(wire, 1, n))
  /\ RecvPanic

\* targets[r].extend(staged), for the next target: queue under the lock ...
HandOver ==
  LET r == First(hand)
  IN  /\ recv_pc \in {"hand", "last hand"}
      /\ hand # {}
      /\ inbox' = [inbox EXCEPT ![r] = @ \o staged[r]]
      /\ staged' = [staged EXCEPT ![r] = <<>>]
      /\ IF staged[r] # <<>> /\ ShouldPing(inbox[r])
         THEN recv_pc' = (IF recv_pc = "hand" THEN "ping" ELSE "last ping") /\ UNCHANGED hand
         ELSE hand' = hand \ {r} /\ UNCHANGED recv_pc
      /\ UNCHANGED <<producers, send_thread, send_token, stream, buffer, inbox_poisoned,
                     worker, token, delivered>>

\* ... and, the lock released, wake the worker.
HandPing ==
  LET r == First(hand)
  IN  /\ recv_pc \in {"ping", "last ping"}
      /\ token' = [token EXCEPT ![r] = TRUE]
      /\ hand' = hand \ {r}
      /\ recv_pc' = IF recv_pc = "ping" THEN "hand" ELSE "last hand"
      /\ UNCHANGED <<producers, send_thread, send_token, stream, buffer, staged, inbox,
                     inbox_poisoned, worker, delivered>>

\* The end of the round; after the last the queues drop and wake their workers.
HandDone ==
  /\ recv_pc \in {"hand", "last hand"}
  /\ hand = {}
  /\ recv_pc' = IF recv_pc = "hand" THEN "read" ELSE "done"
  /\ token' = IF recv_pc = "hand" THEN token ELSE [r \in Receiver |-> TRUE]
  /\ UNCHANGED <<producers, send_thread, send_token, stream, buffer, staged, hand, inbox,
                 inbox_poisoned, worker, delivered>>

-----------------------------------------------------------------------------
(* Receiving workers *)

\* TcpAllocator::receive takes all there is; a worker with nothing to do then parks.
Receive(r) ==
  /\ worker[r] = "run" /\ ~inbox_poisoned[r]
  /\ delivered' = [delivered EXCEPT ![r] = @ \o inbox[r]]
  /\ inbox' = [inbox EXCEPT ![r] = <<>>]
  /\ worker' = [worker EXCEPT ![r] = IF inbox[r] = <<>> THEN "park" ELSE "run"]
  /\ UNCHANGED <<producers, send_thread, send_token, stream, recv_thread, inbox_poisoned,
                 token>>

\* "MergeQueue poisoned."
ReceivePoison(r) ==
  /\ worker[r] = "run" /\ inbox_poisoned[r]
  /\ worker' = [worker EXCEPT ![r] = "panicked"]
  /\ UNCHANGED <<producers, send_thread, send_token, stream, recv_thread, inbox,
                 inbox_poisoned, token, delivered>>

Unparked(r) ==
  /\ worker[r] = "park"
  /\ token[r]
  /\ token' = [token EXCEPT ![r] = FALSE]
  /\ worker' = [worker EXCEPT ![r] = "run"]
  /\ UNCHANGED <<producers, send_thread, send_token, stream, recv_thread, inbox,
                 inbox_poisoned, delivered>>

-----------------------------------------------------------------------------
Init ==
  /\ sent = [s \in Sender |-> <<>>]
  /\ queue = [s \in Sender |-> <<>>]
  /\ handle = [s \in Sender |-> "open"]
  /\ poisoned = [s \in Sender |-> FALSE]
  /\ send_pc = "drain" /\ send_token = FALSE
  /\ sources = Sender /\ todo = Sender
  /\ stash = <<>> /\ buffered = <<>> /\ wire = <<>> /\ closed = FALSE
  /\ recv_pc = "read" /\ buffer = <<>> /\ hand = {}
  /\ staged = [r \in Receiver |-> <<>>]
  /\ inbox = [r \in Receiver |-> <<>>]
  /\ inbox_poisoned = [r \in Receiver |-> FALSE]
  /\ worker = [r \in Receiver |-> "run"]
  /\ token = [r \in Receiver |-> FALSE]
  /\ delivered = [r \in Receiver |-> <<>>]

SendStep ==
  \/ Drain \/ Write \/ Flush \/ CheckLast \/ CheckEmpty \/ FindPoisoned \/ SendPark \/ Finish

RecvStep ==
  \/ \E n \in 1 .. Len(wire) : Read(n)
  \/ Confirm \/ BadStream \/ HandOver \/ HandPing \/ HandDone

WorkerStep(r) == Receive(r) \/ ReceivePoison(r) \/ Unparked(r)

Next ==
  \/ SendStep \/ LastClone \/ RecvStep \/ Crash
  \/ \E s \in Sender :
       \/ \E r \in Receiver : Push(s, r)
       \/ Ping(s) \/ DropHandle(s) \/ Panic(s) \/ Unwound(s)
  \/ \E r \in Receiver : WorkerStep(r)

\* The workers of the sending process have ended.
AllGone == \A s \in Sender : handle[s] = "gone"

\* Every thread keeps running; workers need not send anything or ever leave.  A process
\* whose send thread panicked ends when its workers have.
Fairness ==
  /\ WF_vars(SendStep)
  /\ WF_vars(AllGone /\ LastClone)
  /\ WF_vars(RecvStep)
  /\ \A s \in Sender : WF_vars(Ping(s)) /\ WF_vars(Unwound(s))
  /\ \A r \in Receiver : WF_vars(WorkerStep(r))

Spec == Init /\ [][Next]_vars /\ Fairness

-----------------------------------------------------------------------------
Message == Sender \X Receiver \X (Nat \ {0})

UnitSet == ((Message \cup {Final}) \X {"header"}) \cup (Message \X {"payload"})

TypeOK ==
  /\ \A f \in {sent, queue} : f \in [Sender -> Seq(Message)]
  /\ handle \in [Sender -> {"open", "ping", "panic", "drop", "gone"}]
  /\ poisoned \in [Sender -> BOOLEAN]
  /\ send_pc \in {"drain", "write", "flush", "check", "check empty", "park", "finish",
                  "shutdown", "done", "panicked", "crashed"}
  /\ sources \subseteq Sender /\ todo \subseteq sources
  /\ stash \in Seq(Message)
  /\ \A f \in {buffered, wire, buffer} : f \in Seq(UnitSet)
  /\ send_token \in BOOLEAN /\ closed \in BOOLEAN
  /\ recv_pc \in {"read", "confirm", "hand", "ping", "last hand", "last ping", "done",
                  "panicked"}
  /\ hand \subseteq Receiver
  /\ \A f \in {staged, inbox, delivered} : f \in [Receiver -> Seq(Message)]
  /\ inbox_poisoned \in [Receiver -> BOOLEAN]
  /\ worker \in [Receiver -> {"run", "park", "panicked"}]
  /\ token \in [Receiver -> BOOLEAN]

Failed == send_pc \in {"panicked", "crashed"} \/ \E s \in Sender : poisoned[s]

Between(s, r, messages) ==
  At(messages, {i \in 1 .. Len(messages) : messages[i][1] = s /\ messages[i][2] = r})

\* Every message of every worker to every worker is in exactly one place, and for each
\* pair in the order they were pushed: in a queue, drained, buffered, on the wire, in
\* parts on both sides of a read, staged, handed over, or delivered.
NothingLost ==
  ~Failed =>
    \A s \in Sender, r \in Receiver :
      Between(s, r, delivered[r] \o inbox[r] \o staged[r]
                    \o Completed(buffer \o wire \o buffered) \o stash \o queue[s])
        = Between(s, r, sent[s])

\* Also after a failure, what a worker has received from another is what that one
\* pushed first, in order.
DeliveredInOrder ==
  \A s \in Sender, r \in Receiver :
    IsPrefix(Between(s, r, delivered[r]), Between(s, r, sent[s]))

\* What is pushed arrives, or is on its way, as it was pushed.
DeliveredIntact == TypeOK /\ NothingLost /\ DeliveredInOrder

\* "wait on a signal only if we are sure that there will still be a signal incoming":
\* when the send thread sleeps, its buffer is flushed, and a source that has something
\* or has been dropped is one whose worker has yet to wake it.
SendSleepsOnlyWhenIdle ==
  send_pc = "park" /\ ~send_token =>
    /\ buffered = <<>>
    /\ \A s \in sources :
         queue[s] # <<>> \/ HandleDropped(s) => handle[s] \in {"ping", "panic", "drop"}

\* The receive thread panics only if the sending process failed: never on a stream that
\* was shut down, whatever is under way when the last worker leaves.
PanicsOnlyAfterFailure == recv_pc = "panicked" => Failed

\* Whatever is pushed arrives, unless the sending process fails.  (In this property and
\* the next two, what the premise says stays true once it is, so that []<> says of each
\* such moment that the conclusion comes after it.)
EverythingDelivered ==
  []<>(Failed \/ \A s \in Sender, r \in Receiver :
                   Between(s, r, sent[s]) = Between(s, r, delivered[r]))

\* Once the workers have left, both threads end, having delivered everything.
ShutdownCompletes ==
  []<>((\A s \in Sender : HandleDropped(s))
         => Failed \/ (send_pc = "done" /\ recv_pc = "done"))

\* "If the stream ends without being shut down, the receive thread panics in an attempt
\* to take down the computation and cause the failures to cascade": a failure of the
\* sending process that ends the stream, as it does at the latest when the last of its
\* workers is gone, reaches every worker of the other, asleep or not, unless the stream
\* had been shut down.  While a worker of the failed process lives, asleep or waiting
\* for others, the stream may stay open and nobody be told.
FailuresCascade ==
  []<>(Failed /\ (closed \/ AllGone) =>
         recv_pc = "done" \/ \A r \in Receiver : worker[r] = "panicked")

=============================================================================
