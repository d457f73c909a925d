------------------------------- MODULE ZeroCopy -------------------------------
(***************************************************************************)
(* Messages in shared memory (bytes/src/lib.rs; communication/src/         *)
(* allocator/zero_copy: bytes_slab.rs, bytes_exchange.rs, push_pull.rs,    *)
(* tcp.rs, allocator.rs, allocator_process.rs).                            *)
(*                                                                         *)
(* A producer writes messages into a BytesSlab, cuts them out as slices of *)
(* the same allocation and puts them on a MergeQueue, which joins slices   *)
(* that touch.  A worker drains the queue, cuts the slices into one per    *)
(* message and files those under their channels, from where they are       *)
(* pulled and read in place.  When every slice of an allocation has been   *)
(* dropped the slab writes it anew.  The producer is another worker        *)
(* (SendEndpoint) or the receive thread, which reads whatever part of the  *)
(* messages a socket has and copies what is incomplete to a new buffer.    *)
(*                                                                         *)
(* Memory is in cells; the first cell of a message is its header.          *)
(***************************************************************************)
EXTENDS Integers, Sequences, FiniteSets, SequencesExt

CONSTANTS
  Producer,    \* who may be writing: a subset of {"endpoint", "socket"}
  Channel,     \* the channel identifiers, 1 .. n
  Lengths,     \* how many cells messages may take, header included
  InitShift,   \* the slab's first allocation has 2^InitShift cells
  Allocations, \* bound: allocations that exist at a time, 1 .. n
  MaxMessages  \* bound on the messages pushed

VARIABLES
  producer,  \* who is writing in this behaviour
  memory,    \* [1 .. Allocations -> sequence of cells]
  slab,      \* the BytesSlab
  pushed,    \* sequence of <<channel, length>>: all messages ever pushed
  wire,      \* cells the socket has for the receive thread
  merge,     \* the slices on the MergeQueue
  to_local,  \* [Channel -> sequence of slices, or None]
  current,   \* [Channel -> the slices (one at most) of the Puller's current]
  bound,     \* channel_id_bound
  canaries,  \* channels whose puller was dropped since the last receive
  open,      \* channels that have a puller
  pulled     \* [Channel -> sequence of message numbers]

vars == <<producer, memory, slab, pushed, wire, merge, to_local, current, bound,
          canaries, open, pulled>>

consumer == <<to_local, current, bound, canaries, open, pulled>>

Blank == <<0, 0, 0, 1>>  \* a cell nothing was written to

-----------------------------------------------------------------------------
(* Bytes: a part of an allocation *)

Slice(a, ptr, len) == [alloc |-> a, ptr |-> ptr, len |-> len]

None == <<Slice(0, 0, 0)>>  \* no entry in to_local

\* Deref: the cells a slice shows.
Shown(b) == SubSeq(memory[b.alloc], b.ptr + 1, b.ptr + b.len)

ExtractTo(b, n) == Slice(b.alloc, b.ptr, n)
After(b, n) == Slice(b.alloc, b.ptr + n, b.len - n)

\* try_merge: the slices are of one allocation and touch.
Mergeable(b, c) == b.alloc = c.alloc /\ b.ptr + b.len = c.ptr

\* MergeQueue::extend, with one slice: it is merged into the last, or follows it.
Extended(queue, b) ==
  IF queue # <<>> /\ Mergeable(Last(queue), b)
  THEN Append(Front(queue), [Last(queue) EXCEPT !.len = @ + b.len])
  ELSE Append(queue, b)

\* The slices a worker holds, and with those on the queue.
Held == UNION {ToSet(to_local[c]) : c \in {d \in Channel : to_local[d] # None}}
          \cup UNION {ToSet(current[c]) : c \in Channel}

MutantShared(queue) == {b.alloc : b \in ToSet(queue)}

\* Allocations that a slice outside the slab keeps from being regenerated.
Shared(queue) == {b.alloc : b \in Held \cup ToSet(queue)}

-----------------------------------------------------------------------------
(* BytesSlab *)

SlabRefs(s) ==
  {s.buffer.alloc} \cup {b.alloc : b \in ToSet(s.in_progress) \cup ToSet(s.stash)}

\* The shift grows until a buffer of its size takes what is valid and c more.
GrownShift(s, c) ==
  CHOOSE k \in s.shift .. s.shift + c + s.valid :
    /\ s.valid + c <= 2 ^ k
    /\ \A j \in s.shift .. k - 1 : s.valid + c > 2 ^ j

\* "Attempt to reclaim shared slices", when nothing is stashed: those of which no slice
\* is alive are whole again.
Reclaim(s) ==
  IF s.stash # <<>> THEN s
  ELSE LET free == SelectSeq(s.in_progress, LAMBDA b : b.alloc \notin Shared(merge))
       IN  [s EXCEPT
             !.stash = SelectSeq([k \in 1 .. Len(free) |->
                                    Slice(free[k].alloc, 0, Len(memory[free[k].alloc]))],
                                 LAMBDA b : b.len = 2 ^ s.shift),
             !.in_progress = SelectSeq(@, LAMBDA b : b.alloc \in Shared(merge))]

\* ensure_capacity: the slab and the memory once there is room for c cells more.
Ensured(s, c) ==
  IF s.buffer.len - s.valid >= c THEN {<<s, memory>>}
  ELSE LET shift     == GrownShift(s, c)
           increased == shift > s.shift
           cleared   == IF increased
                        THEN [s EXCEPT !.shift = shift, !.stash = <<>>, !.in_progress = <<>>]
                        ELSE s
           r         == Reclaim(cleared)
           unused    == (1 .. Allocations) \ (SlabRefs(r) \cup Shared(merge))
           fresh     == IF r.stash # <<>> THEN {Last(r.stash)}
                        ELSE {Slice(a, 0, 2 ^ shift) :
                                a \in {x \in unused : \A y \in unused : x <= y}}
       IN  {<<[r EXCEPT !.buffer = new,
                        !.stash = IF @ = <<>> THEN @ ELSE Front(@),
                        !.in_progress = IF increased THEN @ ELSE Append(@, s.buffer)],
              [memory EXCEPT ![new.alloc] =
                 [k \in 1 .. 2 ^ shift |->
                    IF k <= s.valid THEN memory[s.buffer.alloc][s.buffer.ptr + k]
                    ELSE Blank]]>> : new \in fresh}

\* Cells written at the front of the empty region, and made valid.
Written(s, mem, cells) ==
  [mem EXCEPT ![s.buffer.alloc] =
     [k \in DOMAIN @ |->
        IF k - s.buffer.ptr - s.valid \in 1 .. Len(cells)
        THEN cells[k - s.buffer.ptr - s.valid] ELSE @[k]]]

-----------------------------------------------------------------------------
(* Producers *)

\* The cells of the n-th message: its header, which has its channel and length, and the
\* rest, of which number and place matter.
Cells(n, c, len) == [k \in 1 .. len |-> <<n, c, len, k>>]

\* Pusher::push: reserve, write, make_valid, and what is valid is sent at once.
Push(c, len) ==
  /\ producer = "endpoint"
  /\ Len(pushed) < MaxMessages
  /\ pushed' = Append(pushed, <<c, len>>)
  /\ \E e \in Ensured(slab, len) :
       LET s == e[1] IN
       /\ memory' = Written(s, e[2], Cells(Len(pushed) + 1, c, len))
       /\ merge' = Extended(merge, ExtractTo(s.buffer, len))
       /\ slab' = [s EXCEPT !.buffer = After(@, len)]
  /\ UNCHANGED <<producer, wire, consumer>>

\* A message another process has sent arrives.
Arrive(c, len) ==
  /\ producer = "socket"
  /\ Len(pushed) < MaxMessages
  /\ pushed' = Append(pushed, <<c, len>>)
  /\ wire' = wire \o Cells(Len(pushed) + 1, c, len)
  /\ UNCHANGED <<producer, memory, slab, merge, consumer>>

\* MessageHeader::try_read: where the messages end that are complete at the front of
\* some cells.
Ends(cells) == {k \in 1 .. Len(cells) : cells[k][4] = cells[k][3]}

Complete(cells) == IF Ends(cells) = {} THEN 0 ELSE CHOOSE k \in Ends(cells) :
                                                     \A j \in Ends(cells) : j <= k

\* recv_loop: room for a cell at least, a read of some of what the socket has, and the
\* messages that are complete are extracted one by one and passed along.
Read ==
  /\ producer = "socket" /\ wire # <<>>
  /\ \E e \in Ensured(slab, 1) :
       \E n \in 1 .. Len(wire) :
         LET s     == e[1]
             mem   == Written(s, e[2], SubSeq(wire, 1, n))
             valid == s.valid + n
             cells == SubSeq(mem[s.buffer.alloc], s.buffer.ptr + 1, s.buffer.ptr + valid)
             done  == Complete(cells)
             start == SelectSeq([k \in 1 .. done |-> k], LAMBDA k : cells[k][4] = 1)
         IN  /\ n <= s.buffer.len - s.valid
             /\ memory' = mem
             /\ wire' = SubSeq(wire, n + 1, Len(wire))
             /\ merge' = FoldLeft(LAMBDA q, k :
                           Extended(q, Slice(s.buffer.alloc, s.buffer.ptr + k - 1, cells[k][3])),
                           merge, start)
             /\ slab' = [s EXCEPT !.buffer = After(@, done), !.valid = valid - done]
  /\ UNCHANGED <<producer, pushed, consumer>>

-----------------------------------------------------------------------------
(* The worker *)

MutantFiled(local, c, peel) ==
  IF local[c] = None THEN local ELSE [local EXCEPT ![c] = Append(@, peel)]

\* "We may receive data before allocating, and shouldn't block": such a message has a
\* queue made for it.  One for a channel whose puller was dropped is dropped.
Filed(local, c, peel) ==
  IF local[c] # None THEN [local EXCEPT ![c] = Append(@, peel)]
  ELSE IF bound < c THEN [local EXCEPT ![c] = <<peel>>]
  ELSE local

\* A message's slice without its header.
Peel(b, k) == Slice(b.alloc, b.ptr + k, Shown(b)[k][3] - 1)

\* The messages of one slice, filed in order.
FiledAll(local, b) ==
  FoldLeft(LAMBDA l, k : Filed(l, Shown(b)[k][2], Peel(b, k)), local,
           SelectSeq([k \in 1 .. b.len |-> k], LAMBDA k : Shown(b)[k][4] = 1))

\* receive: forget the channels whose canaries have sung, then file all there is.
Receive ==
  /\ canaries # {} \/ merge # <<>>
  /\ to_local' = FoldLeft(FiledAll, [c \in Channel |->
                    IF c \in canaries THEN None ELSE to_local[c]], merge)
  /\ canaries' = {}
  /\ merge' = <<>>
  /\ UNCHANGED <<producer, memory, slab, pushed, wire, current, bound, open, pulled>>

\* allocate, with identifiers in order.
Allocate(c) ==
  /\ c = bound + 1
  /\ bound' = c
  /\ to_local' = [to_local EXCEPT ![c] = IF @ = None THEN <<>> ELSE @]
  /\ open' = open \cup {c}
  /\ UNCHANGED <<producer, memory, slab, pushed, wire, merge, current, canaries, pulled>>

\* Puller::pull: what was current is dropped for the next message, or for none.
Pull(c) ==
  /\ c \in open
  /\ to_local[c] # <<>> \/ current[c] # <<>>
  /\ current' = [current EXCEPT ![c] = IF to_local[c] = <<>> THEN <<>> ELSE <<to_local[c][1]>>]
  /\ to_local' = [to_local EXCEPT ![c] = IF @ = <<>> THEN @ ELSE Tail(@)]
  /\ pulled' = [pulled EXCEPT ![c] =
                  IF to_local[c] = <<>> THEN @ ELSE Append(@, Shown(to_local[c][1])[1][1])]
  /\ UNCHANGED <<producer, memory, slab, pushed, wire, merge, bound, canaries, open>>

\* The puller is dropped with its dataflow, and its canary with it.
DropPuller(c) ==
  /\ c \in open
  /\ open' = open \ {c}
  /\ canaries' = canaries \cup {c}
  /\ current' = [current EXCEPT ![c] = <<>>]
  /\ UNCHANGED <<producer, memory, slab, pushed, wire, merge, to_local, bound, pulled>>

-----------------------------------------------------------------------------
Init ==
  /\ producer \in Producer
  /\ memory = [a \in 1 .. Allocations |->
                 IF a = 1 THEN [k \in 1 .. 2 ^ InitShift |-> Blank] ELSE <<>>]
  /\ slab = [buffer |-> Slice(1, 0, 2 ^ InitShift), in_progress |-> <<>>, stash |-> <<>>,
             shift |-> InitShift, valid |-> 0]
  /\ pushed = <<>> /\ wire = <<>> /\ merge = <<>>
  /\ to_local = [c \in Channel |-> None]
  /\ current = [c \in Channel |-> <<>>]
  /\ bound = 0 /\ canaries = {} /\ open = {}
  /\ pulled = [c \in Channel |-> <<>>]

Next ==
  \/ \E c \in Channel, len \in Lengths : Push(c, len) \/ Arrive(c, len)
  \/ Read \/ Receive
  \/ \E c \in Channel : Allocate(c) \/ Pull(c) \/ DropPuller(c)

Spec == Init /\ [][Next]_vars

-----------------------------------------------------------------------------
\* The cells of the n-th message from the k-th on.
CellsFrom(n, k) ==
  LET all == Cells(n, pushed[n][1], pushed[n][2]) IN SubSeq(all, k, Len(all))

\* No buffer is written again while someone may read it: a slice on the queue shows
\* whole messages, and one a worker holds the body of one message, as it was pushed.
SlicesIntact ==
  /\ \A b \in ToSet(merge) :
       \E m, n \in 1 .. Len(pushed) :
         Shown(b) = FlattenSeq([k \in 1 .. n - m + 1 |-> CellsFrom(m + k - 1, 1)])
  /\ \A b \in Held : \E n \in 1 .. Len(pushed) : Shown(b) = CellsFrom(n, 2)

\* The numbers of the messages for a channel that some cells begin.
Numbers(cells, c) ==
  LET first == SelectSeq(cells, LAMBDA x : x[2] = c /\ x[4] = 1)
  IN  [k \in 1 .. Len(first) |-> first[k][1]]

\* For a channel whose puller is there, or is to come, every message that was pushed is
\* pulled, or waits for it, once and in its order, through merging, cutting, copying to
\* new buffers and arrival before the channel is allocated.
ChannelsRouted ==
  \A c \in Channel :
    c \in open \/ bound < c =>
      pulled[c]
        \o (IF to_local[c] = None THEN <<>>
            ELSE [k \in 1 .. Len(to_local[c]) |-> Shown(to_local[c][k])[1][1]])
        \o Numbers(FlattenSeq([k \in 1 .. Len(merge) |-> Shown(merge[k])]), c)
        \o Numbers(Shown([slab.buffer EXCEPT !.len = slab.valid]) \o wire, c)
      = SelectSeq([n \in 1 .. Len(pushed) |-> n], LAMBDA n : pushed[n][1] = c)

=============================================================================
