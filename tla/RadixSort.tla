------------------------------- MODULE RadixSort -------------------------------
(***************************************************************************)
(* The radix sorters of src/sort: from the least significant byte (lsb.rs, *)
(* lsb_swc.rs) and from the most significant one (msb.rs, msb_swc.rs),     *)
(* each also with a staging buffer of a cache line for every byte          *)
(* (swc_buffer.rs), over lists of batches (batched_vec.rs) whose memory    *)
(* comes from a stash of buffers used before (stash.rs).                   *)
(*                                                                         *)
(* Elements are pairs <<key, n>> where n counts the pushes.  A buffer is a *)
(* record of its capacity and its items; a stashed one has no items.       *)
(***************************************************************************)
EXTENDS Integers, Sequences, SequencesExt, FiniteSetsExt

CONSTANTS
  Kinds,            \* a subset of {"lsb", "lsb_swc", "msb", "msb_swc"}
  Radix,            \* how many values a byte has: 256
  KeyBytes,         \* Unsigned::bytes
  Key,              \* the keys pushed, of that many bytes
  DefaultCapacity,  \* of the buffers the stash allocates: some cache lines
  Line,             \* per_cache_line
  BatchCapacities,  \* [Kinds -> the capacities of the buffers that users hand over]
  MaxElements       \* [Kinds -> bound on the elements of all sessions of a sorter]

Byte == 0 .. Radix - 1
Done == Radix       \* the index of the list `done' beside those of the bytes

VARIABLES
  kind,
  phase,    \* "push", "lsb", "msb", "finished"
  level,    \* the byte by which an LSB sorter has shuffled
  sorter,   \* [tail: [Byte \cup {Done} -> buffer], batches: [... -> sequence of buffers],
            \*  staged: [Byte -> sequence of elements], stash: sequence of capacities]
  work,     \* the stack of pairs <<depth, sequence of buffers>>
  target,   \* sequence of buffers
  given,    \* sequence of the elements pushed in this session
  earlier   \* how many elements the sorter has sorted in earlier sessions

vars == <<kind, phase, level, sorter, work, target, given, earlier>>

-----------------------------------------------------------------------------
(* Buffers *)

Empty(cap) == [cap |-> cap, items |-> <<>>]
Combined == kind \in {"lsb_swc", "msb_swc"}

\* Stash::get and give.
FromStash(s) == IF s.stash = <<>> THEN Empty(DefaultCapacity) ELSE Empty(Last(s.stash))
Taken(s) == [s EXCEPT !.stash = IF @ = <<>> THEN @ ELSE Front(@)]
Given(s, b) == [s EXCEPT !.stash = Append(@, b.cap)]

\* BatchedVecRef::reserve: a full tail becomes a batch.
Reserved(s, i) ==
  IF Len(s.tail[i].items) # s.tail[i].cap THEN s
  ELSE [Taken(s) EXCEPT !.tail[i] = FromStash(s),
                        !.batches[i] = IF s.tail[i].items = <<>> THEN @ ELSE Append(@, s.tail[i])]

MutantAppended(s, i, items) == [s EXCEPT !.tail[i].items = @ \o items]

\* push, and push_all of a staged line.
Appended(s, i, items) == [Reserved(s, i) EXCEPT !.tail[i].items = @ \o items]

\* push_vec: the tail is filled, and what remains is the new tail.
VecPushed(s, i, b) ==
  LET room == s.tail[i].cap - Len(s.tail[i].items)
      n    == Min({room, Len(b.items)})
      full == [s EXCEPT !.tail[i].items = @ \o SubSeq(b.items, 1, n)]
      rest == [b EXCEPT !.items = SubSeq(@, n + 1, Len(@))]
  IN  IF rest.items = <<>> THEN Given(full, b)
      ELSE [full EXCEPT !.tail[i] = rest,
                        !.batches[i] = IF full.tail[i].items = <<>> THEN @
                                       ELSE Append(@, full.tail[i])]

\* finish, finish_into: the batches in order, and what is left behind.
Batches(s, i) == s.batches[i] \o (IF s.tail[i].items = <<>> THEN <<>> ELSE <<s.tail[i]>>)
Emptied(s, i) == [s EXCEPT !.batches[i] = <<>>,
                           !.tail[i] = IF @.items = <<>> THEN @ ELSE Empty(0)]

\* SWCBuffer::drain_into.
Drained(s, i) ==
  IF s.staged[i] = <<>> THEN s ELSE [Appended(s, i, s.staged[i]) EXCEPT !.staged[i] = <<>>]

-----------------------------------------------------------------------------
(* Pushing by a byte of the key *)

Digit(e, depth) == (e[1] \div Radix ^ depth) % Radix

\* An element goes to the bucket of its byte, with write combining through the line
\* staged for it, which is drained when it is full.
Put(s, e, depth) ==
  LET i == Digit(e, depth)
      t == IF Len(s.staged[i]) = Line THEN Drained(s, i) ELSE s
  IN  IF Combined THEN [t EXCEPT !.staged[i] = Append(@, e)] ELSE Appended(s, i, <<e>>)

\* push_batch: every element, and the buffer is stashed.
BatchPut(s, b, depth) == Given(FoldLeft(LAMBDA t, e : Put(t, e, depth), s, b.items), b)

FirstDepth == IF kind \in {"lsb", "lsb_swc"} THEN 0 ELSE KeyBytes - 1

Numbered(keys) == [k \in DOMAIN keys |-> <<keys[k], Len(given) + k>>]

Push(key) ==
  /\ phase = "push" /\ Len(given) < MaxElements[kind] - earlier
  /\ sorter' = Put(sorter, <<key, Len(given) + 1>>, FirstDepth)
  /\ given' = given \o Numbered(<<key>>)
  /\ UNCHANGED <<kind, phase, level, work, target, earlier>>

\* An empty batch would only leave its buffer in the stash, as rebalance does.
PushBatch(cap, keys) ==
  /\ phase = "push"
  /\ sorter' = BatchPut(sorter, [cap |-> cap, items |-> Numbered(keys)], FirstDepth)
  /\ given' = given \o Numbered(keys)
  /\ UNCHANGED <<kind, phase, level, work, target, earlier>>

\* rebalance, with a buffer of the user's.
Rebalance(intended, cap) ==
  /\ phase = "push"
  /\ sorter' = [sorter EXCEPT !.stash = IF Len(@) > intended THEN SubSeq(@, 1, intended)
                                        ELSE IF Len(@) < intended THEN Append(@, cap) ELSE @]
  /\ UNCHANGED <<kind, phase, level, work, target, given, earlier>>

-----------------------------------------------------------------------------
(* From the least significant byte *)

\* SWCBuffer::drain_into_vec uses Vec::push, under which a buffer grows.
Grown(b) == [b EXCEPT !.cap = Max({@, Len(b.items)})]

\* Shuffler::finish_into of one byte, onto a pair of sorter and target.  What is staged
\* is copied behind the last buffer that has room, whichever byte that is of.
Collected(a, i) ==
  LET s    == Emptied(a.sorter, i)
      list == a.target \o Batches(a.sorter, i)
      n    == Len(s.staged[i])
      room == list # <<>> /\ Last(list).cap - Len(Last(list).items) >= n
      long == IF room THEN list ELSE Append(list, FromStash(s))
  IN  IF ~Combined THEN [sorter |-> s, target |-> list]
      ELSE [sorter |-> [(IF room THEN s ELSE Taken(s)) EXCEPT !.staged[i] = <<>>],
            target |-> [long EXCEPT ![Len(long)] = Grown([@ EXCEPT !.items = @ \o s.staged[i]])]]

Shuffled == FoldLeft(Collected, [sorter |-> sorter, target |-> target], [k \in 1 .. Radix |-> k - 1])

\* finish_into begins, and one turn of its loop: what was collected is pushed again by
\* the next byte.
LsbPass ==
  \/ /\ phase = "push" /\ kind \in {"lsb", "lsb_swc"}
     /\ sorter' = Shuffled.sorter /\ target' = Shuffled.target
     /\ phase' = "lsb" /\ level' = 0
     /\ UNCHANGED <<kind, work, given, earlier>>
  \/ /\ phase = "lsb" /\ level + 1 < KeyBytes
     /\ LET again == FoldLeft(LAMBDA s, b : BatchPut(s, b, level + 1), sorter, target)
            all   == FoldLeft(Collected, [sorter |-> again, target |-> <<>>],
                              [k \in 1 .. Radix |-> k - 1])
        IN  sorter' = all.sorter /\ target' = all.target
     /\ level' = level + 1
     /\ UNCHANGED <<kind, phase, work, given, earlier>>
  \/ /\ phase = "lsb" /\ level + 1 = KeyBytes
     /\ phase' = "finished"
     /\ UNCHANGED <<kind, level, sorter, work, target, given, earlier>>

-----------------------------------------------------------------------------
(* From the most significant byte *)

\* "in reverse, so that popping the stack goes in the right order."
Stacked(s, depth) ==
  FoldLeft(LAMBDA w, i : IF Batches(s, i) = <<>> THEN w ELSE Append(w, <<depth, Batches(s, i)>>),
           <<>>, [k \in 1 .. Radix |-> Radix - k])

AllDrained(s) == FoldLeft(Drained, s, [k \in 1 .. Radix |-> Radix - k])
AllEmptied(s) == FoldLeft(Emptied, s, [k \in 1 .. Radix |-> k - 1])

\* finish_into_and begins with what was pushed.
MsbFinish ==
  /\ phase = "push" /\ kind \in {"msb", "msb_swc"}
  /\ work' = Stacked(AllDrained(sorter), KeyBytes - 1)
  /\ sorter' = AllEmptied(AllDrained(sorter))
  /\ phase' = "msb"
  /\ UNCHANGED <<kind, level, target, given, earlier>>

\* sort_and, of two batches instead of what was pushed.
SortAnd(cap, keys, n) ==
  /\ phase = "push" /\ kind \in {"msb", "msb_swc"} /\ given = <<>>
  /\ n <= cap /\ Len(keys) - n <= cap
  /\ given' = Numbered(keys)
  /\ work' = <<<<KeyBytes, <<[cap |-> cap, items |-> SubSeq(given', 1, n)],
                            [cap |-> cap, items |-> SubSeq(given', n + 1, Len(keys))]>>>>>>
  /\ phase' = "msb"
  /\ UNCHANGED <<kind, level, sorter, target, earlier>>

\* The action handed on by finish_into: sort_by the key, which is stable.
Sorted(items) ==
  SetToSortSeq(ToSet(items), LAMBDA d, e : d[1] < e[1] \/ (d[1] = e[1] /\ d[2] < e[2]))

Items(list) == FlattenSeq([k \in DOMAIN list |-> list[k].items])

\* ingest, of what is on top of the stack: a single buffer is sorted as it is (with
\* write combining, when it was put on the stack); more are spread over the buckets by
\* the next byte, if there is one, and staged and sorted otherwise.
Ingest ==
  /\ phase = "msb" /\ work # <<>>
  /\ LET depth == Last(work)[1]
         list  == Last(work)[2]
         spread == AllDrained(FoldLeft(LAMBDA s, b : BatchPut(s, b, depth - 1), sorter, list))
     IN  \/ /\ Len(list) = 1
            /\ sorter' = VecPushed(sorter, Done, [list[1] EXCEPT !.items = Sorted(@)])
            /\ work' = Front(work)
         \/ /\ Len(list) > 1 /\ depth > 0
            /\ work' = Front(work) \o Stacked(spread, depth - 1)
            /\ sorter' = AllEmptied(spread)
         \/ /\ Len(list) > 1 /\ depth = 0
            /\ sorter' = FoldLeft(LAMBDA s, e : Appended(s, Done, <<e>>),
                                  FoldLeft(Given, sorter, list), Sorted(Items(list)))
            /\ work' = Front(work)
  /\ UNCHANGED <<kind, phase, level, target, given, earlier>>

Ingested ==
  /\ phase = "msb" /\ work = <<>>
  /\ target' = Batches(sorter, Done)
  /\ sorter' = Emptied(sorter, Done)
  /\ phase' = "finished"
  /\ UNCHANGED <<kind, level, work, given, earlier>>

\* The sorter is used again.
Again ==
  /\ phase = "finished" /\ given # <<>> /\ earlier + Len(given) < MaxElements[kind]
  /\ earlier' = earlier + Len(given)
  /\ phase' = "push"
  /\ given' = <<>> /\ target' = <<>>
  /\ UNCHANGED <<kind, level, sorter, work>>

-----------------------------------------------------------------------------
Init ==
  /\ kind \in Kinds
  /\ phase = "push" /\ level = 0
  /\ sorter = [tail |-> [i \in 0 .. Radix |-> Empty(0)], batches |-> [i \in 0 .. Radix |-> <<>>],
               staged |-> [i \in Byte |-> <<>>], stash |-> <<>>]
  /\ work = <<>> /\ target = <<>> /\ given = <<>>
  /\ earlier = 0

Keys(n) == UNION {[1 .. m -> Key] : m \in 1 .. Min({n, MaxElements[kind] - earlier - Len(given)})}

Next ==
  \/ \E key \in Key : Push(key)
  \/ \E cap \in BatchCapacities[kind] : \E keys \in Keys(cap) : PushBatch(cap, keys)
  \/ \E intended \in 0 .. 1, cap \in BatchCapacities[kind] : Rebalance(intended, cap)
  \/ LsbPass \/ MsbFinish \/ Ingest \/ Ingested \/ Again
  \/ \E keys \in Keys(MaxElements[kind]), cap \in BatchCapacities[kind] :
       \E n \in 1 .. Len(keys) - 1 : SortAnd(cap, keys, n)

Spec == Init /\ [][Next]_vars

-----------------------------------------------------------------------------
\* Whatever was pushed comes out once, by its key, and elements of one key in the order
\* in which they were pushed, through every shuffle, staged line and reused buffer.
SortedStable == phase = "finished" => Items(target) = Sorted(given)

\* "The reserve call already ensured we have space": no tail is written past its capacity
\* by the unchecked writes of push and push_all.  It needs buffers that can hold an
\* element, and with write combining buffers of whole lines: those of the stash's own
\* are; those of users need not be, and are kept as they come (Stash::give, rebalance).
RoomReserved ==
  \A i \in 0 .. Radix : Len(sorter.tail[i].items) <= sorter.tail[i].cap

=============================================================================
