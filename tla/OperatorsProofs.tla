--------------------------- MODULE OperatorsProofs ---------------------------
(***************************************************************************)
(* Proofs about the three parts MCOperators runs.  MutableAntichain, for   *)
(* every well-founded partial order of times, every set of deltas and      *)
(* every sequence of calls: its frontier is right and its reports add up.  *)
(* Streams, for every number of targets, epochs and records, every buffer  *)
(* capacity and whenever the program lets its worker step: no frontier     *)
(* passes a record that the input or its exchange still holds.  Sequencing,*)
(* for any workers and whatever their timers show: all are handed the      *)
(* elements in the same order, but for those that nothing tells apart.     *)
(***************************************************************************)
EXTENDS MCOperators, FiniteSetTheorems, SequenceTheorems, WellFoundedInduction, TLAPS

USE DEF Less

-----------------------------------------------------------------------------
(* MutableAntichain: facts about minimal times *)

\* Below every time of a set there is a minimal one of the set: what a frontier
\* relies on to represent all the times it stands for.
LEMMA MinimalBelow ==
  ASSUME NEW S \in SUBSET Time, NEW t \in S
  PROVE  \E m \in Minimal(S) : Leq(m, t)
<1> DEFINE below == {s \in S : Leq(s, t)}
<1>1. below \in SUBSET Time /\ below # {}
  BY LeqPartialOrder
<1>2. PICK m \in below : \A s \in below : Leq(s, m) => s = m
  BY <1>1, LeqWellFounded
<1>3. ASSUME NEW s \in S, Leq(s, m)
      PROVE  s = m
  BY <1>2, <1>3, LeqPartialOrder
<1>4. QED
  BY <1>2, <1>3 DEF Minimal

\* Because Ord extends the partial order, the single sorted scan of `rebuild'
\* yields the minimal positive times.
LEMMA ScanIsMinimal ==
  ASSUME NEW counts \in [Time -> Int]
  PROVE  ScanFrontier(counts) = Minimal({t \in Time : counts[t] > 0})
BY OrdExtendsLeq DEF ScanFrontier, Minimal

\* The members of a set of minimal times are pairwise incomparable.
LEMMA MinimalIncomparable ==
  ASSUME NEW S \in SUBSET Time, NEW s \in Minimal(S), NEW t \in Minimal(S),
         Leq(s, t)
  PROVE  s = t
BY DEF Minimal

-----------------------------------------------------------------------------
(* The inductive invariant *)

\* Every cached member is either still positive or has an unexamined entry, and
\* every positive time is covered by the cache or was raised by an unexamined
\* entry: what lets update_iter decide from the dirty suffix alone.
Supported == \A f \in frontier : count[f] > 0 \/ \E e \in dirty : e[1] = f

Covered ==
  \A t \in Positive :
    \/ \E f \in frontier : Leq(f, t)
    \/ \E e \in dirty : e[1] = t /\ e[2] >= 0

Incomparable == \A f, g \in frontier : Leq(f, g) => f = g

IInv ==
  /\ TypeOK
  /\ frontier \subseteq listed
  /\ Supported
  /\ Covered
  /\ Incomparable
  /\ reported = Indicator(frontier)

\* When nothing is dirty, the invariant pins the cache down.
LEMMA CleanIsMinimal ==
  ASSUME NEW counts \in [Time -> Int], NEW F \in SUBSET Time,
         \A f \in F : counts[f] > 0,
         \A t \in Time : counts[t] > 0 => \E f \in F : Leq(f, t),
         \A f, g \in F : Leq(f, g) => f = g
  PROVE  F = Minimal({t \in Time : counts[t] > 0})
<1> DEFINE P == {t \in Time : counts[t] > 0}
<1>1. ASSUME NEW f \in F, NEW s \in P, Leq(s, f)
      PROVE  s = f
  <2>1. PICK g \in F : Leq(g, s)
    OBVIOUS
  <2>2. Leq(g, f)
    BY <1>1, <2>1, LeqPartialOrder
  <2>3. QED
    BY <1>1, <2>1, <2>2, LeqPartialOrder
<1>2. F \subseteq Minimal(P)
  BY <1>1 DEF Minimal
<1>3. ASSUME NEW m \in Minimal(P)
      PROVE  m \in F
  <2>1. PICK f \in F : Leq(f, m)
    BY DEF Minimal
  <2>2. QED
    BY <2>1 DEF Minimal
<1>4. QED
  BY <1>2, <1>3

-----------------------------------------------------------------------------
(* What one call of update_iter pushes *)

CountsAfter(S, batch) ==
  [t \in Time |-> IF t \in S THEN count[t] + batch[t] ELSE count[t]]

SuffixAfter(S, batch) == dirty \cup {<<t, batch[t]>> : t \in S}

\* A batch leaves the state with the counts and the dirty suffix for which the
\* invariant's conjuncts still hold, before the suffix is examined.
LEMMA PushKeepsSupport ==
  ASSUME IInv,
         NEW S \in BatchTimes,
         NEW batch \in [S -> Delta]
  PROVE  /\ \A f \in frontier :
               \/ CountsAfter(S, batch)[f] > 0
               \/ \E e \in SuffixAfter(S, batch) : e[1] = f
         /\ \A t \in Time : CountsAfter(S, batch)[t] > 0 =>
               \/ \E f \in frontier : Leq(f, t)
               \/ \E e \in SuffixAfter(S, batch) : e[1] = t /\ e[2] >= 0
<1> DEFINE counts == CountsAfter(S, batch)
           suffix == SuffixAfter(S, batch)
<1> USE DEF CountsAfter, SuffixAfter
<1>1. S \subseteq Time /\ \A t \in S : batch[t] \in Int
  BY InputsAssumption
<1>2. ASSUME NEW f \in frontier
      PROVE  counts[f] > 0 \/ \E e \in suffix : e[1] = f
  <2>1. CASE f \in S
    <3>1. <<f, batch[f]>> \in suffix
      BY <2>1
    <3>2. QED
      BY <3>1
  <2>2. CASE f \notin S
    BY <2>2 DEF IInv, Supported, TypeOK
  <2>3. QED
    BY <2>1, <2>2
<1>3. ASSUME NEW t \in Time, counts[t] > 0
      PROVE  \/ \E f \in frontier : Leq(f, t)
             \/ \E e \in suffix : e[1] = t /\ e[2] >= 0
  <2>1. CASE t \in S /\ batch[t] >= 0
    <3>1. <<t, batch[t]>> \in suffix
      BY <2>1
    <3>2. QED
      BY <2>1, <3>1
  <2>2. CASE ~(t \in S /\ batch[t] >= 0)
    <3>1. count[t] > 0
      BY <1>1, <1>3, <2>2 DEF IInv, TypeOK
    <3>2. QED
      BY <3>1 DEF IInv, Covered, Positive
  <2>3. QED
    BY <2>1, <2>2
<1>4. QED
  BY <1>2, <1>3

-----------------------------------------------------------------------------
(* The steps preserve the invariant *)

\* `new' and `new_bottom' establish the invariant.
LEMMA InitIInv == Init => IInv
<1> SUFFICES ASSUME Init
             PROVE  IInv
  OBVIOUS
<1>1. PICK bottoms \in {{}} \cup {{t} : t \in Time} :
        /\ count = Indicator(bottoms)
        /\ listed = bottoms
        /\ dirty = {}
        /\ frontier = bottoms
        /\ reported = Indicator(bottoms)
  BY DEF Init
<1>3. /\ bottoms \subseteq Time
      /\ \A f, g \in bottoms : f = g
  <2>1. bottoms = {} \/ \E t \in Time : bottoms = {t}
    OBVIOUS
  <2>2. QED
    BY <2>1
<1>6. /\ count = Indicator(bottoms)
      /\ reported = Indicator(bottoms)
  BY <1>1
<1>2. TypeOK
  BY <1>1, <1>3 DEF TypeOK, Indicator
<1>4. \A t \in Time : count[t] > 0 <=> t \in bottoms
  <2> SUFFICES ASSUME NEW t \in Time
               PROVE  count[t] > 0 <=> t \in bottoms
    OBVIOUS
  <2>1. count[t] = IF t \in bottoms THEN 1 ELSE 0
    BY <1>6 DEF Indicator
  <2>2. QED
    BY <2>1
<1>5. QED
  BY <1>1, <1>2, <1>3, <1>4, <1>6, LeqPartialOrder
  DEF IInv, Supported, Covered, Incomparable, Positive

\* update_dirty preserves it: the entry it pushes is itself the evidence the other
\* conjuncts ask for.
LEMMA UpdateDirtyIInv ==
  ASSUME IInv, NEW time \in Time, NEW delta \in Delta, UpdateDirty(time, delta)
  PROVE  IInv'
<1>1. delta \in Int
  BY InputsAssumption
<1>2. TypeOK'
  BY <1>1 DEF IInv, TypeOK, UpdateDirty
<1>3. <<time, delta>> \in dirty' /\ dirty \subseteq dirty'
  BY DEF UpdateDirty
<1>4. \A t \in Time : t # time => count'[t] = count[t]
  BY DEF UpdateDirty, IInv, TypeOK
<1>5. Supported'
  <2> SUFFICES ASSUME NEW f \in frontier
               PROVE  count'[f] > 0 \/ \E e \in dirty' : e[1] = f
    BY DEF Supported, UpdateDirty
  <2>1. CASE f = time
    BY <2>1, <1>3
  <2>2. CASE f # time
    BY <2>2, <1>3, <1>4 DEF IInv, Supported, TypeOK
  <2>3. QED
    BY <2>1, <2>2
<1>6. Covered'
  <2> SUFFICES ASSUME NEW t \in Time, count'[t] > 0
               PROVE  \/ \E f \in frontier : Leq(f, t)
                      \/ \E e \in dirty' : e[1] = t /\ e[2] >= 0
    BY DEF Covered, Positive, UpdateDirty
  <2>1. CASE t = time /\ delta >= 0
    BY <2>1, <1>3
  <2>2. CASE ~(t = time /\ delta >= 0)
    <3>1. count[t] > 0
      BY <1>1, <2>2 DEF UpdateDirty, IInv, TypeOK
    <3>2. QED
      BY <3>1, <1>3 DEF IInv, Covered, Positive
  <2>3. QED
    BY <2>1, <2>2
<1>7. QED
  BY <1>2, <1>5, <1>6 DEF IInv, UpdateDirty, Incomparable, Indicator

\* An unexamined entry that demands no rebuild is at no member of the frontier,
\* and an entry that may have raised a time is beyond the frontier.
LEMMA NoRebuildFacts ==
  ASSUME Incomparable, NEW time, NEW delta \in Int, ~DemandsRebuild(time, delta),
         \A f \in frontier : Leq(f, f)
  PROVE  /\ time \notin frontier
         /\ delta >= 0 => \E f \in frontier : Leq(f, time)
<1>1. ASSUME time \in frontier
      PROVE  FALSE
  <2>1. \E f \in frontier : Leq(f, time)
    BY <1>1
  <2>2. PICK f \in frontier : Less(f, time)
    BY <2>1 DEF DemandsRebuild
  <2>3. QED
    BY <1>1, <2>2 DEF Incomparable
<1>2. QED
  BY <1>1 DEF DemandsRebuild

\* update_iter preserves it, whether it rebuilds the cache or skips the rebuild.
LEMMA UpdateIterIInv ==
  ASSUME IInv, NEW S \in BatchTimes, NEW batch \in [S -> Delta], UpdateIter(batch)
  PROVE  IInv'
<1> DEFINE counts == CountsAfter(S, batch)
           suffix == SuffixAfter(S, batch)
           rebuild_required == \E e \in suffix : DemandsRebuild(e[1], e[2])
<1>1. S \subseteq Time /\ \A t \in S : batch[t] \in Delta /\ batch[t] \in Int
  BY InputsAssumption
<1>2. counts \in [Time -> Int]
  BY <1>1 DEF CountsAfter, IInv, TypeOK
<1>3. /\ count' = counts
      /\ dirty' = {}
      /\ \/ rebuild_required /\ Rebuild(counts)
         \/ /\ ~rebuild_required
            /\ listed' = listed \cup S
            /\ UNCHANGED <<frontier, reported>>
  BY DEF UpdateIter, CountsAfter, SuffixAfter
<1>4. suffix \subseteq Time \X (Delta \cup {0})
  BY <1>1 DEF SuffixAfter, IInv, TypeOK
<1>5. /\ \A f \in frontier : counts[f] > 0 \/ \E e \in suffix : e[1] = f
      /\ \A t \in Time : counts[t] > 0 =>
            \/ \E f \in frontier : Leq(f, t)
            \/ \E e \in suffix : e[1] = t /\ e[2] >= 0
  BY PushKeepsSupport
<1> HIDE DEF counts, suffix
<1>6. CASE rebuild_required /\ Rebuild(counts)
  <2>1. frontier' = Minimal({t \in Time : counts[t] > 0})
    BY <1>2, <1>6, ScanIsMinimal DEF Rebuild
  <2>2. frontier' \subseteq listed'
    BY <1>2, <1>6, <2>1 DEF Rebuild, Minimal
  <2>3. Supported'
    BY <1>3, <2>1 DEF Supported, Minimal
  <2>4. Covered'
    <3> SUFFICES ASSUME NEW t \in Time, counts[t] > 0
                 PROVE  \E f \in frontier' : Leq(f, t)
      BY <1>3 DEF Covered, Positive
    <3>1. QED
      BY <2>1, MinimalBelow
  <2>5. Incomparable'
    BY <2>1, MinimalIncomparable DEF Incomparable
  <2>6. reported' = Indicator(frontier')
    BY <1>6 DEF Rebuild, IInv, Indicator
  <2>7. TypeOK'
    BY <1>2, <1>3, <1>6, <2>1, <2>6 DEF Rebuild, Minimal, TypeOK, Indicator
  <2>8. QED
    BY <2>2, <2>3, <2>4, <2>5, <2>6, <2>7 DEF IInv, Indicator
<1>7. CASE /\ ~rebuild_required
           /\ listed' = listed \cup S
           /\ UNCHANGED <<frontier, reported>>
  <2>1. ASSUME NEW e \in suffix
        PROVE  /\ e[1] \notin frontier
               /\ e[2] >= 0 => \E f \in frontier : Leq(f, e[1])
    <3>1. ~DemandsRebuild(e[1], e[2])
      BY <1>7
    <3>4. e[2] \in Int
      <4>1. PICK t \in Time, d \in Delta \cup {0} : e = <<t, d>>
        BY <1>4
      <4>2. QED
        BY <4>1, InputsAssumption
    <3>2. Incomparable /\ \A f \in frontier : Leq(f, f)
      BY LeqPartialOrder DEF IInv, TypeOK
    <3>3. QED
      BY <3>1, <3>2, <3>4, NoRebuildFacts
  <2>2. \A f \in frontier : counts[f] > 0
    BY <1>5, <2>1
  <2>3. \A t \in Time : counts[t] > 0 => \E f \in frontier : Leq(f, t)
    BY <1>5, <2>1
  <2>4. Supported' /\ Covered'
    BY <1>3, <1>7, <2>2, <2>3 DEF Supported, Covered, Positive
  <2>5. TypeOK'
    BY <1>1, <1>2, <1>3, <1>7 DEF TypeOK, IInv
  <2>6. QED
    BY <1>7, <2>4, <2>5 DEF IInv, Incomparable, Indicator
<1>8. QED
  BY <1>3, <1>6, <1>7

\* `empty' preserves it, because it makes every entry, and so every member of the
\* cache, dirty.
LEMMA EmptyIInv == IInv /\ Empty => IInv'
<1> SUFFICES ASSUME IInv, Empty
             PROVE  IInv'
  OBVIOUS
<1>1. TypeOK'
  BY DEF IInv, TypeOK, Empty
<1>2. \A f \in frontier : <<f, 0>> \in dirty'
  BY DEF IInv, Empty
<1>3. Supported'
  BY <1>2 DEF Supported, Empty
<1>4. Covered'
  BY DEF Covered, Positive, Empty
<1>5. QED
  BY <1>1, <1>3, <1>4 DEF IInv, Empty, Incomparable, Indicator

\* `clear' re-establishes it.
LEMMA ClearIInv == Clear => IInv'
BY DEF Clear, IInv, TypeOK, Supported, Covered, Incomparable, Positive, Indicator

\* So does every call, and a stutter.
LEMMA NextIInv == IInv /\ [Next]_vars => IInv'
<1> SUFFICES ASSUME IInv, [Next]_vars
             PROVE  IInv'
  OBVIOUS
<1>1. CASE \E time \in Time, delta \in Delta : UpdateDirty(time, delta)
  BY <1>1, UpdateDirtyIInv
<1>2. CASE \E batch \in Batch : UpdateIter(batch)
  BY <1>2, UpdateIterIInv DEF Batch
<1>3. CASE Empty
  BY <1>3, EmptyIInv
<1>4. CASE Clear
  BY <1>4, ClearIInv
<1>5. CASE UNCHANGED vars
  BY <1>5 DEF vars, IInv, TypeOK, Supported, Covered, Incomparable, Positive,
              Indicator
<1>6. QED
  BY <1>1, <1>2, <1>3, <1>4, <1>5 DEF Next

-----------------------------------------------------------------------------
(* MutableAntichain: the theorems *)

\* The invariant holds after every sequence of calls to a MutableAntichain.
THEOREM Invariance == Spec => []IInv
<1>1. QED
  BY InitIInv, NextIInv, PTL DEF Spec

\* The sums of a MutableAntichain stay integers over Time and its cache a set of
\* times, whatever sequence of calls is made.
THEOREM TypeCorrect == Spec => []TypeOK
<1>1. IInv => TypeOK
  BY DEF IInv
<1>2. QED
  BY <1>1, Invariance, PTL

\* update_iter's shortcut is right: whenever nothing is dirty the cached frontier
\* is the set of minimal times of positive count.
THEOREM FrontierCorrect == Spec => []FrontierIsMinimalPositive
<1>1. IInv => FrontierIsMinimalPositive
  <2> SUFFICES ASSUME IInv, dirty = {}
               PROVE  frontier = Minimal(Positive)
    BY DEF FrontierIsMinimalPositive
  <2>1. count \in [Time -> Int] /\ frontier \in SUBSET Time
    BY DEF IInv, TypeOK
  <2>2. \A f \in frontier : count[f] > 0
    BY DEF IInv, Supported
  <2>3. \A t \in Time : count[t] > 0 => \E f \in frontier : Leq(f, t)
    BY DEF IInv, Covered, Positive
  <2>4. \A f, g \in frontier : Leq(f, g) => f = g
    BY DEF IInv, Incomparable
  <2>5. QED
    BY <2>1, <2>2, <2>3, <2>4, CleanIsMinimal DEF Positive
<1>2. QED
  BY <1>1, Invariance, PTL

\* A caller that only adds up update_iter's changes knows the frontier.
THEOREM ReportsCorrect == Spec => []ReportsSumToFrontier
<1>1. IInv /\ FrontierIsMinimalPositive => ReportsSumToFrontier
  BY DEF IInv, FrontierIsMinimalPositive, ReportsSumToFrontier
<1>2. QED
  BY <1>1, Invariance, FrontierCorrect, PTL

-----------------------------------------------------------------------------
(* Streams: the inductive invariant.  What the counts of a dataflow say of its *)
(* records: the number on their way at a time is what was counted produced and   *)
(* not yet consumed, whether or not the input's operator has reported it.        *)
\* The records sent so far if there are n of them, and those no longer in the input's
\* buffer.
Records(n) == (1 .. n) \X Target
Given == Records(sm_sent) \ sm_buffer

\* Those of the records R that the path p holds at time t, in the exchange or in a
\* channel.
OnPath(p, R, t) ==
  {r \in R : \E w \in Target :
     \/ t \in p.current /\ r \in p.held[w]
     \/ \E k \in DOMAIN p.channel[w] : p.channel[w][k][1] = t /\ r \in p.channel[w][k][2]}

PathType(R) ==
  [produced : [SM!Epoch -> Nat], current : SUBSET SM!Epoch,
   held : [Target -> SUBSET R], channel : [Target -> Seq(SM!Epoch \X SUBSET R)]]

\* The exchange holds records of one time only; every record is with its target, and
\* once; no message is empty.
GoodPath(p, R) ==
  /\ p \in PathType(R)
  /\ \A s, t \in p.current : s = t
  /\ \A w \in Target : p.held[w] # {} => p.current # {}
  /\ \A w \in Target : \A r \in p.held[w] : r[2] = w
  /\ \A w \in Target : \A k \in DOMAIN p.channel[w] : \A r \in p.channel[w][k][2] :
       r[2] = w /\ r \notin p.held[w]
  /\ \A w \in Target : \A k, l \in DOMAIN p.channel[w] :
       k # l => p.channel[w][k][2] \cap p.channel[w][l][2] = {}
  /\ \A w \in Target : \A k \in DOMAIN p.channel[w] : p.channel[w][k][2] # {}

\* For every time, what is reported and what is not yet reported is what is on its way.
Sound(p, R, m) ==
  /\ GoodPath(p, R)
  /\ \A t \in SM!Epoch : m[t] + p.produced[t] = Cardinality(OnPath(p, R, t))

NoPath == [produced |-> SM!Zero, current |-> {}, held |-> [w \in Target |-> {}],
          channel |-> [w \in Target |-> <<>>]]

StreamsType ==
  /\ sm_now \in SM!Epoch
  /\ sm_held \in [SM!Epoch -> Nat]
  /\ sm_session \in SUBSET SM!Epoch
  /\ \A s, t \in sm_session : s = t
  /\ sm_attached \in BOOLEAN
  /\ sm_sent \in Nat
  /\ sm_buffer \in SUBSET Records(sm_sent)
  /\ sm_internal \in [SM!Epoch -> Int]
  /\ sm_caps \in [SM!Epoch -> Int]
  /\ sm_messages \in [SM!Epoch -> Int]

\* A Handle has at most the capability for the time it is at, and an unordered input
\* is built within a dataflow.
Handles ==
  /\ sm_kind = "handle" =>
       /\ sm_session = {}
       /\ \A t \in SM!Epoch : sm_held[t] = 0 \/ (t = sm_now /\ sm_held[t] = 1)
  /\ sm_kind # "handle" => sm_attached

\* Before a Handle is registered nothing it is given goes anywhere.
Detached ==
  ~sm_attached => /\ sm_path = NoPath
                  /\ sm_caps = SM!Zero /\ sm_internal = SM!Zero /\ sm_messages = SM!Zero

\* The capabilities reported and unreported are those the program and its session hold.
CapsCounted ==
  sm_attached => \A t \in SM!Epoch :
     sm_caps[t] + sm_internal[t] = sm_held[t] + (IF t \in sm_session THEN 1 ELSE 0)

\* What must keep frontiers from passing t until the input's operator has reported it;
\* and a reported capability always does, for it is only ever reported as given up in
\* the report that has what was produced under it.
HeldBack(t) == sm_held[t] > 0 \/ t \in sm_session \/ sm_path.produced[t] > 0
Covers ==
  sm_attached => \A t \in SM!Epoch : HeldBack(t) => \E s \in 0 .. t : sm_caps[s] > 0

SInv ==
  /\ StreamsType /\ Handles /\ Detached /\ CapsCounted /\ Covers
  /\ Sound(sm_path, Given, sm_messages)

-----------------------------------------------------------------------------
(* Streams: finite sets of records, and sums *)

LEMMA EpochNat == SM!Epoch \subseteq Nat /\ 0 \in SM!Epoch /\ \A t \in SM!Epoch : 0 .. t \subseteq SM!Epoch
BY StreamsAssumption DEF SM!Epoch

LEMMA RecordsFinite ==
  ASSUME NEW n \in Nat
  PROVE  IsFiniteSet(Records(n))
<1>1. IsFiniteSet(1 .. n)
  BY FS_Interval
<1>2. IsFiniteSet(Target)
  BY StreamsAssumption
<1> QED
  BY <1>1, <1>2, FS_Product DEF Records

\* A finite set has a subset of every smaller size.
LEMMA SmallerSubset ==
  ASSUME NEW S, IsFiniteSet(S), NEW m \in Nat, m <= Cardinality(S)
  PROVE  \E T \in SUBSET S : Cardinality(T) = m
<1> DEFINE n == Cardinality(S)
<1>1. n \in Nat /\ ExistsBijection(1 .. n, S)
  BY FS_CardinalityType
<1>2. PICK f \in Bijection(1 .. n, S) : TRUE
  BY <1>1 DEF ExistsBijection
<1>3. f \in [1 .. n -> S] /\ \A a, b \in 1 .. n : f[a] = f[b] => a = b
  BY <1>2 DEF Bijection, Injection, IsInjective
<1> DEFINE T == {f[i] : i \in 1 .. m}
           g == [i \in 1 .. m |-> f[i]]
<1>4. 1 .. m \subseteq 1 .. n
  BY <1>1
<1>5. T \in SUBSET S
  BY <1>3, <1>4
<1>6. g \in Bijection(1 .. m, T)
  <2>1. g \in [1 .. m -> T]
    OBVIOUS
  <2>2. \A a, b \in 1 .. m : g[a] = g[b] => a = b
    BY <1>3, <1>4
  <2>3. \A y \in T : \E a \in 1 .. m : g[a] = y
    OBVIOUS
  <2> QED
    BY <2>1, <2>2, <2>3 DEF Bijection, Injection, Surjection, IsInjective
<1>7. Cardinality(T) = m
  <2>1. IsFiniteSet(1 .. m) /\ Cardinality(1 .. m) = m
    BY FS_Interval
  <2> QED
    BY <1>6, <2>1, FS_Bijection DEF ExistsBijection
<1> QED
  BY <1>5, <1>7

LEMMA SameCardinality == \A S : SM!Cardinality(S) = Cardinality(S)
BY DEF SM!Cardinality, Cardinality

\* So the records that fill whole buffers are records there are.
LEMMA SendableSubset ==
  ASSUME NEW S, IsFiniteSet(S)
  PROVE  SM!Sendable(S) \subseteq S
<1> DEFINE n == Cardinality(S)
<1>1. n \in Nat
  BY FS_CardinalityType
<1>2. n % Capacity \in 0 .. n
  BY <1>1, StreamsAssumption, SMT
<1>3. \E T \in SUBSET S : Cardinality(T) = n - (n % Capacity)
  BY <1>1, <1>2, SmallerSubset
<1>4. SM!Sendable(S) = CHOOSE T \in SUBSET S : Cardinality(T) = n - (n % Capacity)
  BY SameCardinality, Zenon DEF SM!Sendable
<1> HIDE DEF n
<1> QED
  BY <1>3, <1>4, Zenon

-----------------------------------------------------------------------------
(* Streams: what the pushers do to the records on their way *)

\* Records that are elsewhere make no difference to a path.
LEMMA PathWider ==
  ASSUME NEW p, NEW R, NEW S, GoodPath(p, R), R \subseteq S
  PROVE  /\ GoodPath(p, S)
         /\ \A t : OnPath(p, S, t) = OnPath(p, R, t)
<1>1. p \in PathType(R)
  BY DEF GoodPath
<1>2. p \in PathType(S)
  <2>1. \A w \in Target : p.held[w] \in SUBSET S /\ p.channel[w] \in Seq(SM!Epoch \X SUBSET R)
    BY <1>1 DEF PathType
  <2>2. \A w \in Target : p.channel[w] \in Seq(SM!Epoch \X SUBSET S)
    <3>1. SUBSET R \subseteq SUBSET S
      OBVIOUS
    <3>2. SM!Epoch \X SUBSET R \subseteq SM!Epoch \X SUBSET S
      BY <3>1
    <3> QED
      BY <2>1, <3>2
  <2> QED
    BY <1>1, <2>1, <2>2 DEF PathType
<1>3. GoodPath(p, S)
  BY <1>2 DEF GoodPath
<1>4. ASSUME NEW w \in Target
      PROVE  /\ p.held[w] \subseteq R
             /\ \A k \in DOMAIN p.channel[w] : p.channel[w][k][2] \subseteq R
  BY <1>1 DEF PathType
<1>5. ASSUME NEW t
      PROVE  OnPath(p, S, t) = OnPath(p, R, t)
  BY <1>4 DEF OnPath
<1> QED
  BY <1>3, <1>5

\* Exchange::flush moves records from the exchange to the channels, at their time.
LEMMA FlushKeeps ==
  ASSUME NEW p, NEW R, GoodPath(p, R), NEW going \in [Target -> SUBSET R],
         \A w \in Target : going[w] \subseteq p.held[w],
         NEW q, q = SM!ExchangeFlush(p, going)
  PROVE  /\ GoodPath(q, R)
         /\ q.produced = p.produced /\ q.current = p.current
         /\ \A w \in Target : q.held[w] = p.held[w] \ going[w]
         /\ \A t \in SM!Epoch : OnPath(q, R, t) = OnPath(p, R, t)
<1> DEFINE now == CHOOSE t \in p.current : TRUE
<1>1. p \in PathType(R)
  BY DEF GoodPath
<1>2. /\ q = [produced |-> p.produced, current |-> p.current,
              held |-> [w \in Target |-> p.held[w] \ going[w]],
              channel |-> [w \in Target |->
                 IF going[w] = {} THEN p.channel[w] ELSE Append(p.channel[w], <<now, going[w]>>)]]
  <2>1. q = [p EXCEPT !.channel = [w \in Target |->
                          IF going[w] = {} THEN p.channel[w]
                          ELSE Append(p.channel[w], <<now, going[w]>>)],
                       !.held = [w \in Target |-> p.held[w] \ going[w]]]
    BY DEF SM!ExchangeFlush
  <2> HIDE DEF now
  <2> QED
    BY <1>1, <2>1 DEF PathType
<1>3. ASSUME NEW w \in Target, going[w] # {}
      PROVE  now \in SM!Epoch /\ \A t \in p.current : t = now
  BY <1>1, <1>3 DEF GoodPath, PathType
<1> HIDE DEF now
<1>4. ASSUME NEW w \in Target
      PROVE  /\ p.held[w] \subseteq R
             /\ p.channel[w] \in Seq(SM!Epoch \X SUBSET R)
             /\ q.channel[w] \in Seq(SM!Epoch \X SUBSET R)
             /\ q.held[w] = p.held[w] \ going[w]
             /\ going[w] = {} => q.channel[w] = p.channel[w]
             /\ going[w] # {} => q.channel[w] = Append(p.channel[w], <<now, going[w]>>)
  <2>1. p.held[w] \subseteq R /\ p.channel[w] \in Seq(SM!Epoch \X SUBSET R)
    BY <1>1 DEF PathType
  <2>2. /\ q.held[w] = p.held[w] \ going[w]
        /\ going[w] = {} => q.channel[w] = p.channel[w]
        /\ going[w] # {} => q.channel[w] = Append(p.channel[w], <<now, going[w]>>)
    BY <1>2
  <2>3. going[w] # {} => <<now, going[w]>> \in SM!Epoch \X SUBSET R
    BY <1>3
  <2> DEFINE T == SM!Epoch \X SUBSET R
             m == <<now, going[w]>>
  <2>4. p.channel[w] \in Seq(T) /\ (going[w] # {} => m \in T)
    BY <2>1, <2>3
  <2> HIDE DEF T, m
  <2>5. going[w] # {} => Append(p.channel[w], m) \in Seq(T)
    BY <2>4
  <2>6. q.channel[w] \in Seq(T)
    BY <2>2, <2>4, <2>5 DEF m
  <2> QED
    BY <2>1, <2>2, <2>6 DEF T
<1>5. ASSUME NEW w \in Target, going[w] # {}
      PROVE  /\ Len(q.channel[w]) = Len(p.channel[w]) + 1
             /\ Len(p.channel[w]) \in Nat
             /\ DOMAIN q.channel[w] = 1 .. Len(p.channel[w]) + 1
             /\ DOMAIN p.channel[w] = 1 .. Len(p.channel[w])
             /\ \A k \in DOMAIN p.channel[w] : q.channel[w][k] = p.channel[w][k]
             /\ q.channel[w][Len(p.channel[w]) + 1] = <<now, going[w]>>
  BY <1>4, <1>5
<1>6. q \in PathType(R)
  <2> DEFINE T == Seq(SM!Epoch \X SUBSET R)
             h == [w \in Target |-> p.held[w] \ going[w]]
             c == [w \in Target |->
                     IF going[w] = {} THEN p.channel[w] ELSE Append(p.channel[w], <<now, going[w]>>)]
  <2>1. q = [produced |-> p.produced, current |-> p.current, held |-> h, channel |-> c]
    BY <1>2
  <2>2. h \in [Target -> SUBSET R]
    BY <1>4
  <2>3. \A w \in Target : c[w] \in T
    BY <1>4, <2>1
  <2>4. c \in [Target -> T]
    <3> HIDE DEF T
    <3> QED
      BY <2>3
  <2>5. p.produced \in [SM!Epoch -> Nat] /\ p.current \in SUBSET SM!Epoch
    BY <1>1 DEF PathType
  <2> HIDE DEF h, c
  <2> QED
    BY <2>1, <2>2, <2>4, <2>5 DEF PathType
<1>7. GoodPath(q, R)
  <2>0. ASSUME NEW w \in Target, going[w] # {}, NEW i \in DOMAIN q.channel[w]
        PROVE  i \in DOMAIN p.channel[w] \/ i = Len(p.channel[w]) + 1
    <3> DEFINE n == Len(p.channel[w])
    <3>1. n \in Nat /\ i \in 1 .. n + 1 /\ DOMAIN p.channel[w] = 1 .. n
      BY <1>5, <2>0
    <3> HIDE DEF n
    <3>2. i \in 1 .. n \/ i = n + 1
      BY <3>1
    <3> QED
      BY <3>1, <3>2 DEF n
  <2>1. \A s, t \in q.current : s = t
    BY <1>2 DEF GoodPath
  <2>2. \A w \in Target : q.held[w] # {} => q.current # {}
    BY <1>2, <1>4 DEF GoodPath
  <2>3. \A w \in Target : \A r \in q.held[w] : r[2] = w
    BY <1>4 DEF GoodPath
  <2>4. ASSUME NEW w \in Target, NEW k \in DOMAIN q.channel[w], NEW r \in q.channel[w][k][2]
        PROVE  r[2] = w /\ r \notin q.held[w]
    <3>1. CASE going[w] = {}
      BY <3>1, <1>4, <2>4 DEF GoodPath
    <3>2. CASE going[w] # {} /\ k \in DOMAIN p.channel[w]
      BY <3>2, <1>4, <1>5, <2>4 DEF GoodPath
    <3>3. CASE going[w] # {} /\ k = Len(p.channel[w]) + 1
      BY <3>3, <1>4, <1>5, <2>4 DEF GoodPath
    <3> QED
      BY <3>1, <3>2, <3>3, <2>0, <2>4
  <2>5. ASSUME NEW w \in Target, NEW k \in DOMAIN q.channel[w], NEW l \in DOMAIN q.channel[w], k # l
        PROVE  q.channel[w][k][2] \cap q.channel[w][l][2] = {}
    <3>1. CASE going[w] = {}
      BY <3>1, <1>4, <2>5 DEF GoodPath
    <3>2. CASE going[w] # {} /\ k \in DOMAIN p.channel[w] /\ l \in DOMAIN p.channel[w]
      <4>1. q.channel[w][k] = p.channel[w][k] /\ q.channel[w][l] = p.channel[w][l]
        BY <3>2, <1>5
      <4> QED
        BY <3>2, <4>1, <2>5 DEF GoodPath
    <3>3. CASE going[w] # {} /\ k = Len(p.channel[w]) + 1 /\ l \in DOMAIN p.channel[w]
      BY <3>3, <1>4, <1>5, <2>5 DEF GoodPath
    <3>4. CASE going[w] # {} /\ l = Len(p.channel[w]) + 1 /\ k \in DOMAIN p.channel[w]
      BY <3>4, <1>4, <1>5, <2>5 DEF GoodPath
    <3> QED
      BY <3>1, <3>2, <3>3, <3>4, <2>0, <2>5
  <2>6. ASSUME NEW w \in Target, NEW k \in DOMAIN q.channel[w]
        PROVE  q.channel[w][k][2] # {}
    <3>1. CASE going[w] = {}
      BY <3>1, <1>4, <2>6 DEF GoodPath
    <3>2. CASE going[w] # {} /\ k \in DOMAIN p.channel[w]
      BY <3>2, <1>4, <1>5, <2>6 DEF GoodPath
    <3>3. CASE going[w] # {} /\ k = Len(p.channel[w]) + 1
      BY <3>3, <1>5
    <3> QED
      BY <3>1, <3>2, <3>3, <2>0, <2>6
  <2> QED
    BY <1>6, <2>1, <2>2, <2>3, <2>4, <2>5, <2>6 DEF GoodPath
<1>8. ASSUME NEW t \in SM!Epoch
      PROVE  OnPath(q, R, t) = OnPath(p, R, t)
  <2> DEFINE Here(x, w, r) ==
        \/ t \in x.current /\ r \in x.held[w]
        \/ \E k \in DOMAIN x.channel[w] : x.channel[w][k][1] = t /\ r \in x.channel[w][k][2]
  <2>1. ASSUME NEW w \in Target, NEW r, going[w] = {}
        PROVE  Here(q, w, r) <=> Here(p, w, r)
    BY <1>2, <1>4, <2>1
  <2>2. ASSUME NEW w \in Target, NEW r, going[w] # {}, Here(q, w, r)
        PROVE  Here(p, w, r)
    <3>1. CASE t \in q.current /\ r \in q.held[w]
      BY <3>1, <1>2, <1>4
    <3>2. CASE \E k \in DOMAIN p.channel[w] : q.channel[w][k][1] = t /\ r \in q.channel[w][k][2]
      BY <3>2, <1>5, <2>2
    <3>3. CASE LET k == Len(p.channel[w]) + 1
               IN  q.channel[w][k][1] = t /\ r \in q.channel[w][k][2]
      <4>1. t = now /\ r \in going[w]
        BY <3>3, <1>5, <2>2
      <4>2. r \in p.held[w] /\ p.current # {}
        BY <4>1 DEF GoodPath
      <4> QED
        BY <4>1, <4>2, <1>3, <2>2
    <3> QED
      BY <3>1, <3>2, <3>3, <2>2, <1>5
  <2>3. ASSUME NEW w \in Target, NEW r, going[w] # {}, Here(p, w, r)
        PROVE  Here(q, w, r)
    <3>1. CASE t \in p.current /\ r \in p.held[w] /\ r \notin going[w]
      BY <3>1, <1>2, <1>4
    <3>2. CASE t \in p.current /\ r \in going[w]
      BY <3>2, <1>3, <1>5, <2>3
    <3>3. CASE \E k \in DOMAIN p.channel[w] : p.channel[w][k][1] = t /\ r \in p.channel[w][k][2]
      BY <3>3, <1>5, <2>3
    <3> QED
      BY <3>1, <3>2, <3>3, <2>3
  <2>4. \A w \in Target : \A r : Here(q, w, r) <=> Here(p, w, r)
    BY <2>1, <2>2, <2>3
  <2> QED
    BY <2>4 DEF OnPath
<1>9. q.produced = p.produced /\ q.current = p.current
  BY <1>2
<1>10. \A w \in Target : q.held[w] = p.held[w] \ going[w]
  BY <1>4
<1> HIDE DEF now
<1> QED
  BY <1>7, <1>8, <1>9, <1>10

\* S may be pushed when R has been.
Fresh(S, R) == S \cap R = {} /\ IsFiniteSet(R \cup S) /\ \A r \in S : r[2] \in Target

Pushed(p, R, q, S, time) ==
  /\ GoodPath(q, R \cup S)
  /\ q.produced = p.produced
  /\ \A t \in SM!Epoch :
       OnPath(q, R \cup S, t) = IF t = time THEN OnPath(p, R, t) \cup S ELSE OnPath(p, R, t)

\* Exchange::push adds the records to those on their way at their time, and moves
\* others only within the path.
LEMMA PushKeeps ==
  ASSUME NEW p, NEW R, GoodPath(p, R), NEW S, Fresh(S, R),
         NEW time \in SM!Epoch, NEW q, q = SM!ExchangePush(p, time, S)
  PROVE  Pushed(p, R, q, S, time)
<1> USE DEF Fresh, Pushed
<1> DEFINE before == IF p.current \in {{}, {time}} THEN p ELSE SM!ExchangeFlush(p, p.held)
           h == [w \in Target |-> before.held[w] \cup {r \in S : r[2] = w}]
           joined == [before EXCEPT !.current = {time}, !.held = h]
           g == IF SM!Cardinality(Target) = 1 THEN joined.held
                ELSE [w \in Target |-> SM!Sendable(joined.held[w])]
           T == R \cup S
<1>1. q = SM!ExchangeFlush(joined, g)
  BY DEF SM!ExchangePush
<1>2. /\ GoodPath(before, R)
      /\ before.produced = p.produced
      /\ \A t \in SM!Epoch : OnPath(before, R, t) = OnPath(p, R, t)
      /\ \A w \in Target : before.held[w] # {} => before.current = {time}
  <2>1. CASE p.current \in {{}, {time}}
    BY <2>1 DEF GoodPath
  <2>2. CASE p.current \notin {{}, {time}}
    <3>1. before = SM!ExchangeFlush(p, p.held)
      BY <2>2
    <3>2. p.held \in [Target -> SUBSET R]
      BY DEF GoodPath, PathType
    <3> HIDE DEF before
    <3> QED
      BY <3>1, <3>2, FlushKeeps
  <2> QED
    BY <2>1, <2>2
<1> HIDE DEF before
<1>3. joined = [produced |-> before.produced, current |-> {time}, held |-> h,
                channel |-> before.channel]
  <2>1. before \in PathType(R)
    BY <1>2 DEF GoodPath
  <2>2. joined = [before EXCEPT !.current = {time}, !.held = h]
    OBVIOUS
  <2> HIDE DEF h, joined
  <2> QED
    BY <2>1, <2>2 DEF PathType
<1>4. ASSUME NEW w \in Target
      PROVE  /\ before.held[w] \subseteq R
             /\ h[w] = before.held[w] \cup {r \in S : r[2] = w}
             /\ before.channel[w] \in Seq(SM!Epoch \X SUBSET R)
             /\ before.channel[w] \in Seq(SM!Epoch \X SUBSET T)
             /\ \A k \in DOMAIN before.channel[w] : before.channel[w][k][2] \subseteq R
  <2>1. GoodPath(before, T)
    <3> HIDE DEF before
    <3> QED
      BY <1>2, PathWider
  <2> QED
    BY <1>2, <2>1 DEF GoodPath, PathType
<1>5. joined \in PathType(T)
  <2>1. h \in [Target -> SUBSET T]
    BY <1>4
  <2>2. GoodPath(before, T)
    BY <1>2, PathWider
  <2>3. /\ before.produced \in [SM!Epoch -> Nat] /\ {time} \in SUBSET SM!Epoch
        /\ before.channel \in [Target -> Seq(SM!Epoch \X SUBSET T)]
    BY <2>2 DEF GoodPath, PathType
  <2> HIDE DEF h, T, joined
  <2> QED
    BY <1>3, <2>1, <2>3 DEF PathType
<1>6. GoodPath(joined, T)
  <2>1. ASSUME NEW w \in Target, NEW r \in joined.held[w]
        PROVE  r[2] = w
    BY <1>2, <1>3, <1>4, <2>1 DEF GoodPath
  <2>2. ASSUME NEW w \in Target, NEW k \in DOMAIN joined.channel[w],
               NEW r \in joined.channel[w][k][2]
        PROVE  r[2] = w /\ r \notin joined.held[w]
    <3>1. r \in R /\ r[2] = w /\ r \notin before.held[w]
      BY <1>2, <1>3, <1>4, <2>2 DEF GoodPath
    <3> QED
      BY <3>1, <1>3, <1>4
  <2>3. \A w \in Target : \A k, l \in DOMAIN joined.channel[w] :
          k # l => joined.channel[w][k][2] \cap joined.channel[w][l][2] = {}
    BY <1>2, <1>3 DEF GoodPath
  <2>4. joined.current = {time}
    BY <1>3
  <2>5. \A w \in Target : \A k \in DOMAIN joined.channel[w] : joined.channel[w][k][2] # {}
    BY <1>2, <1>3 DEF GoodPath
  <2> HIDE DEF joined, T, h
  <2> QED
    BY <1>5, <2>1, <2>2, <2>3, <2>4, <2>5 DEF GoodPath
<1>7. ASSUME NEW t \in SM!Epoch
      PROVE  OnPath(joined, T, t) = IF t = time THEN OnPath(before, R, t) \cup S
                                    ELSE OnPath(before, R, t)
  <2> DEFINE Here(x, w, r) ==
        \/ t \in x.current /\ r \in x.held[w]
        \/ \E k \in DOMAIN x.channel[w] : x.channel[w][k][1] = t /\ r \in x.channel[w][k][2]
  <2>1. ASSUME NEW r \in T, NEW w \in Target, Here(joined, w, r)
        PROVE  (Here(before, w, r) /\ r \in R) \/ (r \in S /\ t = time)
    <3>1. CASE t \in joined.current /\ r \in joined.held[w]
      <4>1. t = time /\ (r \in before.held[w] \/ r \in S)
        BY <3>1, <1>3, <1>4
      <4>2. r \in before.held[w] => r \in R /\ t \in before.current
        BY <4>1, <1>2, <1>4
      <4> QED
        BY <4>1, <4>2
    <3>2. CASE \E k \in DOMAIN joined.channel[w] :
                 joined.channel[w][k][1] = t /\ r \in joined.channel[w][k][2]
      BY <3>2, <1>3, <1>4
    <3> QED
      BY <3>1, <3>2, <2>1
  <2>2. ASSUME NEW r \in R, NEW w \in Target, Here(before, w, r)
        PROVE  Here(joined, w, r)
    BY <1>2, <1>3, <1>4, <2>2
  <2>3. ASSUME NEW r \in S, t = time
        PROVE  \E w \in Target : Here(joined, w, r)
    <3>1. r[2] \in Target /\ r \in h[r[2]]
      BY <2>3
    <3> HIDE DEF h
    <3> QED
      BY <3>1, <1>3, <2>3
  <2> HIDE DEF joined, h
  <2> QED
    BY <2>1, <2>2, <2>3 DEF OnPath
<1>8. g \in [Target -> SUBSET T] /\ \A w \in Target : g[w] \subseteq joined.held[w]
  <2>1. joined.held \in [Target -> SUBSET T]
    BY <1>5 DEF PathType
  <2> HIDE DEF joined
  <2>2. \A w \in Target : SM!Sendable(joined.held[w]) \subseteq joined.held[w]
    <3> SUFFICES ASSUME NEW w \in Target
                 PROVE  SM!Sendable(joined.held[w]) \subseteq joined.held[w]
      OBVIOUS
    <3>1. IsFiniteSet(joined.held[w])
      BY <2>1, FS_Subset
    <3> QED
      BY <3>1, SendableSubset
  <2> QED
    BY <2>1, <2>2
<1> HIDE DEF joined, g
<1>9. /\ GoodPath(q, T)
      /\ q.produced = joined.produced
      /\ \A t \in SM!Epoch : OnPath(q, T, t) = OnPath(joined, T, t)
  <2> HIDE DEF T
  <2> QED
    BY <1>1, <1>6, <1>8, FlushKeeps
<1> QED
  BY <1>2, <1>3, <1>7, <1>9

\* The path q is as sound with the records S as p is with R, and nothing is counted
\* produced in between but at the given time.
SoundWithin(p, R, q, S, m, time) ==
  /\ Sound(q, S, m)
  /\ \A t \in SM!Epoch : q.produced[t] > 0 => p.produced[t] > 0 \/ t = time
  /\ ~sm_attached => q = p

\* Handle::flush and Buffer::flush: the Counter counts what the Exchange takes.
LEMMA FlushedSound ==
  ASSUME NEW p, NEW R, NEW m \in [SM!Epoch -> Int], Sound(p, R, m), NEW S, Fresh(S, R),
         NEW time \in SM!Epoch, NEW q, q = SM!Flushed(p, time, S)
  PROVE  SoundWithin(p, R, q, R \cup S, m, time)
<1> USE DEF SoundWithin, Fresh
<1> DEFINE T == R \cup S
<1>1. GoodPath(p, R) /\ p \in PathType(R)
  BY DEF Sound, GoodPath
<1>2. CASE S = {} \/ ~sm_attached
  <2>1. q = p
    BY <1>2 DEF SM!Flushed
  <2>2. GoodPath(p, T) /\ \A t : OnPath(p, T, t) = OnPath(p, R, t)
    BY <1>1, PathWider
  <2> QED
    BY <2>1, <2>2 DEF Sound
<1>3. CASE S # {} /\ sm_attached
  <2> DEFINE n == Cardinality(S)
             c == SM!Counted(p, time, n)
  <2>1. IsFiniteSet(S) /\ n \in Nat
    BY FS_Subset, FS_CardinalityType
  <2>2. q = SM!ExchangePush(c, time, S)
    BY <1>3, SameCardinality DEF SM!Flushed, SM!PushMessage
  <2>3. c = [p EXCEPT !.produced = [p.produced EXCEPT ![time] = p.produced[time] + n]]
    BY DEF SM!Counted, SM!Plus
  <2> HIDE DEF c, n
  <2>4. /\ c \in PathType(R) /\ c.current = p.current /\ c.held = p.held /\ c.channel = p.channel
        /\ \A t \in SM!Epoch : c.produced[t] = p.produced[t] + (IF t = time THEN n ELSE 0)
    <3> DEFINE f == [p.produced EXCEPT ![time] = p.produced[time] + n]
    <3>1. p.produced \in [SM!Epoch -> Nat]
      BY <1>1 DEF PathType
    <3>2. /\ f \in [SM!Epoch -> Nat]
          /\ \A t \in SM!Epoch : f[t] = p.produced[t] + (IF t = time THEN n ELSE 0)
      BY <2>1, <3>1
    <3>3. c = [p EXCEPT !.produced = f]
      BY <2>3
    <3> HIDE DEF f
    <3> QED
      BY <1>1, <3>2, <3>3 DEF PathType
  <2>5. GoodPath(c, R) /\ \A t : OnPath(c, R, t) = OnPath(p, R, t)
    BY <1>1, <2>4 DEF GoodPath, OnPath
  <2>6. /\ GoodPath(q, T)
        /\ q.produced = c.produced
        /\ \A t \in SM!Epoch :
             OnPath(q, T, t) = IF t = time THEN OnPath(p, R, t) \cup S ELSE OnPath(p, R, t)
    <3>1. Pushed(c, R, q, S, time)
      <4> HIDE DEF SoundWithin, Fresh
      <4>1. GoodPath(c, R)
        BY <2>5
      <4> QED
        BY <2>2, <4>1, PushKeeps
    <3> QED
      BY <2>5, <3>1 DEF Pushed
  <2>7. ASSUME NEW t \in SM!Epoch
        PROVE  m[t] + q.produced[t] = Cardinality(OnPath(q, T, t))
    <3>1. m[t] + p.produced[t] = Cardinality(OnPath(p, R, t)) /\ m[t] \in Int /\ p.produced[t] \in Nat
      BY <1>1 DEF Sound, PathType
    <3>2. CASE t # time
      <4>1. OnPath(q, T, t) = OnPath(p, R, t)
        BY <2>6, <3>2
      <4> QED
        BY <2>4, <2>6, <3>1, <3>2, <4>1
    <3>3. CASE t = time
      <4>1. OnPath(q, T, t) = OnPath(p, R, t) \cup S
        BY <2>6, <3>3
      <4>2. OnPath(p, R, t) \subseteq R
        BY DEF OnPath
      <4>3. IsFiniteSet(OnPath(p, R, t))
        <5>1. IsFiniteSet(R)
          BY FS_Subset
        <5> QED
          BY <4>2, <5>1, FS_Subset
      <4>4. OnPath(p, R, t) \cap S = {}
        BY <4>2
      <4>5. Cardinality(OnPath(p, R, t) \cup S) = Cardinality(OnPath(p, R, t)) + n
        <5>1. /\ Cardinality(OnPath(p, R, t) \cup S) =
                   Cardinality(OnPath(p, R, t)) + Cardinality(S) - Cardinality(OnPath(p, R, t) \cap S)
              /\ Cardinality(OnPath(p, R, t)) \in Nat
          BY <2>1, <4>3, FS_Union, FS_CardinalityType
        <5>2. Cardinality({}) = 0
          BY FS_EmptySet
        <5>3. Cardinality(OnPath(p, R, t) \cap S) = 0
          BY <4>4, <5>2
        <5> QED
          BY <2>1, <5>1, <5>3 DEF n
      <4>6. q.produced[t] = p.produced[t] + n
        BY <2>4, <2>6, <3>3
      <4>7. m[t] + q.produced[t] = m[t] + p.produced[t] + n
        BY <2>1, <3>1, <4>6
      <4> QED
        BY <3>1, <4>1, <4>5, <4>7
    <3> QED
      BY <3>2, <3>3
  <2>8. Sound(q, T, m)
    BY <2>6, <2>7 DEF Sound
  <2>9. ASSUME NEW t \in SM!Epoch, q.produced[t] > 0
        PROVE  p.produced[t] > 0 \/ t = time
    BY <2>4, <2>6, <2>9, <1>1 DEF PathType
  <2> HIDE DEF T
  <2> QED
    BY <1>3, <2>8, <2>9 DEF T
<1> QED
  BY <1>2, <1>3

\* Handle::close_epoch and Buffer::cease pass None, which may flush and counts nothing.
LEMMA CeasedSound ==
  ASSUME NEW p, NEW R, NEW m \in [SM!Epoch -> Int], Sound(p, R, m), NEW S, Fresh(S, R),
         NEW time \in SM!Epoch, NEW q, q = SM!Ceased(p, time, S)
  PROVE  SoundWithin(p, R, q, R \cup S, m, time)
<1> DEFINE f == SM!Flushed(p, time, S)
           T == R \cup S
<1>1. SoundWithin(p, R, f, T, m, time)
  BY FlushedSound
<1>2. CASE ~sm_attached
  <2>1. q = p /\ f = p
    BY <1>1, <1>2 DEF SM!Ceased, SoundWithin
  <2> QED
    BY <1>1, <2>1
<1>3. CASE sm_attached /\ q = f
  BY <1>1, <1>3
<1>4. CASE sm_attached /\ q # f
  <2>1. q = SM!ExchangeFlush(f, f.held)
    BY <1>4 DEF SM!Ceased, SM!PushNone
  <2> HIDE DEF f, T
  <2>2. GoodPath(f, T) /\ f.held \in [Target -> SUBSET T]
    BY <1>1 DEF SoundWithin, Sound, GoodPath, PathType
  <2>3. /\ GoodPath(q, T)
        /\ q.produced = f.produced
        /\ \A t \in SM!Epoch : OnPath(q, T, t) = OnPath(f, T, t)
    BY <2>1, <2>2, FlushKeeps
  <2>4. Sound(q, T, m)
    BY <1>1, <2>3 DEF SoundWithin, Sound
  <2>5. \A t \in SM!Epoch : q.produced[t] > 0 => p.produced[t] > 0 \/ t = time
    BY <1>1, <2>3 DEF SoundWithin
  <2> QED
    BY <1>4, <2>4, <2>5 DEF SoundWithin, T
<1> QED
  BY <1>2, <1>3, <1>4, <1>1 DEF SoundWithin, SM!Ceased

LEMMA SoundWider ==
  ASSUME NEW p, NEW R, NEW S, NEW m, Sound(p, R, m), R \subseteq S
  PROVE  Sound(p, S, m)
<1>1. GoodPath(p, S) /\ \A t : OnPath(p, S, t) = OnPath(p, R, t)
  BY PathWider DEF Sound
<1> QED
  BY <1>1 DEF Sound

LEMMA PlusFacts ==
  ASSUME NEW f \in [SM!Epoch -> Int], NEW t \in SM!Epoch
  PROVE  /\ SM!Plus(f, t, 1) \in [SM!Epoch -> Int]
         /\ \A s \in SM!Epoch : SM!Plus(f, t, 1)[s] = IF s = t THEN f[s] + 1 ELSE f[s]
BY DEF SM!Plus

LEMMA MinusFacts ==
  ASSUME NEW f \in [SM!Epoch -> Int], NEW t \in SM!Epoch
  PROVE  /\ SM!Plus(f, t, -1) \in [SM!Epoch -> Int]
         /\ \A s \in SM!Epoch : SM!Plus(f, t, -1)[s] = IF s = t THEN f[s] - 1 ELSE f[s]
BY DEF SM!Plus

LEMMA OpenFacts ==
  ASSUME SInv, NEW t \in SM!OpenTimes
  PROVE  t \in SM!Epoch /\ (sm_held[t] > 0 \/ t \in sm_session)
BY DEF SInv, StreamsType, SM!OpenTimes

-----------------------------------------------------------------------------
(* Streams: the invariant is inductive *)

\* What is in the input's buffer is not on its way.
LEMMA BufferFresh ==
  ASSUME SInv
  PROVE  Fresh(sm_buffer, Given) /\ Given \cup sm_buffer = Records(sm_sent)
<1>1. sm_buffer \subseteq Records(sm_sent) /\ sm_sent \in Nat
  BY DEF SInv, StreamsType
<1>2. Given \cup sm_buffer = Records(sm_sent) /\ sm_buffer \cap Given = {}
  BY <1>1 DEF Given
<1>3. IsFiniteSet(Given \cup sm_buffer)
  BY <1>1, <1>2, RecordsFinite
<1>4. \A r \in sm_buffer : r[2] \in Target
  BY <1>1 DEF Records
<1> QED
  BY <1>2, <1>3, <1>4 DEF Fresh

\* A step that reports nothing keeps every time covered, as long as what holds a time
\* back stands under something that held back an earlier one.
LEMMA CoversKept ==
  ASSUME SInv, sm_attached' = sm_attached, sm_caps' = sm_caps,
         sm_attached => \A t \in SM!Epoch : HeldBack(t)' => \E u \in 0 .. t : HeldBack(u)
  PROVE  Covers'
<1> SUFFICES ASSUME sm_attached, NEW t \in SM!Epoch, HeldBack(t)'
             PROVE  \E s \in 0 .. t : sm_caps[s] > 0
  BY DEF Covers
<1>1. PICK u \in 0 .. t : HeldBack(u)
  OBVIOUS
<1>2. u \in SM!Epoch
  BY EpochNat
<1>3. PICK s \in 0 .. u : sm_caps[s] > 0
  BY <1>1, <1>2 DEF SInv, Covers
<1>4. s \in 0 .. t
  BY EpochNat
<1> QED
  BY <1>3, <1>4

\* The invariant holds when an input is made.
LEMMA SInit == SM!Init => SInv
<1> SUFFICES ASSUME SM!Init PROVE SInv
  OBVIOUS
<1> USE DEF SM!Init
<1>1. SM!Zero \in [SM!Epoch -> Int] /\ SM!Zero \in [SM!Epoch -> Nat] /\ \A t \in SM!Epoch : SM!Zero[t] = 0
  BY DEF SM!Zero
<1>2. /\ SM!Plus(SM!Zero, 0, 1) \in [SM!Epoch -> Int]
      /\ \A t \in SM!Epoch : SM!Plus(SM!Zero, 0, 1)[t] = IF t = 0 THEN 1 ELSE 0
  BY <1>1, EpochNat, PlusFacts
<1>3. SM!Plus(SM!Zero, 0, 1) \in [SM!Epoch -> Nat]
  BY <1>2
<1>4. Records(0) = {} /\ Given = {}
  BY DEF Records, Given
<1>5. StreamsType
  BY <1>1, <1>2, <1>3, EpochNat DEF StreamsType, SM!Detached, SM!Built
<1>6. Handles /\ Detached
  BY <1>2 DEF Handles, Detached, NoPath, SM!Detached, SM!Built
<1>7. CapsCounted
  BY <1>1, <1>2 DEF CapsCounted, SM!Detached, SM!Built
<1>8. Covers
  BY <1>1, <1>2, EpochNat DEF Covers, HeldBack, SM!Detached, SM!Built
<1>9. sm_path = NoPath
  BY DEF NoPath
<1>10. GoodPath(NoPath, {})
  BY <1>1 DEF GoodPath, PathType, NoPath
<1>11. Sound(NoPath, {}, sm_messages)
  <2>1. \A t \in SM!Epoch : OnPath(NoPath, {}, t) = {}
    BY DEF OnPath
  <2>2. \A t \in SM!Epoch : sm_messages[t] + NoPath.produced[t] = 0
    BY <1>1 DEF NoPath
  <2> QED
    BY <1>10, <2>1, <2>2, FS_EmptySet DEF Sound
<1> QED
  BY <1>4, <1>5, <1>6, <1>7, <1>8, <1>9, <1>11 DEF SInv

\* What a step may do to the path, unless it reports or a receiver pulls: add records
\* under a time that the program holds a capability for.
PathKept ==
  /\ Sound(sm_path, Given, sm_messages)'
  /\ \A t \in SM!Epoch : sm_path'.produced[t] > 0 => HeldBack(t)
  /\ ~sm_attached => sm_path' = sm_path

LEMMA PathStep ==
  ASSUME SInv, NEW R, NEW time \in SM!Epoch, sm_held[time] > 0 \/ time \in sm_session,
         SoundWithin(sm_path, Given, sm_path', R, sm_messages, time),
         sm_messages' = sm_messages, R \subseteq Given'
  PROVE  PathKept
<1>1. Sound(sm_path', Given', sm_messages')
  BY SoundWider DEF SoundWithin
<1>2. \A t \in SM!Epoch : sm_path'.produced[t] > 0 => HeldBack(t)
  BY DEF SoundWithin, HeldBack
<1>3. ~sm_attached => sm_path' = sm_path
  BY DEF SoundWithin
<1> QED
  BY <1>1, <1>2, <1>3 DEF PathKept

LEMMA PathSame ==
  ASSUME SInv, sm_path' = sm_path, sm_messages' = sm_messages, Given \subseteq Given'
  PROVE  PathKept
<1>1. Sound(sm_path', Given', sm_messages')
  BY SoundWider DEF SInv
<1>2. \A t \in SM!Epoch : sm_path'.produced[t] > 0 => HeldBack(t)
  BY DEF HeldBack
<1> QED
  BY <1>1, <1>2 DEF PathKept

LEMMA CoversSame ==
  ASSUME SInv, PathKept, sm_held' = sm_held, sm_session' = sm_session,
         sm_attached' = sm_attached, sm_caps' = sm_caps
  PROVE  Covers'
<1>1. \A t \in SM!Epoch : HeldBack(t)' => HeldBack(t) /\ t \in 0 .. t
  BY EpochNat DEF PathKept, HeldBack
<1> QED
  BY <1>1, CoversKept

\* Handle::send and Session::give keep the invariant.
LEMMA SendKeeps ==
  ASSUME SInv, NEW to \in Target, SM!Send(to)
  PROVE  SInv'
<1> DEFINE filled == sm_buffer \cup {<<sm_sent + 1, to>>}
<1> USE DEF SM!Send, SM!reports
<1>1. sm_sent \in Nat /\ sm_buffer \subseteq Records(sm_sent)
  BY DEF SInv, StreamsType
<1>2. /\ Records(sm_sent) \subseteq Records(sm_sent + 1) /\ <<sm_sent + 1, to>> \notin Records(sm_sent)
      /\ <<sm_sent + 1, to>> \in Records(sm_sent + 1)
  BY <1>1 DEF Records
<1>3. PICK time \in SM!OpenTimes :
        \/ sm_buffer' = filled /\ sm_path' = sm_path
        \/ sm_buffer' = {} /\ sm_path' = SM!Flushed(sm_path, time, filled)
  OBVIOUS
<1>4. time \in SM!Epoch /\ (sm_held[time] > 0 \/ time \in sm_session)
  BY <1>3, OpenFacts
<1>5. Fresh(filled, Given)
  <2>1. filled \subseteq Records(sm_sent + 1) /\ filled \cap Given = {}
    BY <1>1, <1>2 DEF Given
  <2>2. Given \cup filled \subseteq Records(sm_sent + 1)
    BY <1>1, <1>2, <2>1 DEF Given
  <2>3. IsFiniteSet(Given \cup filled)
    BY <1>1, <2>2, RecordsFinite, FS_Subset
  <2> QED
    BY <2>1, <2>3 DEF Fresh, Records
<1>6. PathKept
  <2>1. CASE sm_buffer' = filled /\ sm_path' = sm_path
    <3>1. Given \subseteq Given'
      BY <2>1, <1>1, <1>2 DEF Given
    <3> QED
      BY <2>1, <3>1, PathSame
  <2>2. CASE sm_buffer' = {} /\ sm_path' = SM!Flushed(sm_path, time, filled)
    <3>1. SoundWithin(sm_path, Given, sm_path', Given \cup filled, sm_messages, time)
      <4> HIDE DEF filled, SM!Send
      <4>1. Sound(sm_path, Given, sm_messages) /\ sm_messages \in [SM!Epoch -> Int]
        BY DEF SInv, StreamsType
      <4> QED
        BY <2>2, <1>4, <1>5, <4>1, FlushedSound
    <3>2. Given \cup filled \subseteq Given'
      BY <2>2, <1>1, <1>2 DEF Given
    <3> QED
      BY <1>4, <3>1, <3>2, PathStep
  <2> QED
    BY <1>3, <2>1, <2>2
<1>7. StreamsType'
  <2>1. sm_sent' \in Nat /\ sm_buffer' \in SUBSET Records(sm_sent')
    BY <1>1, <1>2, <1>3
  <2> QED
    BY <2>1 DEF SInv, StreamsType
<1>8. Handles' /\ Detached' /\ CapsCounted'
  BY <1>6 DEF SInv, Handles, Detached, CapsCounted, PathKept, SM!reports
<1>9. Covers'
  BY <1>6, CoversSame
<1> QED
  BY <1>6, <1>7, <1>8, <1>9 DEF SInv, PathKept

\* So do send_batch and give_content.
LEMMA SendBatchKeeps ==
  ASSUME SInv, NEW first \in Target, NEW second \in Target, SM!SendBatch(first, second)
  PROVE  SInv'
<1> DEFINE batch == {<<sm_sent + 1, first>>, <<sm_sent + 2, second>>}
<1> USE DEF SM!SendBatch, SM!reports
<1>1. sm_sent \in Nat /\ sm_buffer \subseteq Records(sm_sent)
  BY DEF SInv, StreamsType
<1>2. /\ Records(sm_sent) \subseteq Records(sm_sent + 2) /\ batch \subseteq Records(sm_sent + 2)
      /\ batch \cap Records(sm_sent) = {}
  BY <1>1 DEF Records
<1>3. PICK time \in SM!OpenTimes :
        sm_path' = SM!Flushed(SM!Flushed(sm_path, time, sm_buffer), time, batch)
  OBVIOUS
<1>4. time \in SM!Epoch /\ (sm_held[time] > 0 \/ time \in sm_session)
  BY OpenFacts
<1> HIDE DEF batch
<1>5. sm_messages \in [SM!Epoch -> Int] /\ Sound(sm_path, Given, sm_messages)
  BY DEF SInv, StreamsType
<1>6. PathKept
  <2> DEFINE f == SM!Flushed(sm_path, time, sm_buffer)
             R == Records(sm_sent)
  <2>1. SoundWithin(sm_path, Given, f, R, sm_messages, time)
    <3>1. SoundWithin(sm_path, Given, f, Given \cup sm_buffer, sm_messages, time)
      BY <1>4, <1>5, BufferFresh, FlushedSound
    <3> QED
      BY <3>1, BufferFresh
  <2>2. Fresh(batch, R)
    <3>1. R \cup batch \subseteq Records(sm_sent + 2)
      BY <1>2
    <3>2. IsFiniteSet(R \cup batch)
      BY <1>1, <3>1, RecordsFinite, FS_Subset
    <3>3. \A r \in batch : r[2] \in Target
      BY <1>2 DEF Records
    <3> QED
      BY <1>2, <3>2, <3>3 DEF Fresh
  <2>3. SoundWithin(f, R, sm_path', R \cup batch, sm_messages, time)
    <3>1. Sound(f, R, sm_messages) /\ sm_path' = SM!Flushed(f, time, batch)
      BY <1>3, <2>1 DEF SoundWithin
    <3> HIDE DEF f, R
    <3> QED
      BY <1>4, <1>5, <2>2, <3>1, FlushedSound
  <2>4. SoundWithin(sm_path, Given, sm_path', R \cup batch, sm_messages, time)
    <3> HIDE DEF f, R
    <3> QED
      BY <2>1, <2>3 DEF SoundWithin
  <2>5. R \cup batch \subseteq Given'
    BY <1>2 DEF Given
  <2> HIDE DEF R
  <2> QED
    BY <1>4, <2>4, <2>5, PathStep
<1>7. StreamsType'
  BY <1>1 DEF SInv, StreamsType
<1>8. Handles' /\ Detached' /\ CapsCounted'
  BY <1>6 DEF SInv, Handles, Detached, CapsCounted, PathKept
<1>9. Covers'
  BY <1>6, CoversSame
<1> QED
  BY <1>6, <1>7, <1>8, <1>9 DEF SInv, PathKept

LEMMA ClosePath ==
  ASSUME SInv, NEW time \in SM!Epoch, sm_held[time] > 0 \/ time \in sm_session,
         sm_path' = SM!Ceased(sm_path, time, sm_buffer), sm_buffer' = {},
         sm_sent' = sm_sent, sm_messages' = sm_messages
  PROVE  PathKept
<1>1. sm_messages \in [SM!Epoch -> Int] /\ Sound(sm_path, Given, sm_messages)
  BY DEF SInv, StreamsType
<1>2. SoundWithin(sm_path, Given, sm_path', Given \cup sm_buffer, sm_messages, time)
  BY <1>1, BufferFresh, CeasedSound
<1>3. Given \cup sm_buffer \subseteq Given'
  BY BufferFresh DEF Given
<1> QED
  BY <1>2, <1>3, PathStep

\* So does closing the input, whose last records are counted before its capability
\* is given up.
LEMMA CloseKeeps ==
  ASSUME SInv, SM!Close
  PROVE  SInv'
<1> USE DEF SM!Close, SM!CloseEpoch, SM!reports
<1>1. /\ sm_now \in SM!Epoch /\ sm_held \in [SM!Epoch -> Int] /\ sm_internal \in [SM!Epoch -> Int]
      /\ sm_caps \in [SM!Epoch -> Int] /\ sm_session = {}
  BY DEF SInv, StreamsType, Handles
<1>2. PathKept
  BY <1>1, ClosePath
<1>3. /\ sm_held' \in [SM!Epoch -> Int]
      /\ \A t \in SM!Epoch : sm_held'[t] = IF t = sm_now THEN sm_held[t] - 1 ELSE sm_held[t]
  <2>1. sm_held' = SM!Plus(sm_held, sm_now, -1)
    OBVIOUS
  <2> QED
    BY <1>1, <2>1, MinusFacts
<1>4. \A t \in SM!Epoch : sm_held'[t] = 0
  BY <1>1, <1>3 DEF SInv, Handles
<1>5. /\ sm_internal' \in [SM!Epoch -> Int]
      /\ sm_attached => \A t \in SM!Epoch :
           sm_internal'[t] = IF t = sm_now THEN sm_internal[t] - 1 ELSE sm_internal[t]
      /\ ~sm_attached => sm_internal' = sm_internal
  <2>1. sm_internal' = IF sm_attached THEN SM!Plus(sm_internal, sm_now, -1) ELSE sm_internal
    OBVIOUS
  <2> QED
    BY <1>1, <2>1, MinusFacts
<1>6. StreamsType'
  <2>1. sm_held' \in [SM!Epoch -> Nat]
    BY <1>3, <1>4
  <2> QED
    BY <1>5, <2>1 DEF SInv, StreamsType
<1>7. Handles' /\ Detached'
  BY <1>2, <1>4, <1>5 DEF SInv, Handles, Detached, PathKept
<1>8. CapsCounted'
  BY <1>1, <1>3, <1>5 DEF SInv, CapsCounted
<1>9. Covers'
  <2>1. \A t \in SM!Epoch : HeldBack(t)' => HeldBack(t) /\ t \in 0 .. t
    BY <1>1, <1>2, <1>4, EpochNat DEF PathKept, HeldBack
  <2> QED
    BY <2>1, CoversKept
<1> QED
  BY <1>2, <1>6, <1>7, <1>8, <1>9 DEF SInv, PathKept

\* advance_to gives up one time for a later one.
LEMMA AdvanceToKeeps ==
  ASSUME SInv, NEW next \in SM!Epoch, SM!AdvanceTo(next)
  PROVE  SInv'
<1> USE DEF SM!AdvanceTo, SM!CloseEpoch, SM!reports
<1>1. /\ sm_now \in SM!Epoch /\ sm_held \in [SM!Epoch -> Int] /\ sm_internal \in [SM!Epoch -> Int]
      /\ sm_caps \in [SM!Epoch -> Int] /\ sm_session = {}
      /\ sm_held[sm_now] = 1 /\ \A t \in SM!Epoch : t # sm_now => sm_held[t] = 0
  BY DEF SInv, StreamsType, Handles
<1>2. PathKept
  BY <1>1, ClosePath
<1>3. ASSUME NEW f \in [SM!Epoch -> Int], NEW g, g = SM!Plus(SM!Plus(f, sm_now, -1), next, 1)
      PROVE  /\ g \in [SM!Epoch -> Int]
             /\ \A t \in SM!Epoch :
                  g[t] = IF t = next THEN f[t] + 1 ELSE IF t = sm_now THEN f[t] - 1 ELSE f[t]
  <2> DEFINE h == SM!Plus(f, sm_now, -1)
  <2>1. /\ h \in [SM!Epoch -> Int]
        /\ \A t \in SM!Epoch : h[t] = IF t = sm_now THEN f[t] - 1 ELSE f[t]
    BY <1>1, MinusFacts
  <2>2. g = SM!Plus(h, next, 1)
    BY <1>3
  <2> HIDE DEF h
  <2>3. /\ g \in [SM!Epoch -> Int]
        /\ \A t \in SM!Epoch : g[t] = IF t = next THEN h[t] + 1 ELSE h[t]
    BY <2>1, <2>2, PlusFacts
  <2>4. sm_now < next
    OBVIOUS
  <2>5. sm_now # next
    BY <2>4, <1>1, EpochNat
  <2> QED
    BY <2>1, <2>3, <2>5
<1>4. sm_now # next
  <2>1. sm_now < next
    OBVIOUS
  <2> QED
    BY <2>1, <1>1, EpochNat
<1>5. /\ sm_held' \in [SM!Epoch -> Nat]
      /\ \A t \in SM!Epoch : sm_held'[t] = IF t = next THEN 1 ELSE 0
  <2>1. sm_held' = SM!Plus(SM!Plus(sm_held, sm_now, -1), next, 1)
    OBVIOUS
  <2>2. /\ sm_held' \in [SM!Epoch -> Int]
        /\ \A t \in SM!Epoch : sm_held'[t] = IF t = next THEN sm_held[t] + 1
                                 ELSE IF t = sm_now THEN sm_held[t] - 1 ELSE sm_held[t]
    BY <1>1, <1>3, <2>1
  <2> QED
    BY <1>1, <1>4, <2>2
<1>6. /\ sm_internal' \in [SM!Epoch -> Int]
      /\ sm_attached => \A t \in SM!Epoch : sm_internal'[t] =
           IF t = next THEN sm_internal[t] + 1 ELSE IF t = sm_now THEN sm_internal[t] - 1 ELSE sm_internal[t]
      /\ ~sm_attached => sm_internal' = sm_internal
  <2>1. sm_internal' = IF sm_attached THEN SM!Plus(SM!Plus(sm_internal, sm_now, -1), next, 1)
                       ELSE sm_internal
    OBVIOUS
  <2> QED
    BY <1>1, <1>3, <2>1
<1>7. StreamsType'
  BY <1>5, <1>6 DEF SInv, StreamsType
<1>8. Handles' /\ Detached'
  BY <1>1, <1>2, <1>5, <1>6 DEF SInv, Handles, Detached, PathKept
<1>9. CapsCounted'
  <2>1. ASSUME sm_attached, NEW t \in SM!Epoch
        PROVE  sm_caps[t] + sm_internal'[t] = sm_held'[t]
    <3>1. sm_caps[t] + sm_internal[t] = sm_held[t]
      BY <1>1, <2>1 DEF SInv, CapsCounted
    <3> QED
      BY <1>1, <1>4, <1>5, <1>6, <2>1, <3>1
  <2>2. sm_session' = {} /\ sm_attached' = sm_attached /\ sm_caps' = sm_caps
    BY <1>1
  <2>3. sm_held' \in [SM!Epoch -> Nat]
    BY <1>5
  <2> QED
    BY <2>1, <2>2, <2>3 DEF CapsCounted
<1>10. Covers'
  <2>1. ASSUME NEW t \in SM!Epoch, HeldBack(t)'
        PROVE  \E u \in 0 .. t : HeldBack(u)
    <3>1. CASE t = next
      <4>1. sm_now \in 0 .. t /\ HeldBack(sm_now)
        BY <1>1, <3>1, EpochNat DEF HeldBack
      <4> QED
        BY <4>1
    <3>2. CASE t # next
      <4>1. HeldBack(t) /\ t \in 0 .. t
        BY <1>1, <1>2, <1>5, <2>1, <3>2, EpochNat DEF HeldBack, PathKept
      <4> QED
        BY <4>1
    <3> QED
      BY <3>1, <3>2
  <2> QED
    BY <2>1, CoversKept
<1> QED
  BY <1>2, <1>7, <1>8, <1>9, <1>10 DEF SInv, PathKept

\* The operator that a Handle is registered with starts with a capability for the
\* minimum, and the Handle's own time is no earlier.
LEMMA RegisterKeeps ==
  ASSUME SInv, SM!Register
  PROVE  SInv'
<1> USE DEF SM!Register, SM!WithOperator
<1>1. /\ sm_now \in SM!Epoch /\ sm_held \in [SM!Epoch -> Int] /\ sm_session = {}
      /\ sm_held[sm_now] = 1 /\ \A t \in SM!Epoch : t # sm_now => sm_held[t] = 0
      /\ sm_caps = SM!Zero /\ sm_internal = SM!Zero /\ sm_path = NoPath
  BY DEF SInv, StreamsType, Handles, Detached
<1>2. SM!Zero \in [SM!Epoch -> Int] /\ \A t \in SM!Epoch : SM!Zero[t] = 0
  BY DEF SM!Zero
<1>3. /\ sm_caps' \in [SM!Epoch -> Int]
      /\ \A t \in SM!Epoch : sm_caps'[t] = IF t = 0 THEN 1 ELSE 0
  <2>1. sm_caps' = SM!Plus(SM!Zero, 0, 1)
    BY <1>1
  <2> QED
    BY <1>2, <2>1, EpochNat, PlusFacts
<1>4. /\ sm_internal' \in [SM!Epoch -> Int]
      /\ \A t \in SM!Epoch : sm_internal'[t] =
           (IF t = 0 THEN -1 ELSE 0) + (IF t = sm_now THEN 1 ELSE 0)
  <2> DEFINE h == SM!Plus(SM!Zero, 0, -1)
  <2>1. /\ h \in [SM!Epoch -> Int]
        /\ \A t \in SM!Epoch : h[t] = IF t = 0 THEN -1 ELSE 0
    BY <1>2, EpochNat, MinusFacts
  <2>2. sm_internal' = SM!Plus(h, sm_now, 1)
    BY <1>1
  <2> HIDE DEF h
  <2>3. /\ sm_internal' \in [SM!Epoch -> Int]
        /\ \A t \in SM!Epoch : sm_internal'[t] = IF t = sm_now THEN h[t] + 1 ELSE h[t]
    BY <1>1, <2>1, <2>2, PlusFacts
  <2> QED
    BY <2>1, <2>3
<1>5. StreamsType'
  BY <1>3, <1>4 DEF SInv, StreamsType
<1>6. Handles' /\ Detached'
  BY DEF SInv, Handles, Detached
<1>7. CapsCounted'
  <2>1. ASSUME NEW t \in SM!Epoch
        PROVE  sm_caps'[t] + sm_internal'[t] = sm_held[t]
    BY <1>1, <1>3, <1>4
  <2>2. sm_session' = {} /\ sm_held' = sm_held
    BY <1>1
  <2>3. \A t \in SM!Epoch : sm_held[t] \in Int
    BY <1>1
  <2> QED
    BY <2>1, <2>2, <2>3 DEF CapsCounted
<1>8. Covers'
  <2>1. ASSUME NEW t \in SM!Epoch
        PROVE  \E s \in 0 .. t : sm_caps'[s] > 0
    BY <1>3, EpochNat
  <2> QED
    BY <2>1 DEF Covers
<1>9. PathKept
  <2>1. Given \subseteq Given'
    BY DEF Given
  <2> QED
    BY <2>1, PathSame
<1> QED
  BY <1>5, <1>6, <1>7, <1>8, <1>9 DEF SInv, PathKept

\* Opening a session flushes what an earlier one left, under a capability of its own.
LEMMA OpenSessionKeeps ==
  ASSUME SInv, NEW t \in SM!Epoch, SM!OpenSession(t)
  PROVE  SInv'
<1> USE DEF SM!OpenSession, SM!Activated, SM!reports
<1>1. /\ sm_internal \in [SM!Epoch -> Int] /\ sm_messages \in [SM!Epoch -> Int]
      /\ sm_caps \in [SM!Epoch -> Int] /\ sm_held \in [SM!Epoch -> Nat]
      /\ Sound(sm_path, Given, sm_messages) /\ sm_held[t] > 0
      /\ sm_kind # "handle" /\ sm_attached
  BY DEF SInv, StreamsType, Handles
<1>2. PathKept
  <2>1. CASE sm_buffer = {}
    <3>1. Given \subseteq Given' /\ sm_path' = sm_path
      BY <2>1 DEF Given
    <3> QED
      BY <3>1, PathSame
  <2>2. CASE sm_buffer # {}
    <3>1. sm_path' = SM!Flushed(sm_path, t, sm_buffer)
      BY <2>2
    <3>2. SoundWithin(sm_path, Given, sm_path', Given \cup sm_buffer, sm_messages, t)
      BY <1>1, <3>1, BufferFresh, FlushedSound
    <3>3. Given \cup sm_buffer \subseteq Given'
      BY BufferFresh DEF Given
    <3> QED
      BY <1>1, <3>2, <3>3, PathStep
  <2> QED
    BY <2>1, <2>2
<1>3. /\ sm_internal' \in [SM!Epoch -> Int]
      /\ \A s \in SM!Epoch : sm_internal'[s] = IF s = t THEN sm_internal[s] + 1 ELSE sm_internal[s]
  <2>1. sm_internal' = SM!Plus(sm_internal, t, 1)
    OBVIOUS
  <2> QED
    BY <1>1, <2>1, PlusFacts
<1>4. StreamsType'
  BY <1>3 DEF SInv, StreamsType
<1>5. Handles' /\ Detached'
  BY <1>1 DEF Handles, Detached
<1>6. CapsCounted'
  <2>1. ASSUME NEW s \in SM!Epoch
        PROVE  sm_caps[s] + sm_internal'[s] = sm_held[s] + (IF s = t THEN 1 ELSE 0)
    <3>1. sm_caps[s] + sm_internal[s] = sm_held[s]
      BY <1>1 DEF SInv, CapsCounted
    <3> QED
      BY <1>1, <1>3, <3>1
  <2>2. sm_session' = {t} /\ sm_caps' = sm_caps /\ sm_held' = sm_held
    OBVIOUS
  <2> QED
    BY <2>1, <2>2 DEF CapsCounted
<1>7. Covers'
  <2>1. \A s \in SM!Epoch : HeldBack(s)' => HeldBack(s) /\ s \in 0 .. s
    BY <1>1, <1>2, EpochNat DEF PathKept, HeldBack
  <2> QED
    BY <2>1, CoversKept
<1> QED
  BY <1>2, <1>4, <1>5, <1>6, <1>7 DEF SInv, PathKept

LEMMA CloseSessionKeeps ==
  ASSUME SInv, SM!CloseSession
  PROVE  SInv'
<1> USE DEF SM!CloseSession, SM!Activated, SM!reports
<1>1. PICK t \in sm_session : /\ sm_path' = SM!Ceased(sm_path, t, sm_buffer)
                              /\ sm_internal' = SM!Plus(sm_internal, t, -1)
  OBVIOUS
<1>2. /\ sm_internal \in [SM!Epoch -> Int] /\ sm_caps \in [SM!Epoch -> Int]
      /\ sm_held \in [SM!Epoch -> Nat]
      /\ t \in SM!Epoch /\ sm_session = {t} /\ sm_kind # "handle" /\ sm_attached
  BY <1>1 DEF SInv, StreamsType, Handles
<1>3. PathKept
  BY <1>1, <1>2, ClosePath
<1>4. /\ sm_internal' \in [SM!Epoch -> Int]
      /\ \A s \in SM!Epoch : sm_internal'[s] = IF s = t THEN sm_internal[s] - 1 ELSE sm_internal[s]
  BY <1>1, <1>2, MinusFacts
<1>5. StreamsType'
  BY <1>4 DEF SInv, StreamsType
<1>6. Handles' /\ Detached'
  BY <1>2 DEF Handles, Detached
<1>7. CapsCounted'
  <2>1. ASSUME NEW s \in SM!Epoch
        PROVE  sm_caps[s] + sm_internal'[s] = sm_held[s]
    <3>1. sm_caps[s] + sm_internal[s] = sm_held[s] + (IF s = t THEN 1 ELSE 0)
      BY <1>2 DEF SInv, CapsCounted
    <3> QED
      BY <1>2, <1>4, <3>1
  <2>2. sm_session' = {} /\ sm_caps' = sm_caps /\ sm_held' = sm_held
    OBVIOUS
  <2> QED
    BY <1>2, <2>1, <2>2 DEF CapsCounted
<1>8. Covers'
  <2>1. \A s \in SM!Epoch : HeldBack(s)' => HeldBack(s) /\ s \in 0 .. s
    BY <1>2, <1>3, EpochNat DEF PathKept, HeldBack
  <2> QED
    BY <2>1, CoversKept
<1> QED
  BY <1>3, <1>5, <1>6, <1>7, <1>8 DEF SInv, PathKept

\* Delayed, downgrade and drop change only what is held, and count it.
\* A capability is only made from one for an earlier time.
LEMMA CapabilityKeeps ==
  ASSUME SInv, sm_kind = "unordered",
         UNCHANGED <<sm_kind, sm_now, sm_session, sm_attached, sm_buffer, sm_path,
                     sm_caps, sm_messages, sm_sent>>,
         sm_held' \in [SM!Epoch -> Nat], sm_internal' \in [SM!Epoch -> Int],
         \A t \in SM!Epoch :
           /\ sm_internal'[t] - sm_internal[t] = sm_held'[t] - sm_held[t]
           /\ sm_held'[t] > 0 => \E u \in 0 .. t : sm_held[u] > 0
  PROVE  SInv'
<1>1. /\ sm_internal \in [SM!Epoch -> Int] /\ sm_caps \in [SM!Epoch -> Int]
      /\ sm_held \in [SM!Epoch -> Nat] /\ sm_attached /\ sm_kind # "handle"
  BY DEF SInv, StreamsType, Handles
<1>2. PathKept
  <2>1. Given \subseteq Given'
    BY DEF Given
  <2> QED
    BY <2>1, PathSame
<1>3. StreamsType'
  BY DEF SInv, StreamsType
<1>4. Handles' /\ Detached'
  BY <1>1 DEF Handles, Detached
<1>5. CapsCounted'
  <2>1. ASSUME NEW t \in SM!Epoch
        PROVE  sm_caps[t] + sm_internal'[t] = sm_held'[t] + (IF t \in sm_session THEN 1 ELSE 0)
    <3>1. sm_caps[t] + sm_internal[t] = sm_held[t] + (IF t \in sm_session THEN 1 ELSE 0)
      BY <1>1 DEF SInv, CapsCounted
    <3> QED
      BY <1>1, <3>1
  <2> QED
    BY <2>1 DEF CapsCounted
<1>6. Covers'
  <2>1. ASSUME NEW t \in SM!Epoch, HeldBack(t)'
        PROVE  \E u \in 0 .. t : HeldBack(u)
    <3>1. CASE sm_held'[t] > 0
      BY <3>1 DEF HeldBack
    <3>2. CASE ~(sm_held'[t] > 0)
      <4>1. HeldBack(t) /\ t \in 0 .. t
        BY <1>2, <2>1, <3>2, EpochNat DEF HeldBack, PathKept
      <4> QED
        BY <4>1
    <3> QED
      BY <3>1, <3>2
  <2> QED
    BY <2>1, CoversKept
<1> QED
  BY <1>2, <1>3, <1>4, <1>5, <1>6 DEF SInv, PathKept

LEMMA CapabilitiesKeep ==
  ASSUME SInv, NEW t \in SM!Epoch, NEW u \in SM!Epoch,
         SM!Delayed(t, u) \/ SM!Downgrade(t, u) \/ SM!DropCapability(t)
  PROVE  SInv'
<1> USE DEF SM!Delayed, SM!Downgrade, SM!DropCapability, SM!Activated, SM!reports
<1>1. /\ sm_internal \in [SM!Epoch -> Int] /\ sm_held \in [SM!Epoch -> Int]
      /\ sm_held \in [SM!Epoch -> Nat] /\ sm_held[t] > 0 /\ sm_kind = "unordered"
      /\ UNCHANGED <<sm_kind, sm_now, sm_session, sm_attached, sm_buffer, sm_path,
                     sm_caps, sm_messages, sm_sent>>
  BY DEF SInv, StreamsType
<1>2. \A s \in SM!Epoch : s \in 0 .. s
  BY EpochNat
<1>3. CASE SM!Delayed(t, u)
  <2>1. t \in 0 .. u
    BY <1>3, EpochNat
  <2>2. /\ sm_held' \in [SM!Epoch -> Int] /\ sm_internal' \in [SM!Epoch -> Int]
        /\ \A s \in SM!Epoch :
             /\ sm_held'[s] = IF s = u THEN sm_held[s] + 1 ELSE sm_held[s]
             /\ sm_internal'[s] = IF s = u THEN sm_internal[s] + 1 ELSE sm_internal[s]
    BY <1>1, <1>3, PlusFacts
  <2>3. sm_held' \in [SM!Epoch -> Nat]
    BY <1>1, <2>2
  <2>4. ASSUME NEW s \in SM!Epoch
        PROVE  /\ sm_internal'[s] - sm_internal[s] = sm_held'[s] - sm_held[s]
               /\ sm_held'[s] > 0 => \E v \in 0 .. s : sm_held[v] > 0
    BY <1>1, <1>2, <2>1, <2>2
  <2> QED
    BY <1>1, <2>2, <2>3, <2>4, CapabilityKeeps
<1>4. CASE SM!Downgrade(t, u)
  <2>1. t \in 0 .. u /\ t # u
    BY <1>4, EpochNat
  <2> DEFINE h == SM!Plus(sm_held, u, 1)
             i == SM!Plus(sm_internal, u, 1)
  <2>2. /\ h \in [SM!Epoch -> Int] /\ i \in [SM!Epoch -> Int]
        /\ \A s \in SM!Epoch :
             /\ h[s] = IF s = u THEN sm_held[s] + 1 ELSE sm_held[s]
             /\ i[s] = IF s = u THEN sm_internal[s] + 1 ELSE sm_internal[s]
    BY <1>1, PlusFacts
  <2>3. sm_held' = SM!Plus(h, t, -1) /\ sm_internal' = SM!Plus(i, t, -1)
    BY <1>4
  <2> HIDE DEF h, i
  <2>4. /\ sm_held' \in [SM!Epoch -> Int] /\ sm_internal' \in [SM!Epoch -> Int]
        /\ \A s \in SM!Epoch :
             /\ sm_held'[s] = IF s = t THEN h[s] - 1 ELSE h[s]
             /\ sm_internal'[s] = IF s = t THEN i[s] - 1 ELSE i[s]
    BY <2>2, <2>3, MinusFacts
  <2>5. sm_held' \in [SM!Epoch -> Nat]
    BY <1>1, <2>1, <2>2, <2>4
  <2>6. ASSUME NEW s \in SM!Epoch
        PROVE  /\ sm_internal'[s] - sm_internal[s] = sm_held'[s] - sm_held[s]
               /\ sm_held'[s] > 0 => \E v \in 0 .. s : sm_held[v] > 0
    BY <1>1, <1>2, <2>1, <2>2, <2>4
  <2> QED
    BY <1>1, <2>4, <2>5, <2>6, CapabilityKeeps
<1>5. CASE SM!DropCapability(t)
  <2>1. /\ sm_held' \in [SM!Epoch -> Int] /\ sm_internal' \in [SM!Epoch -> Int]
        /\ \A s \in SM!Epoch :
             /\ sm_held'[s] = IF s = t THEN sm_held[s] - 1 ELSE sm_held[s]
             /\ sm_internal'[s] = IF s = t THEN sm_internal[s] - 1 ELSE sm_internal[s]
    BY <1>1, <1>5, MinusFacts
  <2>2. sm_held' \in [SM!Epoch -> Nat]
    BY <1>1, <2>1
  <2>3. ASSUME NEW s \in SM!Epoch
        PROVE  /\ sm_internal'[s] - sm_internal[s] = sm_held'[s] - sm_held[s]
               /\ sm_held'[s] > 0 => \E v \in 0 .. s : sm_held[v] > 0
    BY <1>1, <1>2, <2>1
  <2> QED
    BY <1>1, <2>1, <2>2, <2>3, CapabilityKeeps
<1> QED
  BY <1>3, <1>4, <1>5

\* The operator reports what it produced together with the capabilities it gave up.
LEMMA ScheduleKeeps ==
  ASSUME SInv, SM!Schedule
  PROVE  SInv'
<1> USE DEF SM!Schedule
<1>1. /\ sm_internal \in [SM!Epoch -> Int] /\ sm_caps \in [SM!Epoch -> Int]
      /\ sm_messages \in [SM!Epoch -> Int] /\ sm_held \in [SM!Epoch -> Nat]
      /\ GoodPath(sm_path, Given) /\ sm_path \in PathType(Given)
      /\ sm_path.produced \in [SM!Epoch -> Nat]
  BY DEF SInv, StreamsType, Sound, GoodPath, PathType
<1>2. SM!Zero \in [SM!Epoch -> Int] /\ SM!Zero \in [SM!Epoch -> Nat] /\ \A t \in SM!Epoch : SM!Zero[t] = 0
  BY DEF SM!Zero
<1>3. /\ sm_caps' \in [SM!Epoch -> Int] /\ sm_messages' \in [SM!Epoch -> Int]
      /\ sm_internal' = SM!Zero
      /\ \A t \in SM!Epoch : /\ sm_caps'[t] = sm_caps[t] + sm_internal[t]
                             /\ sm_messages'[t] = sm_messages[t] + sm_path.produced[t]
  BY <1>1
<1>4. /\ sm_path' \in PathType(Given) /\ sm_path'.produced = SM!Zero
      /\ sm_path'.current = sm_path.current /\ sm_path'.held = sm_path.held
      /\ sm_path'.channel = sm_path.channel
  BY <1>1, <1>2 DEF PathType
<1>5. Given' = Given
  BY DEF Given
<1>6. StreamsType'
  BY <1>2, <1>3 DEF SInv, StreamsType
<1>7. Handles'
  BY DEF SInv, Handles
<1>8. Detached'
  <2> SUFFICES ASSUME ~sm_attached
               PROVE  /\ sm_path' = NoPath
                      /\ sm_caps' = SM!Zero /\ sm_messages' = SM!Zero
    BY <1>3 DEF Detached
  <2>1. sm_path = NoPath /\ sm_caps = SM!Zero /\ sm_internal = SM!Zero /\ sm_messages = SM!Zero
    BY DEF SInv, Detached
  <2>2. \A t \in SM!Epoch : sm_caps'[t] = 0 /\ sm_messages'[t] = 0
    BY <1>2, <1>3, <2>1 DEF NoPath
  <2>3. sm_caps' = SM!Zero /\ sm_messages' = SM!Zero
    BY <1>2, <1>3, <2>2
  <2>4. sm_path' = NoPath
    BY <2>1, <1>2 DEF NoPath
  <2> QED
    BY <2>3, <2>4
<1>9. CapsCounted' /\ Covers'
  <2>1. ASSUME sm_attached, NEW t \in SM!Epoch
        PROVE  /\ sm_caps'[t] = sm_held[t] + (IF t \in sm_session THEN 1 ELSE 0)
               /\ sm_caps'[t] + sm_internal'[t] = sm_held[t] + (IF t \in sm_session THEN 1 ELSE 0)
    BY <1>1, <1>2, <1>3, <2>1 DEF SInv, CapsCounted
  <2>2. ASSUME sm_attached, NEW t \in SM!Epoch, HeldBack(t)'
        PROVE  t \in 0 .. t /\ sm_caps'[t] > 0
    <3>1. sm_held[t] > 0 \/ t \in sm_session
      BY <1>2, <1>4, <2>2 DEF HeldBack
    <3>2. sm_held[t] \in Nat /\ t \in 0 .. t
      BY <1>1, EpochNat
    <3> QED
      BY <2>1, <2>2, <3>1, <3>2
  <2> QED
    BY <2>1, <2>2 DEF CapsCounted, Covers
<1>10. Sound(sm_path, Given, sm_messages)'
  <2>1. GoodPath(sm_path', Given)
    BY <1>1, <1>4 DEF GoodPath
  <2>2. \A t : OnPath(sm_path', Given, t) = OnPath(sm_path, Given, t)
    BY <1>4 DEF OnPath
  <2>3. ASSUME NEW t \in SM!Epoch
        PROVE  sm_messages'[t] + sm_path'.produced[t] = sm_messages[t] + sm_path.produced[t]
    BY <1>1, <1>2, <1>3, <1>4
  <2>4. \A t \in SM!Epoch :
          sm_messages'[t] + sm_path'.produced[t] = Cardinality(OnPath(sm_path', Given, t))
    BY <2>2, <2>3 DEF SInv, Sound
  <2> QED
    BY <1>5, <2>1, <2>4 DEF Sound
<1> QED
  BY <1>6, <1>7, <1>8, <1>9, <1>10 DEF SInv

\* The head of one target's channel, taken, leaves the rest good, and takes its records.
\* The path q is p without the first message for w.
TakenOff(p, R, w, q) ==
  LET m == Head(p.channel[w])
  IN  /\ GoodPath(q, R) /\ q.produced = p.produced
      /\ m[1] \in SM!Epoch /\ m[2] \in SUBSET R
      /\ m[2] \subseteq OnPath(p, R, m[1])
      /\ OnPath(q, R, m[1]) = OnPath(p, R, m[1]) \ m[2]
      /\ \A t \in SM!Epoch : t # m[1] => OnPath(q, R, t) = OnPath(p, R, t)

LEMMA TakeHead ==
  ASSUME NEW p, NEW R, GoodPath(p, R), NEW w \in Target, p.channel[w] # <<>>,
         NEW q, q = [p EXCEPT !.channel[w] = Tail(@)]
  PROVE  TakenOff(p, R, w, q)
<1> DEFINE m == Head(p.channel[w])
           s == p.channel[w]
           M == SM!Epoch \X SUBSET R
           n == Len(s)
<1>1. p \in PathType(R)
  BY DEF GoodPath
<1>2. s \in Seq(M) /\ \A v \in Target : p.channel[v] \in Seq(M)
  BY <1>1 DEF PathType
<1>3. /\ n \in Nat /\ n > 0 /\ m = s[1] /\ m \in M /\ DOMAIN s = 1 .. n
      /\ Tail(s) \in Seq(M) /\ DOMAIN Tail(s) = 1 .. n - 1
      /\ \A k \in 1 .. n - 1 : Tail(s)[k] = s[k + 1]
  <2> HIDE DEF M
  <2> QED
    BY <1>2
<1>4. m[1] \in SM!Epoch /\ m[2] \in SUBSET R
  BY <1>3
<1>5. /\ q \in PathType(R) /\ q.produced = p.produced /\ q.current = p.current /\ q.held = p.held
      /\ \A v \in Target : q.channel[v] = IF v = w THEN Tail(s) ELSE p.channel[v]
  <2> DEFINE c == [p.channel EXCEPT ![w] = Tail(s)]
  <2>1. q = [p EXCEPT !.channel = c]
    BY <1>1 DEF PathType
  <2>2. /\ c \in [Target -> Seq(M)]
        /\ \A v \in Target : c[v] = IF v = w THEN Tail(s) ELSE p.channel[v]
    <3>1. p.channel \in [Target -> Seq(M)] /\ Tail(s) \in Seq(M)
      BY <1>1, <1>3 DEF PathType
    <3> HIDE DEF s, M
    <3> QED
      BY <3>1
  <2> HIDE DEF c, s
  <2> QED
    BY <1>1, <2>1, <2>2 DEF PathType
<1> HIDE DEF m, s, M
<1>6. ASSUME NEW k \in DOMAIN q.channel[w]
      PROVE  k + 1 \in DOMAIN s /\ k + 1 # 1 /\ q.channel[w][k] = s[k + 1]
  <2>1. q.channel[w] = Tail(s)
    BY <1>5
  <2> HIDE DEF n
  <2>2. k \in 1 .. n - 1 /\ n \in Nat /\ Tail(s)[k] = s[k + 1]
    BY <1>3, <1>6, <2>1
  <2>3. k + 1 \in 1 .. n /\ k + 1 # 1
    BY <2>2
  <2> QED
    BY <1>3, <2>1, <2>2, <2>3
<1>7. ASSUME NEW k \in DOMAIN s, k # 1
      PROVE  k - 1 \in DOMAIN q.channel[w] /\ q.channel[w][k - 1] = s[k]
  <2>1. q.channel[w] = Tail(s)
    BY <1>5
  <2> HIDE DEF n
  <2>2. n \in Nat /\ k \in 1 .. n
    BY <1>3, <1>7
  <2>3. k - 1 \in 1 .. n - 1 /\ (k - 1) + 1 = k
    BY <1>7, <2>2
  <2>4. Tail(s)[k - 1] = s[(k - 1) + 1]
    BY <1>3, <2>3
  <2> QED
    BY <1>3, <2>1, <2>3, <2>4
<1>8. GoodPath(q, R)
  <2>1. /\ \A i, j \in q.current : i = j
        /\ \A v \in Target : q.held[v] # {} => q.current # {}
        /\ \A v \in Target : \A r \in q.held[v] : r[2] = v
    BY <1>5 DEF GoodPath
  <2>2. ASSUME NEW v \in Target, NEW k \in DOMAIN q.channel[v], NEW r \in q.channel[v][k][2]
        PROVE  r[2] = v /\ r \notin q.held[v]
    <3>1. CASE v # w
      BY <3>1, <1>5, <2>2 DEF GoodPath
    <3>2. CASE v = w
      <4>1. k + 1 \in DOMAIN p.channel[w] /\ r \in p.channel[w][k + 1][2]
        BY <3>2, <1>6, <2>2 DEF s
      <4> QED
        BY <3>2, <4>1, <1>5 DEF GoodPath
    <3> QED
      BY <3>1, <3>2
  <2>3. ASSUME NEW v \in Target, NEW k \in DOMAIN q.channel[v], NEW l \in DOMAIN q.channel[v], k # l
        PROVE  q.channel[v][k][2] \cap q.channel[v][l][2] = {}
    <3>1. CASE v # w
      BY <3>1, <1>5, <2>3 DEF GoodPath
    <3>2. CASE v = w
      <4>1. /\ k + 1 \in DOMAIN p.channel[w] /\ q.channel[w][k] = p.channel[w][k + 1]
            /\ l + 1 \in DOMAIN p.channel[w] /\ q.channel[w][l] = p.channel[w][l + 1]
        BY <3>2, <1>6, <2>3 DEF s
      <4>2. k + 1 # l + 1
        BY <3>2, <1>3, <1>5, <2>3
      <4> QED
        BY <3>2, <4>1, <4>2 DEF GoodPath
    <3> QED
      BY <3>1, <3>2
  <2>4. ASSUME NEW v \in Target, NEW k \in DOMAIN q.channel[v]
        PROVE  q.channel[v][k][2] # {}
    <3>1. CASE v # w
      BY <3>1, <1>5, <2>4 DEF GoodPath
    <3>2. CASE v = w
      <4>1. k + 1 \in DOMAIN p.channel[w] /\ q.channel[w][k] = p.channel[w][k + 1]
        BY <3>2, <1>6, <2>4 DEF s
      <4> QED
        BY <3>2, <4>1 DEF GoodPath
    <3> QED
      BY <3>1, <3>2
  <2> QED
    BY <1>5, <2>1, <2>2, <2>3, <2>4 DEF GoodPath
<1>9. \A r \in m[2] : r \in R /\ r[2] = w /\ r \notin p.held[w]
  BY <1>3, <1>4 DEF GoodPath, s
<1>10. m[2] \subseteq OnPath(p, R, m[1])
  BY <1>3, <1>9 DEF OnPath, s
<1>11. ASSUME NEW t \in SM!Epoch, NEW r \in OnPath(q, R, t)
       PROVE  r \in OnPath(p, R, t) /\ r \notin m[2]
  <2>1. r \in R
    BY <1>11 DEF OnPath
  <2>2. PICK v \in Target :
          \/ t \in q.current /\ r \in q.held[v]
          \/ \E k \in DOMAIN q.channel[v] : q.channel[v][k][1] = t /\ r \in q.channel[v][k][2]
    BY <1>11 DEF OnPath
  <2>3. CASE t \in q.current /\ r \in q.held[v]
    <3>1. r \in OnPath(p, R, t)
      BY <2>1, <2>3, <1>5 DEF OnPath
    <3>2. r[2] = v /\ r \in p.held[v]
      BY <2>3, <1>5 DEF GoodPath
    <3> QED
      BY <3>1, <3>2, <1>9
  <2>4. CASE \E k \in DOMAIN q.channel[v] : q.channel[v][k][1] = t /\ r \in q.channel[v][k][2]
    <3>1. PICK k \in DOMAIN q.channel[v] : q.channel[v][k][1] = t /\ r \in q.channel[v][k][2]
      BY <2>4
    <3>2. CASE v # w
      <4>1. r \in OnPath(p, R, t)
        BY <2>1, <3>1, <3>2, <1>5 DEF OnPath
      <4>2. r[2] = v
        BY <3>1, <1>8 DEF GoodPath
      <4> QED
        BY <3>2, <4>1, <4>2, <1>9
    <3>3. CASE v = w
      <4>1. /\ k + 1 \in DOMAIN s /\ k + 1 # 1
            /\ s[k + 1][1] = t /\ r \in s[k + 1][2]
        BY <3>1, <3>3, <1>6
      <4>2. r \in OnPath(p, R, t)
        BY <2>1, <4>1 DEF OnPath, s
      <4>3. s[k + 1][2] \cap s[1][2] = {}
        BY <4>1, <1>3 DEF GoodPath, s
      <4> QED
        BY <4>1, <4>2, <4>3, <1>3
    <3> QED
      BY <3>2, <3>3
  <2> QED
    BY <2>2, <2>3, <2>4
<1>12. ASSUME NEW t \in SM!Epoch, NEW r \in OnPath(p, R, t), t # m[1] \/ r \notin m[2]
       PROVE  r \in OnPath(q, R, t)
  <2>1. r \in R
    BY <1>12 DEF OnPath
  <2>2. PICK v \in Target :
          \/ t \in p.current /\ r \in p.held[v]
          \/ \E k \in DOMAIN p.channel[v] : p.channel[v][k][1] = t /\ r \in p.channel[v][k][2]
    BY <1>12 DEF OnPath
  <2>3. CASE t \in p.current /\ r \in p.held[v]
    BY <2>1, <2>3, <1>5 DEF OnPath
  <2>4. CASE \E k \in DOMAIN p.channel[v] : p.channel[v][k][1] = t /\ r \in p.channel[v][k][2]
    <3>1. PICK k \in DOMAIN p.channel[v] : p.channel[v][k][1] = t /\ r \in p.channel[v][k][2]
      BY <2>4
    <3>2. CASE v # w
      BY <2>1, <3>1, <3>2, <1>5 DEF OnPath
    <3>3. CASE v = w
      <4>1. k \in DOMAIN s /\ s[k][1] = t /\ r \in s[k][2]
        BY <3>1, <3>3 DEF s
      <4>2. k # 1
        BY <4>1, <1>3, <1>12
      <4>3. k - 1 \in DOMAIN q.channel[w] /\ q.channel[w][k - 1] = s[k]
        BY <4>1, <4>2, <1>7
      <4> QED
        BY <2>1, <4>1, <4>3 DEF OnPath
    <3> QED
      BY <3>2, <3>3
  <2> QED
    BY <2>2, <2>3, <2>4
<1>13. OnPath(q, R, m[1]) = OnPath(p, R, m[1]) \ m[2]
  BY <1>4, <1>11, <1>12
<1>14. \A t \in SM!Epoch : t # m[1] => OnPath(q, R, t) = OnPath(p, R, t)
  BY <1>11, <1>12
<1> QED
  BY <1>4, <1>5, <1>8, <1>10, <1>13, <1>14 DEF TakenOff, m

\* A receiver consumes exactly what a message holds.
LEMMA ReceiveKeeps ==
  ASSUME SInv, NEW w \in Target, SM!Receive(w)
  PROVE  SInv'
<1> DEFINE m == Head(sm_path.channel[w])
           n == Cardinality(m[2])
<1> USE DEF SM!Receive
<1>1. /\ sm_messages \in [SM!Epoch -> Int] /\ GoodPath(sm_path, Given)
      /\ sm_path.produced \in [SM!Epoch -> Nat]
      /\ \A t \in SM!Epoch :
           sm_messages[t] + sm_path.produced[t] = Cardinality(OnPath(sm_path, Given, t))
      /\ sm_sent \in Nat
  BY DEF SInv, StreamsType, Sound, GoodPath, PathType
<1>2. sm_path.channel[w] # <<>> /\ sm_path' = [sm_path EXCEPT !.channel[w] = Tail(@)]
  OBVIOUS
<1>3. /\ GoodPath(sm_path', Given) /\ sm_path'.produced = sm_path.produced
      /\ m[1] \in SM!Epoch /\ m[2] \in SUBSET Given
      /\ m[2] \subseteq OnPath(sm_path, Given, m[1])
      /\ OnPath(sm_path', Given, m[1]) = OnPath(sm_path, Given, m[1]) \ m[2]
      /\ \A t \in SM!Epoch : t # m[1] => OnPath(sm_path', Given, t) = OnPath(sm_path, Given, t)
  <2>1. TakenOff(sm_path, Given, w, sm_path')
    <3> HIDE DEF SM!Receive
    <3> QED
      BY <1>1, <1>2, TakeHead
  <2> QED
    BY <2>1 DEF TakenOff
<1>4. sm_messages' = [sm_messages EXCEPT ![m[1]] = sm_messages[m[1]] + (-n)]
  BY SameCardinality DEF SM!Plus
<1> HIDE DEF m
<1>5. Given' = Given
  BY DEF Given
<1>6. IsFiniteSet(Given) /\ \A t : OnPath(sm_path, Given, t) \subseteq Given
  <2>1. Given \subseteq Records(sm_sent)
    BY DEF Given
  <2> QED
    BY <1>1, <2>1, RecordsFinite, FS_Subset DEF OnPath
<1>7. /\ n \in Nat
      /\ Cardinality(OnPath(sm_path', Given, m[1])) = Cardinality(OnPath(sm_path, Given, m[1])) - n
      /\ Cardinality(OnPath(sm_path, Given, m[1])) \in Nat
  <2> DEFINE A == OnPath(sm_path, Given, m[1])
             B == m[2]
  <2>1. IsFiniteSet(A) /\ IsFiniteSet(B) /\ A \cap B = B
    BY <1>3, <1>6, FS_Subset
  <2> HIDE DEF A, B
  <2>2. Cardinality(A) \in Nat /\ Cardinality(B) \in Nat
    BY <2>1, FS_CardinalityType
  <2>3. Cardinality(A \ B) = Cardinality(A) - Cardinality(A \cap B)
    BY <2>1, FS_Difference
  <2>4. Cardinality(A \ B) = Cardinality(A) - Cardinality(B)
    BY <2>1, <2>3
  <2> QED
    BY <1>3, <2>2, <2>4 DEF A, B
<1> HIDE DEF n
<1>8. /\ sm_messages' \in [SM!Epoch -> Int]
      /\ \A t \in SM!Epoch : sm_messages'[t] = IF t = m[1] THEN sm_messages[t] - n ELSE sm_messages[t]
  <2> DEFINE j == m[1]
  <2>1. /\ sm_messages \in [SM!Epoch -> Int] /\ j \in SM!Epoch /\ n \in Nat
        /\ sm_messages' = [sm_messages EXCEPT ![j] = sm_messages[j] + (-n)]
    BY <1>1, <1>3, <1>4, <1>7
  <2> HIDE DEF j
  <2>2. sm_messages[j] + (-n) \in Int /\ sm_messages[j] + (-n) = sm_messages[j] - n
    BY <2>1
  <2> QED
    BY <2>1, <2>2 DEF j
<1>9. Sound(sm_path, Given, sm_messages)'
  <2>1. ASSUME NEW t \in SM!Epoch
        PROVE  sm_messages'[t] + sm_path'.produced[t] = Cardinality(OnPath(sm_path', Given, t))
    <3>1. /\ sm_messages[t] + sm_path.produced[t] = Cardinality(OnPath(sm_path, Given, t))
          /\ sm_messages[t] \in Int /\ sm_path.produced[t] \in Nat
          /\ sm_path'.produced[t] = sm_path.produced[t]
      BY <1>1, <1>3
    <3>2. CASE t = m[1]
      BY <1>7, <1>8, <3>1, <3>2
    <3>3. CASE t # m[1]
      BY <1>3, <1>8, <3>1, <3>3
    <3> QED
      BY <3>2, <3>3
  <2> QED
    BY <1>3, <1>5, <2>1 DEF Sound
<1>10. StreamsType'
  BY <1>8 DEF SInv, StreamsType
<1>11. sm_attached
  BY <1>2 DEF SInv, Detached, NoPath
<1>12. Handles' /\ Detached' /\ CapsCounted'
  BY <1>11 DEF SInv, Handles, Detached, CapsCounted
<1>13. Covers'
  <2>1. \A t \in SM!Epoch : HeldBack(t)' => HeldBack(t) /\ t \in 0 .. t
    BY <1>3, EpochNat DEF HeldBack
  <2> QED
    BY <2>1, CoversKept
<1> QED
  BY <1>9, <1>10, <1>12, <1>13 DEF SInv

\* Every step keeps the invariant.
LEMMA SStep == SInv /\ [SM!Next]_sm_vars => SInv'
<1> SUFFICES ASSUME SInv, [SM!Next]_sm_vars
             PROVE  SInv'
  OBVIOUS
<1>1. CASE SM!Next
  BY <1>1, SendKeeps, SendBatchKeeps, RegisterKeeps, AdvanceToKeeps, CloseKeeps, OpenSessionKeeps,
     CloseSessionKeeps, CapabilitiesKeep, ScheduleKeeps, ReceiveKeeps, EpochNat DEF SM!Next
<1>2. CASE UNCHANGED sm_vars
  <2>1. /\ UNCHANGED <<sm_kind, sm_now, sm_held, sm_session, sm_attached, sm_buffer, sm_internal>>
        /\ UNCHANGED <<sm_path, sm_caps, sm_messages, sm_sent>>
    BY <1>2 DEF sm_vars
  <2>2. Given' = Given
    BY <2>1 DEF Given
  <2>3. StreamsType' /\ Handles' /\ Detached' /\ CapsCounted'
    BY <2>1 DEF SInv, StreamsType, Handles, Detached, CapsCounted
  <2>4. Covers' /\ Sound(sm_path, Given, sm_messages)'
    BY <2>1, <2>2 DEF SInv, Covers, HeldBack, Sound
  <2> QED
    BY <2>3, <2>4 DEF SInv
<1> QED
  BY <1>1, <1>2

\* While a record waits or is on its way its time is covered: the counts that say so
\* are positive, or something unreported is and a capability covers it.
LEMMA SCovered == SInv => RecordsCovered
<1> SUFFICES ASSUME SInv, NEW t \in SM!Waiting
             PROVE  \E s \in 0 .. t : sm_caps[s] > 0 \/ sm_messages[s] > 0
  BY DEF RecordsCovered, SM!RecordsCovered
<1>1. /\ GoodPath(sm_path, Given) /\ sm_path \in PathType(Given) /\ sm_sent \in Nat
      /\ sm_messages \in [SM!Epoch -> Int] /\ sm_path.produced \in [SM!Epoch -> Nat]
  BY DEF SInv, StreamsType, Sound, GoodPath, PathType
<1>2. CASE sm_attached /\ t \in SM!OpenTimes
  <2>1. t \in SM!Epoch /\ HeldBack(t)
    BY <1>2, OpenFacts DEF HeldBack
  <2> QED
    BY <1>2, <2>1 DEF SInv, Covers
<1>3. ASSUME NEW w \in Target, NEW r, t \in SM!Epoch, r \in OnPath(sm_path, Given, t)
      PROVE  \E s \in 0 .. t : sm_caps[s] > 0 \/ sm_messages[s] > 0
  <2> DEFINE W == OnPath(sm_path, Given, t)
  <2>1. sm_attached
    BY <1>3 DEF SInv, Detached, NoPath, OnPath
  <2>2. IsFiniteSet(W) /\ W # {}
    <3>1. W \subseteq Records(sm_sent)
      BY DEF OnPath, Given
    <3> QED
      BY <1>1, <1>3, <3>1, RecordsFinite, FS_Subset
  <2> HIDE DEF W
  <2>3. Cardinality(W) \in Nat /\ Cardinality(W) # 0
    BY <2>2, FS_CardinalityType, FS_EmptySet
  <2>4. sm_messages[t] + sm_path.produced[t] = Cardinality(W)
    BY <1>3 DEF W, SInv, Sound
  <2>5. sm_messages[t] > 0 \/ sm_path.produced[t] > 0
    BY <1>1, <1>3, <2>3, <2>4
  <2>6. t \in 0 .. t
    BY <1>3, EpochNat
  <2> QED
    BY <1>3, <2>1, <2>5, <2>6 DEF SInv, Covers, HeldBack
<1>4. CASE \E w \in Target : sm_path.held[w] # {} /\ t \in sm_path.current
  <2>0. PICK w \in Target : sm_path.held[w] # {} /\ t \in sm_path.current
    BY <1>4
  <2>1. PICK r \in sm_path.held[w] : TRUE
    BY <2>0
  <2>2. t \in SM!Epoch /\ r \in OnPath(sm_path, Given, t)
    BY <1>1, <2>0, <2>1 DEF OnPath, PathType
  <2> QED
    BY <1>3, <2>0, <2>1, <2>2
<1>5. ASSUME NEW w \in Target, NEW k \in 1 .. Len(sm_path.channel[w]),
             t = sm_path.channel[w][k][1]
      PROVE  \E s \in 0 .. t : sm_caps[s] > 0 \/ sm_messages[s] > 0
  <2>1. sm_path.channel[w] \in Seq(SM!Epoch \X SUBSET Given)
    BY <1>1 DEF PathType
  <2>2. k \in DOMAIN sm_path.channel[w] /\ sm_path.channel[w][k] \in SM!Epoch \X SUBSET Given
    BY <1>5, <2>1
  <2>3. PICK r \in sm_path.channel[w][k][2] : TRUE
    BY <1>1, <2>2 DEF GoodPath
  <2>4. t \in SM!Epoch /\ r \in OnPath(sm_path, Given, t)
    BY <1>5, <2>2, <2>3 DEF OnPath
  <2> QED
    BY <1>3, <2>4
<1>6. \/ sm_attached /\ t \in SM!OpenTimes
      \/ \E w \in Target : sm_path.held[w] # {} /\ t \in sm_path.current
      \/ \E w \in Target : \E k \in 1 .. Len(sm_path.channel[w]) : t = sm_path.channel[w][k][1]
  BY DEF SM!Waiting
<1> QED
  BY <1>2, <1>4, <1>5, <1>6

-----------------------------------------------------------------------------
(* Streams: the theorem *)

\* No frontier passes a record that the input or the exchange still holds, at any
\* point of any sequence of sends, sessions, closes and steps of the worker, as far as
\* what was reported decides the frontier.
THEOREM InputsCovered == AnySpec => []RecordsCovered
<1>1. AnyInit => SInv
  BY SInit DEF AnyInit
<1>2. SInv /\ [AnyNext]_any_vars => SInv'
  <2>1. [AnyNext]_any_vars => [SM!Next]_sm_vars
    BY DEF AnyNext, any_vars, sm_vars
  <2> QED
    BY <2>1, SStep
<1> QED
  BY <1>1, <1>2, SCovered, PTL DEF AnySpec

-----------------------------------------------------------------------------
(* Sequencing: sequences of messages and how they are sorted *)

\* What a sink keeps, the strict order of keys, and what each sender keeps to.
Kept == [time : Nat, counter : Nat, element : Nat]
Earlier(m, n) == m.time < n.time \/ (m.time = n.time /\ m.counter < n.counter)

Rising(s) == \A j, k \in 1 .. Len(s) : j < k => Earlier(s[j], s[k])
Entries(s) == {s[k] : k \in 1 .. Len(s)}

Distinct(s) == \A j, k \in 1 .. Len(s) : j # k => s[j] # s[k]

\* What a sink makes of it: no key after a greater one, and nothing twice.
Settled(s) == \A j, k \in 1 .. Len(s) : j < k => SQ!NotAfter(s[j], s[k]) /\ s[j] # s[k]

LEMMA EarlierOrder ==
  /\ \A m \in Kept : ~Earlier(m, m)
  /\ \A m, n \in Kept : Earlier(m, n) => ~Earlier(n, m)
  /\ \A l, m, n \in Kept : Earlier(l, m) /\ Earlier(m, n) => Earlier(l, n)
BY DEF Earlier, Kept

LEMMA Smallest ==
  ASSUME NEW S, S \subseteq Nat, S # {}
  PROVE  \E m \in S : \A s \in S : m <= s
<1>1. PICK m \in S : \A s \in S : ~(<<s, m>> \in OpToRel(<, Nat))
  BY NatLessThanWellFounded, WFMin
<1>2. ASSUME NEW s \in S PROVE m <= s
  <2> SUFFICES ASSUME s < m PROVE FALSE
    OBVIOUS
  <2>1. s \in Nat /\ m \in Nat /\ s < m
    OBVIOUS
  <2>2. <<s, m>> \in OpToRel(<, Nat)
    BY <2>1 DEF OpToRel
  <2> QED
    BY <1>1, <2>2
<1> QED
  BY <1>2

LEMMA EqualCardinality == \A S : SQ!Cardinality(S) = Cardinality(S)
BY DEF SQ!Cardinality, Cardinality

\* The ranks of entries that are all different are the positions of the sorted sequence.
LEMMA RanksArePositions ==
  ASSUME NEW L \in Nat, NEW r \in [1 .. L -> 1 .. L],
         \A j, k \in 1 .. L : r[j] = r[k] => j = k,
         NEW i \in 1 .. L
  PROVE  \E k \in 1 .. L : r[k] = i
<1>1. IsFiniteSet(1 .. L)
  BY FS_Interval
<1>2. r \in Injection(1 .. L, 1 .. L)
  BY DEF Injection, IsInjective
<1>3. r \in Surjection(1 .. L, 1 .. L)
  BY <1>1, <1>2, FS_Injection
<1> QED
  BY <1>3 DEF Surjection

\* Where sort_by puts positions: by key, and those of one key as they were.
First(all, j, k) ==
  \/ all[j].time < all[k].time
  \/ /\ all[j].time = all[k].time
     /\ all[j].counter < all[k].counter \/ (all[j].counter = all[k].counter /\ j <= k)

LEMMA FirstOrder ==
  ASSUME NEW L \in Nat, NEW all, \A k \in 1 .. L : all[k] \in Kept
  PROVE  /\ \A j, k \in 1 .. L : SQ!Precedes(all, j, k) <=> First(all, j, k)
         /\ \A j, k \in 1 .. L : First(all, j, k) => SQ!NotAfter(all[j], all[k])
         /\ \A j \in 1 .. L : First(all, j, j)
         /\ \A j, k \in 1 .. L : First(all, j, k) \/ First(all, k, j)
         /\ \A j, k \in 1 .. L : First(all, j, k) /\ First(all, k, j) => j = k
         /\ \A i, j, k \in 1 .. L : First(all, i, j) /\ First(all, j, k) => First(all, i, k)
<1>1. \A k \in 1 .. L : k \in Nat /\ all[k].time \in Nat /\ all[k].counter \in Nat
  BY DEF Kept
<1>2. \A j, k \in 1 .. L : SQ!Precedes(all, j, k) <=> First(all, j, k)
  BY <1>1 DEF SQ!Precedes, SQ!NotAfter, First
<1>3. \A j, k \in 1 .. L : First(all, j, k) => SQ!NotAfter(all[j], all[k])
  BY <1>1 DEF SQ!NotAfter, First
<1>4. /\ \A j \in 1 .. L : First(all, j, j)
      /\ \A j, k \in 1 .. L : First(all, j, k) \/ First(all, k, j)
      /\ \A j, k \in 1 .. L : First(all, j, k) /\ First(all, k, j) => j = k
  BY <1>1 DEF First
<1>5. \A i, j, k \in 1 .. L : First(all, i, j) /\ First(all, j, k) => First(all, i, k)
  BY <1>1 DEF First
<1> QED
  BY <1>2, <1>3, <1>4, <1>5

\* `sort_by' on messages that are all different: what it returns has the same entries,
\* and no key after a greater one.
LEMMA SortedFacts ==
  ASSUME NEW s \in Seq(Kept), NEW t \in Seq(Kept), Distinct(s \o t)
  PROVE  /\ SQ!Sorted(s, t) \in Seq(Kept)
         /\ Settled(SQ!Sorted(s, t))
         /\ Entries(SQ!Sorted(s, t)) = Entries(s \o t)
<1> DEFINE all == s \o t
           below(k) == {j \in DOMAIN all : SQ!Precedes(all, j, k)}
           p(i) == CHOOSE k \in DOMAIN all : SQ!Cardinality(below(k)) = i
<1>1. PICK L \in Nat : /\ all \in Seq(Kept) /\ Len(all) = L /\ DOMAIN all = 1 .. L
                       /\ \A k \in 1 .. L : all[k] \in Kept
  <2>1. all \in Seq(Kept)
    BY ConcatProperties
  <2> HIDE DEF all
  <2> QED
    BY <2>1, LenProperties, ElementOfSeq
<1>2. SQ!Sorted(s, t) = [i \in 1 .. L |-> all[p(i)]]
  BY <1>1 DEF SQ!Sorted
<1>3. \A j, k \in 1 .. L : j # k => all[j] # all[k]
  BY <1>1 DEF Distinct
<1> HIDE DEF all
<1>4. \A j, k \in 1 .. L : j \in below(k) <=> First(all, j, k)
  <2>1. \A j, k \in 1 .. L : SQ!Precedes(all, j, k) <=> First(all, j, k)
    BY <1>1, FirstOrder
  <2> QED
    BY <1>1, <2>1
<1> DEFINE r == [k \in 1 .. L |-> Cardinality(below(k))]
<1>5. ASSUME NEW k \in 1 .. L
      PROVE  below(k) \in SUBSET (1 .. L) /\ k \in below(k)
  <2>1. below(k) \in SUBSET (1 .. L)
    BY <1>1
  <2>2. First(all, k, k)
    BY <1>1, FirstOrder
  <2> HIDE DEF below
  <2> QED
    BY <1>4, <2>1, <2>2
<1>6. \A k \in 1 .. L : SQ!Cardinality(below(k)) = r[k] /\ r[k] = Cardinality(below(k))
  BY EqualCardinality
<1>7. ASSUME NEW i \in 1 .. L, \E k \in 1 .. L : r[k] = i
      PROVE  p(i) \in 1 .. L /\ r[p(i)] = i
  <2>1. \E k \in DOMAIN all : SQ!Cardinality(below(k)) = i
    BY <1>1, <1>6, <1>7
  <2>2. p(i) \in DOMAIN all /\ SQ!Cardinality(below(p(i))) = i
    BY <2>1
  <2> HIDE DEF p, r, below
  <2> QED
    BY <1>1, <1>6, <2>2
<1> HIDE DEF below, r, p
<1>8. ASSUME NEW k \in 1 .. L
      PROVE  IsFiniteSet(below(k)) /\ r[k] \in 1 .. L
  <2>1. IsFiniteSet(1 .. L) /\ Cardinality(1 .. L) = L
    BY FS_Interval
  <2>2. IsFiniteSet(below(k)) /\ Cardinality(below(k)) <= L
    BY <1>5, <2>1, FS_Subset
  <2>3. Cardinality(below(k)) \in Nat
    BY <2>2, FS_CardinalityType
  <2>4. Cardinality(below(k)) # 0
    BY <1>5, <2>2, FS_EmptySet
  <2> QED
    BY <1>6, <2>2, <2>3, <2>4
<1>9. r \in [1 .. L -> 1 .. L]
  <2>1. r = [k \in 1 .. L |-> r[k]]
    BY DEF r
  <2> QED
    BY <1>8, <2>1
<1>17. /\ \A j, k \in 1 .. L : First(all, j, k) => SQ!NotAfter(all[j], all[k])
       /\ \A j, k \in 1 .. L : First(all, j, k) \/ First(all, k, j)
       /\ \A j, k \in 1 .. L : First(all, j, k) /\ First(all, k, j) => j = k
       /\ \A i, j, k \in 1 .. L : First(all, i, j) /\ First(all, j, k) => First(all, i, k)
  BY <1>1, FirstOrder
<1>10. ASSUME NEW j \in 1 .. L, NEW k \in 1 .. L, j # k, First(all, j, k)
       PROVE  r[j] < r[k]
  <2>0. \A i \in 1 .. L : i \in below(j) => i \in below(k)
    BY <1>4, <1>10, <1>17
  <2>1. below(j) \in SUBSET below(k)
    BY <1>5, <2>0
  <2>2. k \in below(k) /\ k \notin below(j)
    BY <1>4, <1>5, <1>10, <1>17
  <2>3. Cardinality(below(j)) <= Cardinality(below(k)) /\ Cardinality(below(j)) # Cardinality(below(k))
    BY <1>8, <2>1, <2>2, FS_Subset
  <2>4. r[j] <= r[k] /\ r[j] # r[k]
    BY <1>6, <2>3
  <2>5. r[j] \in Nat /\ r[k] \in Nat
    BY <1>8
  <2> QED
    BY <2>4, <2>5
<1>11. ASSUME NEW j \in 1 .. L, NEW k \in 1 .. L, r[j] = r[k]
       PROVE  j = k
  <2>1. r[j] \in Nat /\ r[k] \in Nat
    BY <1>8
  <2> QED
    BY <1>10, <1>11, <1>17, <2>1
<1>12. ASSUME NEW i \in 1 .. L
       PROVE  p(i) \in 1 .. L /\ r[p(i)] = i
  <2>1. \E k \in 1 .. L : r[k] = i
    BY <1>9, <1>11, RanksArePositions
  <2> QED
    BY <1>7, <2>1
<1>13. \A i \in 1 .. L : SQ!Sorted(s, t)[i] = all[p(i)]
  BY <1>2
<1>14. SQ!Sorted(s, t) \in Seq(Kept) /\ Len(SQ!Sorted(s, t)) = L
  <2>1. SQ!Sorted(s, t) \in [1 .. L -> Kept]
    BY <1>1, <1>2, <1>12
  <2> QED
    BY <2>1
<1>15. Settled(SQ!Sorted(s, t))
  <2>1. ASSUME NEW i \in 1 .. L, NEW j \in 1 .. L, i < j
        PROVE  /\ SQ!NotAfter(SQ!Sorted(s, t)[i], SQ!Sorted(s, t)[j])
               /\ SQ!Sorted(s, t)[i] # SQ!Sorted(s, t)[j]
    <3>1. p(i) \in 1 .. L /\ p(j) \in 1 .. L /\ r[p(i)] = i /\ r[p(j)] = j
      BY <1>12
    <3>2. p(i) # p(j) /\ ~(j < i)
      BY <2>1, <3>1
    <3>3. First(all, p(i), p(j))
      BY <1>10, <1>17, <3>1, <3>2
    <3> QED
      BY <1>3, <1>13, <1>17, <3>1, <3>2, <3>3
  <2> QED
    BY <1>14, <2>1 DEF Settled
<1>16. Entries(SQ!Sorted(s, t)) = Entries(all)
  <2>1. \A i \in 1 .. L : \E k \in 1 .. L : SQ!Sorted(s, t)[i] = all[k]
    BY <1>12, <1>13
  <2>2. ASSUME NEW k \in 1 .. L
        PROVE  \E i \in 1 .. L : SQ!Sorted(s, t)[i] = all[k]
    <3>1. r[k] \in 1 .. L
      BY <1>9
    <3>2. p(r[k]) = k
      BY <1>11, <1>12, <3>1
    <3> QED
      BY <1>13, <3>1, <3>2
  <2>3. Len(SQ!Sorted(s, t)) = L /\ Len(all) = L
    BY <1>1, <1>14
  <2>4. \A x : x \in Entries(SQ!Sorted(s, t)) <=> \E i \in 1 .. L : x = SQ!Sorted(s, t)[i]
    BY <2>3 DEF Entries
  <2>5. \A x : x \in Entries(all) <=> \E k \in 1 .. L : x = all[k]
    BY <2>3 DEF Entries
  <2>6. \A x : x \in Entries(SQ!Sorted(s, t)) <=> x \in Entries(all)
    BY <2>1, <2>2, <2>4, <2>5
  <2> QED
    BY <2>6
<1> QED
  BY <1>14, <1>15, <1>16 DEF all

\* A set of positions that includes every position before its members: `count' finds
\* it by its size.
LEMMA InitialPositions ==
  ASSUME NEW L \in Nat, NEW D \in SUBSET (1 .. L),
         \A j, k \in 1 .. L : j < k /\ k \in D => j \in D
  PROVE  Cardinality(D) \in 0 .. L /\ D = 1 .. Cardinality(D)
<1> DEFINE Out == {n \in Nat : n + 1 \notin D}
<1>1. L \in Out
  OBVIOUS
<1>2. PICK n \in Out : \A m \in Out : n <= m
  BY <1>1, Smallest
<1>3. n <= L
  BY <1>1, <1>2
<1>4. D = 1 .. n
  <2>1. ASSUME NEW k \in 1 .. n PROVE k \in D
    <3>1. k - 1 \in Nat /\ ~(n <= k - 1)
      OBVIOUS
    <3> QED
      BY <1>2, <3>1
  <2>2. ASSUME NEW k \in D PROVE k <= n
    <3>1. k \in 1 .. L
      OBVIOUS
    <3>2. CASE k > n
      <4>1. n + 1 \notin D
        BY <1>2
      <4>2. n + 1 \in 1 .. L /\ (n + 1 < k \/ n + 1 = k)
        BY <3>1, <3>2
      <4> QED
        BY <3>1, <4>1, <4>2
    <3> QED
      BY <3>1, <3>2
  <2>0. n \in Nat
    OBVIOUS
  <2> HIDE DEF Out
  <2>3. \A k : k \in D <=> k \in 1 .. n
    <3>1. \A k \in D : k \in Nat /\ 1 <= k
      OBVIOUS
    <3>2. \A k \in D : k \in 1 .. n
      BY <2>0, <2>2, <3>1
    <3>3. \A k \in 1 .. n : k \in D
      BY <2>1
    <3> QED
      BY <3>2, <3>3
  <2> QED
    BY <2>3
<1>5. Cardinality(D) = n
  BY <1>4, FS_Interval
<1> QED
  BY <1>3, <1>4, <1>5

\* What the sink releases of a sorted vector are the messages before the frontier.
LEMMA ReleasedFacts ==
  ASSUME NEW s \in Seq(Kept), Settled(s), NEW f \in Nat
  PROVE  /\ SQ!Released(s, f) \in 0 .. Len(s)
         /\ \A k \in 1 .. Len(s) : s[k].time < f <=> k <= SQ!Released(s, f)
<1> DEFINE D == {k \in 1 .. Len(s) : s[k].time < f}
<1>1. Len(s) \in Nat /\ \A k \in 1 .. Len(s) : s[k] \in Kept
  BY LenProperties, ElementOfSeq
<1>2. ASSUME NEW j \in 1 .. Len(s), NEW k \in 1 .. Len(s), j < k, k \in D
      PROVE  j \in D
  <2>1. SQ!NotAfter(s[j], s[k]) /\ s[k].time < f
    BY <1>2 DEF Settled
  <2> QED
    BY <1>1, <2>1 DEF SQ!NotAfter, Kept
<1>3. Cardinality(D) \in 0 .. Len(s) /\ D = 1 .. Cardinality(D)
  <2> HIDE DEF D
  <2>1. D \in SUBSET (1 .. Len(s))
    BY DEF D
  <2> QED
    BY <1>1, <1>2, <2>1, InitialPositions
<1>4. SQ!Released(s, f) = Cardinality(D)
  BY EqualCardinality DEF SQ!Released
<1> QED
  BY <1>1, <1>3, <1>4

-----------------------------------------------------------------------------
(* Sequencing: the inductive invariant *)

Stamps(stamp) == {stamp[e] : e \in DOMAIN stamp}

QTypes ==
  /\ sq_pusher \in Seq(Worker)
  /\ sq_alive \subseteq Worker
  /\ sq_send \in [Worker -> Seq(Nat)]
  /\ sq_recv \in [Worker -> Seq(Nat)]
  /\ sq_cap \in [Worker -> SUBSET Nat]
  /\ \A w \in sq_alive : sq_cap[w] # {}
  /\ sq_counter \in [Worker -> Nat]
  /\ sq_flight \in [Worker -> [Worker -> Seq(Kept)]]
  /\ sq_arrived \in [Worker -> Seq(Kept)]
  /\ sq_recvd \in [Worker -> Seq(Kept)]
  /\ sq_frontier \in [Worker -> Nat]

\* The message each element was sent in, the same to all workers, when it has been
\* sent: a worker's own are in the order it pushed them.
Stamped(stamp) ==
  /\ DOMAIN stamp \subseteq 1 .. Len(sq_pusher)
  /\ \A e \in DOMAIN stamp :
       /\ stamp[e] \in Kept /\ stamp[e].element = e
       /\ e \in DOMAIN sq_shown /\ stamp[e].time = sq_shown[e]
       /\ stamp[e].counter <= sq_counter[sq_pusher[e]]
       /\ \A c \in sq_cap[sq_pusher[e]] : stamp[e].time <= c
  /\ \A d, e \in DOMAIN stamp :
       sq_pusher[d] = sq_pusher[e] /\ d < e => Earlier(stamp[d], stamp[e])

PushedBy(w) == Cardinality({d \in 1 .. Len(sq_pusher) : sq_pusher[d] = w})

\* The counter in a message is its element's number among those of its worker: the
\* source's counter and what it has yet to send are all that its worker has pushed.
Numbered(stamp) ==
  /\ \A e \in DOMAIN stamp : stamp[e].counter = SQ!Number(e)
  /\ \A w \in Worker : \A k \in 1 .. Len(sq_send[w]) :
       SQ!Number(sq_send[w][k]) = sq_counter[w] + k
  /\ \A w \in sq_alive : PushedBy(w) = sq_counter[w] + Len(sq_send[w])

\* What w has pushed and its source has not sent.
Unsent(stamp, w) ==
  /\ \A k \in 1 .. Len(sq_send[w]) :
       /\ sq_send[w][k] \in 1 .. Len(sq_pusher)
       /\ sq_pusher[sq_send[w][k]] = w
       /\ \A e \in DOMAIN stamp : sq_pusher[e] = w => e < sq_send[w][k]
  /\ \A j, k \in 1 .. Len(sq_send[w]) : j < k => sq_send[w][j] < sq_send[w][k]

AtSink(w) == Entries(sq_recvd[w]) \cup Entries(sq_arrived[w])

OnWay(v, w) == Entries(sq_flight[v][w])

\* What w's sink has yet to release: nothing twice, nothing before passed[w], and, as
\* long as anybody listens, all the rest.
Pending(stamp, passed, w) ==
  /\ AtSink(w) \subseteq Stamps(stamp)
  /\ \A v \in Worker :
       /\ Rising(sq_flight[v][w])
       /\ OnWay(v, w) \subseteq Stamps(stamp) \ AtSink(w)
       /\ \A m \in OnWay(v, w) : sq_pusher[m.element] = v
  /\ Settled(sq_recvd[w])
  /\ \A j, k \in 1 .. Len(sq_arrived[w]) : j # k => sq_arrived[w][j] # sq_arrived[w][k]
  /\ Entries(sq_recvd[w]) \cap Entries(sq_arrived[w]) = {}
  /\ \A m \in Entries(sq_recvd[w]) : passed[w] <= m.time
  /\ w \in sq_alive =>
       \A m \in Stamps(stamp) :
         passed[w] <= m.time => m \in AtSink(w) \/ \E v \in Worker : m \in OnWay(v, w)

InTurn(stamp, d, e) == SQ!NotAfter(stamp[d], stamp[e]) /\ d # e

\* What w has been handed: the elements stamped before passed[w], in order.
Handed(stamp, passed, w) ==
  /\ passed[w] \in Nat /\ passed[w] <= sq_frontier[w]
  /\ sq_recv[w] \in Seq(DOMAIN stamp)
  /\ \A j, k \in 1 .. Len(sq_recv[w]) :
       j < k => InTurn(stamp, sq_recv[w][j], sq_recv[w][k])
  /\ \A e \in DOMAIN stamp : e \in Entries(sq_recv[w]) <=> stamp[e].time < passed[w]

Ahead(w) ==
  \A v \in Worker :
    /\ \A c \in sq_cap[v] : sq_frontier[w] <= c
    /\ \A m \in OnWay(v, w) \cup Entries(sq_arrived[w]) : sq_frontier[w] <= m.time

Ordering(stamp, passed) ==
  /\ Stamped(stamp) /\ Numbered(stamp)
  /\ \A w \in Worker : Unsent(stamp, w)
  /\ \A w \in Worker : Pending(stamp, passed, w)
  /\ \A w \in Worker : Handed(stamp, passed, w)
  /\ \A w \in Worker : Ahead(w)

QInv == QTypes /\ \E stamp, passed : Ordering(stamp, passed)

-----------------------------------------------------------------------------
(* Sequencing: each action keeps the invariant *)

LEMMA EntriesFacts ==
  ASSUME NEW S
  PROVE  /\ Entries(<<>>) = {}
         /\ \A s \in Seq(S) : Entries(s) \subseteq S
         /\ \A s, t \in Seq(S) : Entries(s \o t) = Entries(s) \cup Entries(t)
         /\ \A s \in Seq(S), x \in S : Entries(Append(s, x)) = Entries(s) \cup {x}
         /\ \A s \in Seq(S) : s # <<>> => Entries(s) = Entries(Tail(s)) \cup {s[1]}
<1>1. Entries(<<>>) = {}
  BY DEF Entries
<1>2. ASSUME NEW s \in Seq(S) PROVE Entries(s) \subseteq S
  BY ElementOfSeq DEF Entries
<1>3. ASSUME NEW s \in Seq(S), NEW t \in Seq(S)
      PROVE  Entries(s \o t) = Entries(s) \cup Entries(t)
  <2>1. PICK m \in Nat, n \in Nat :
          /\ m = Len(s) /\ n = Len(t) /\ m + n = Len(s \o t)
          /\ \A i \in 1 .. m + n : (s \o t)[i] = IF i <= m THEN s[i] ELSE t[i - m]
    BY ConcatProperties, LenProperties
  <2>2. \A x \in Entries(s \o t) : x \in Entries(s) \cup Entries(t)
    BY <2>1 DEF Entries
  <2>3. ASSUME NEW i \in 1 .. m PROVE s[i] \in Entries(s \o t)
    <3>1. i \in 1 .. m + n /\ (s \o t)[i] = s[i]
      BY <2>1
    <3> QED
      BY <2>1, <3>1 DEF Entries
  <2>4. ASSUME NEW i \in 1 .. n PROVE t[i] \in Entries(s \o t)
    <3>1. PICK k \in Nat : k = m + i
      OBVIOUS
    <3>2. k \in 1 .. m + n /\ ~(k <= m) /\ k - m = i
      BY <3>1
    <3>3. (s \o t)[k] = t[i]
      BY <2>1, <3>2
    <3> QED
      BY <2>1, <3>2, <3>3 DEF Entries
  <2> QED
    BY <2>1, <2>2, <2>3, <2>4 DEF Entries
<1>4. ASSUME NEW s \in Seq(S), NEW x \in S
      PROVE  Entries(Append(s, x)) = Entries(s) \cup {x}
  <2>1. PICK m \in Nat : /\ m = Len(s) /\ Len(Append(s, x)) = m + 1
                         /\ \A i \in 1 .. m : Append(s, x)[i] = s[i]
                         /\ Append(s, x)[m + 1] = x
    BY AppendProperties, LenProperties
  <2>2. \A i \in 1 .. m + 1 : i \in 1 .. m \/ i = m + 1
    OBVIOUS
  <2>3. \A y : y \in Entries(Append(s, x)) <=> y \in Entries(s) \/ y = x
    BY <2>1, <2>2 DEF Entries
  <2> QED
    BY <2>3
<1>5. ASSUME NEW s \in Seq(S), s # <<>>
      PROVE  Entries(s) = Entries(Tail(s)) \cup {s[1]}
  <2>1. PICK m \in Nat : /\ Len(s) = m + 1 /\ Len(Tail(s)) = m
                         /\ \A i \in 1 .. m : Tail(s)[i] = s[i + 1]
    <3>1. Len(s) \in Nat \ {0}
      BY <1>5, EmptySeq
    <3> QED
      BY <1>5, <3>1, HeadTailProperties
  <2>2. ASSUME NEW i \in 1 .. m + 1 PROVE i = 1 \/ \E j \in 1 .. m : i = j + 1
    <3>1. i = 1 \/ i - 1 \in 1 .. m
      OBVIOUS
    <3> QED
      BY <3>1
  <2>3. \A y \in Entries(s) : y \in Entries(Tail(s)) \cup {s[1]}
    BY <2>1, <2>2 DEF Entries
  <2>4. \A y \in Entries(Tail(s)) \cup {s[1]} : y \in Entries(s)
    BY <2>1 DEF Entries
  <2> QED
    BY <2>3, <2>4
<1> QED
  BY <1>1, <1>2, <1>3, <1>4, <1>5

LEMMA StampsKept ==
  ASSUME NEW stamp, Stamped(stamp)
  PROVE  /\ \A m \in Stamps(stamp) : m \in Kept /\ m.element \in DOMAIN stamp /\ m = stamp[m.element]
         /\ \A e \in DOMAIN stamp : stamp[e] \in Stamps(stamp)
BY DEF Stamped, Stamps

\* Elements pushed later change no number.
LEMMA NumberKept ==
  ASSUME NEW n \in Nat, \A d \in 1 .. n : sq_pusher'[d] = sq_pusher[d], NEW e \in 1 .. n
  PROVE  SQ!Number(e)' = SQ!Number(e)
<1>1. \A d \in 1 .. e : d \in 1 .. n
  OBVIOUS
<1>2. {d \in 1 .. e : sq_pusher'[d] = sq_pusher'[e]} = {d \in 1 .. e : sq_pusher[d] = sq_pusher[e]}
  BY <1>1
<1> QED
  BY <1>2 DEF SQ!Number

LEMMA PushKeepsNumbers ==
  ASSUME NEW stamp, QTypes, Stamped(stamp), Numbered(stamp), \A v \in Worker : Unsent(stamp, v),
         NEW w \in Worker, SQ!Push(w)
  PROVE  Numbered(stamp)'
<1>0. PICK n \in Nat : n = Len(sq_pusher)
  BY LenProperties DEF QTypes
<1>1. /\ Len(sq_pusher') = n + 1
      /\ \A e \in 1 .. n : sq_pusher'[e] = sq_pusher[e]
      /\ sq_pusher'[n + 1] = w
  BY <1>0, LenProperties, AppendProperties DEF QTypes, SQ!Push
<1> DEFINE mine == {d \in 1 .. n : sq_pusher[d] = w}
<1>2. /\ w \in sq_alive /\ sq_send' = [sq_send EXCEPT ![w] = Append(@, n + 1)]
      /\ UNCHANGED <<sq_alive, sq_counter>>
  BY <1>0 DEF SQ!Push
<1>3. \A e \in DOMAIN stamp : e \in 1 .. n
  BY <1>0 DEF Stamped
<1>4. \A v \in Worker : \A k \in 1 .. Len(sq_send[v]) : sq_send[v][k] \in 1 .. n
  BY <1>0 DEF Unsent
<1>5. \A e \in 1 .. n : SQ!Number(e)' = SQ!Number(e)
  BY <1>1, NumberKept
<1>6. IsFiniteSet(mine) /\ Cardinality(mine) = PushedBy(w) /\ n + 1 \notin mine
  <2>1. IsFiniteSet(1 .. n) /\ mine \in SUBSET (1 .. n)
    BY <1>0, FS_Interval
  <2>2. IsFiniteSet(mine)
    BY <2>1, FS_Subset
  <2> QED
    BY <1>0, <1>1, <2>2 DEF PushedBy
<1>7. Cardinality(mine \cup {n + 1}) = PushedBy(w) + 1
  BY <1>6, FS_AddElement
<1>8. {d \in 1 .. n + 1 : sq_pusher'[d] = w} = mine \cup {n + 1}
  <2>1. \A d : d \in 1 .. n + 1 <=> d \in 1 .. n \/ d = n + 1
    BY <1>1
  <2> QED
    BY <1>0, <1>1, <2>1
<1>9. SQ!Number(n + 1)' = PushedBy(w) + 1
  <2>1. SQ!Number(n + 1)' = SQ!Cardinality({d \in 1 .. n + 1 : sq_pusher'[d] = sq_pusher'[n + 1]})
    BY DEF SQ!Number, SQ!Cardinality
  <2>2. SQ!Number(n + 1)' = SQ!Cardinality(mine \cup {n + 1})
    BY <1>1, <1>8, <2>1
  <2> QED
    BY <1>7, <2>2, EqualCardinality
<1>10. PushedBy(w)' = PushedBy(w) + 1
  BY <1>0, <1>1, <1>7, <1>8 DEF PushedBy
<1>11. ASSUME NEW v \in Worker, v # w PROVE PushedBy(v)' = PushedBy(v)
  <2>1. \A d : d \in 1 .. n + 1 <=> d \in 1 .. n \/ d = n + 1
    BY <1>1
  <2>2. {d \in 1 .. n + 1 : sq_pusher'[d] = v} = {d \in 1 .. n : sq_pusher[d] = v}
    BY <1>1, <1>11, <2>1
  <2> QED
    BY <1>0, <1>1, <2>2 DEF PushedBy
<1>12. /\ \A v \in Worker : v # w => sq_send'[v] = sq_send[v]
       /\ sq_send'[w] = Append(sq_send[w], n + 1) /\ sq_send[w] \in Seq(Nat)
       /\ sq_alive \subseteq Worker
  BY <1>2 DEF QTypes
<1>13. PICK l \in Nat :
         /\ l = Len(sq_send[w]) /\ Len(sq_send'[w]) = l + 1
         /\ \A k \in 1 .. l : sq_send'[w][k] = sq_send[w][k]
         /\ sq_send'[w][l + 1] = n + 1
  <2>1. n + 1 \in Nat
    BY <1>1
  <2>2. PICK l \in Nat :
          /\ l = Len(sq_send[w]) /\ Len(Append(sq_send[w], n + 1)) = l + 1
          /\ \A k \in 1 .. l : Append(sq_send[w], n + 1)[k] = sq_send[w][k]
          /\ Append(sq_send[w], n + 1)[l + 1] = n + 1
    BY <1>12, <2>1, AppendProperties, LenProperties
  <2> QED
    BY <1>12, <2>2
<1>14. PushedBy(w) = sq_counter[w] + l /\ sq_counter[w] \in Nat
  BY <1>2, <1>13 DEF Numbered, QTypes
<1>15. \A e \in DOMAIN stamp : stamp[e].counter = SQ!Number(e)'
  BY <1>3, <1>5 DEF Numbered
<1>16. ASSUME NEW v \in Worker, NEW k \in 1 .. Len(sq_send'[v])
       PROVE  (SQ!Number(sq_send[v][k]) = sq_counter[v] + k)'
  <2>1. CASE v # w
    <3>1. k \in 1 .. Len(sq_send[v]) /\ sq_send'[v][k] = sq_send[v][k]
      BY <1>12, <1>16, <2>1
    <3>2. SQ!Number(sq_send[v][k]) = sq_counter[v] + k
      BY <3>1 DEF Numbered
    <3>4. PICK x \in 1 .. n : x = sq_send[v][k]
      BY <1>4, <3>1
    <3>5. SQ!Number(x)' = SQ!Number(x)
      BY <1>5
    <3> QED
      BY <1>2, <3>1, <3>2, <3>4, <3>5
  <2>2. CASE v = w /\ k \in 1 .. l
    <3>1. SQ!Number(sq_send[w][k]) = sq_counter[w] + k
      BY <1>13, <2>2 DEF Numbered
    <3>2. PICK x \in 1 .. n : x = sq_send[w][k]
      BY <1>4, <1>13, <2>2
    <3>3. SQ!Number(x)' = SQ!Number(x)
      BY <1>5
    <3> QED
      <4>1. sq_send'[v][k] = x /\ sq_counter'[v] = sq_counter[v]
        BY <1>2, <1>13, <2>2, <3>2
      <4> QED
        BY <2>2, <3>1, <3>2, <3>3, <4>1
  <2>3. CASE v = w /\ k = l + 1
    <3>1. sq_send'[v][k] = n + 1 /\ sq_counter'[v] = sq_counter[w]
      BY <1>2, <1>13, <2>3
    <3>2. SQ!Number(n + 1)' = sq_counter[w] + k
      BY <1>9, <1>14, <2>3
    <3> QED
      BY <3>1, <3>2
  <2>4. v = w => k \in 1 .. l \/ k = l + 1
    BY <1>13, <1>16
  <2> QED
    BY <2>1, <2>2, <2>3, <2>4
<1>17. ASSUME NEW v \in sq_alive'
       PROVE  (PushedBy(v) = sq_counter[v] + Len(sq_send[v]))'
  <2>1. CASE v = w
    BY <1>2, <1>10, <1>13, <1>14, <2>1
  <2>2. CASE v # w
    <3>1. v \in Worker /\ v \in sq_alive
      BY <1>2, <1>12
    <3>2. PushedBy(v) = sq_counter[v] + Len(sq_send[v])
      BY <3>1 DEF Numbered
    <3> QED
      BY <1>2, <1>11, <1>12, <2>2, <3>1, <3>2
  <2> QED
    BY <2>1, <2>2
<1> QED
  BY <1>15, <1>16, <1>17 DEF Numbered

\* A push leaves the pushers of the elements before it.
LEMMA PushKeepsOrder ==
  ASSUME NEW stamp, NEW passed, QTypes, Ordering(stamp, passed), NEW w \in Worker, SQ!Push(w)
  PROVE  QTypes' /\ Ordering(stamp, passed)'
<1> DEFINE n == Len(sq_pusher)
<1>1. /\ n \in Nat /\ sq_pusher' \in Seq(Worker) /\ Len(sq_pusher') = n + 1
      /\ \A e \in 1 .. n : sq_pusher'[e] = sq_pusher[e]
      /\ sq_pusher'[n + 1] = w
  BY LenProperties, AppendProperties DEF QTypes, SQ!Push
<1>2. /\ sq_send' = [sq_send EXCEPT ![w] = Append(@, n + 1)]
      /\ UNCHANGED <<sq_alive, sq_recv, sq_cap, sq_counter, sq_flight, sq_arrived, sq_recvd, sq_frontier, sq_shown>>
  BY DEF SQ!Push
<1> HIDE DEF n
<1>3. QTypes'
  <2>1. sq_send' \in [Worker -> Seq(Nat)]
    BY <1>1, <1>2, AppendProperties DEF QTypes
  <2> QED
    BY <1>1, <1>2, <2>1 DEF QTypes
<1>4. Stamped(stamp) /\ DOMAIN stamp \subseteq 1 .. n
  BY DEF Ordering, Stamped, n
<1>5. Stamped(stamp)'
  <2>1. DOMAIN stamp \subseteq 1 .. n + 1
    BY <1>1, <1>4
  <2> QED
    BY <1>1, <1>2, <1>4, <2>1 DEF Stamped
<1>6. ASSUME NEW v \in Worker
      PROVE  Unsent(stamp, v)'
  <2>1. Unsent(stamp, v) /\ sq_send[v] \in Seq(Nat)
    BY DEF Ordering, QTypes
  <2>2. \A k \in 1 .. Len(sq_send[v]) : sq_send[v][k] \in 1 .. n
    BY <2>1 DEF Unsent, n
  <2>3. CASE v # w
    <3>1. sq_send'[v] = sq_send[v]
      BY <1>2, <2>3 DEF QTypes
    <3>2. \A k \in 1 .. n : k \in 1 .. n + 1
      BY <1>1
    <3> QED
      BY <1>1, <1>4, <2>1, <2>2, <3>1, <3>2 DEF Unsent
  <2>4. CASE v = w
    <3>1. sq_send'[w] = Append(sq_send[w], n + 1)
      BY <1>2 DEF QTypes
    <3>2. PICK l \in Nat :
            /\ l = Len(sq_send[w]) /\ Len(sq_send'[w]) = l + 1
            /\ \A k \in 1 .. l : sq_send'[w][k] = sq_send[w][k]
            /\ sq_send'[w][l + 1] = n + 1
      <4>1. sq_send[w] \in Seq(Nat) /\ n + 1 \in Nat
        BY <1>1, <2>1, <2>4
      <4>2. PICK l \in Nat :
              /\ l = Len(sq_send[w]) /\ Len(Append(sq_send[w], n + 1)) = l + 1
              /\ \A k \in 1 .. l : Append(sq_send[w], n + 1)[k] = sq_send[w][k]
              /\ Append(sq_send[w], n + 1)[l + 1] = n + 1
        BY <4>1, AppendProperties, LenProperties
      <4> QED
        BY <3>1, <4>2
    <3>3. \A k \in 1 .. l + 1 : k \in 1 .. l \/ k = l + 1
      OBVIOUS
    <3>4. \A k \in 1 .. l : /\ sq_send[w][k] \in 1 .. n /\ sq_pusher[sq_send[w][k]] = w
                            /\ \A e \in DOMAIN stamp : sq_pusher[e] = w => e < sq_send[w][k]
      BY <2>1, <2>2, <2>4, <3>2 DEF Unsent
    <3>5. \A j, k \in 1 .. l : j < k => sq_send[w][j] < sq_send[w][k]
      BY <2>1, <2>4, <3>2 DEF Unsent
    <3>6. \A k \in 1 .. l + 1 :
            /\ sq_send'[w][k] \in 1 .. n + 1
            /\ sq_pusher'[sq_send'[w][k]] = w
            /\ \A e \in DOMAIN stamp : sq_pusher'[e] = w => e < sq_send'[w][k]
      <4>1. \A k \in 1 .. l : /\ sq_send'[w][k] \in 1 .. n + 1
                              /\ sq_pusher'[sq_send'[w][k]] = w
                              /\ \A e \in DOMAIN stamp : sq_pusher'[e] = w => e < sq_send'[w][k]
        <5>1. \A e \in 1 .. n : e \in 1 .. n + 1 /\ sq_pusher'[e] = sq_pusher[e]
          BY <1>1
        <5>2. \A e \in DOMAIN stamp : sq_pusher'[e] = sq_pusher[e]
          BY <1>4, <5>1
        <5> QED
          BY <3>2, <3>4, <5>1, <5>2
      <4>2. n + 1 \in 1 .. n + 1 /\ \A e \in DOMAIN stamp : e < n + 1
        BY <1>1, <1>4
      <4> QED
        BY <1>1, <3>2, <3>3, <4>1, <4>2
    <3>7. \A j, k \in 1 .. l + 1 : j < k => sq_send'[w][j] < sq_send'[w][k]
      <4>1. \A k \in 1 .. l : sq_send[w][k] < n + 1
        BY <1>1, <3>4
      <4> QED
        BY <3>2, <3>3, <3>5, <4>1
    <3> QED
      BY <1>1, <2>4, <3>2, <3>6, <3>7 DEF Unsent
  <2> QED
    BY <2>3, <2>4
<1>7. ASSUME NEW v \in Worker
      PROVE  Pending(stamp, passed, v)'
  <2>1. Pending(stamp, passed, v)
    BY DEF Ordering
  <2>2. ASSUME NEW u \in Worker, NEW m \in OnWay(u, v)
        PROVE  sq_pusher'[m.element] = u
    <3>1. m \in Stamps(stamp) /\ sq_pusher[m.element] = u
      BY <2>1 DEF Pending
    <3>2. m.element \in 1 .. n
      BY <1>4, <3>1, StampsKept
    <3> QED
      BY <1>1, <3>1, <3>2
  <2>3. AtSink(v)' = AtSink(v) /\ \A u \in Worker : OnWay(u, v)' = OnWay(u, v)
    BY <1>2 DEF AtSink, OnWay
  <2> QED
    BY <1>2, <2>1, <2>2, <2>3 DEF Pending
<1>8. ASSUME NEW v \in Worker
      PROVE  Handed(stamp, passed, v)' /\ Ahead(v)'
  BY <1>2 DEF Ordering, Handed, Ahead, OnWay
<1>9. Numbered(stamp)'
  BY PushKeepsNumbers DEF Ordering
<1> QED
  BY <1>3, <1>5, <1>6, <1>7, <1>8, <1>9 DEF Ordering

LEMMA DropKeepsOrder ==
  ASSUME NEW stamp, NEW passed, QTypes, Ordering(stamp, passed), NEW w \in Worker, SQ!Drop(w)
  PROVE  QTypes' /\ Ordering(stamp, passed)'
<1>1. /\ sq_send' = [sq_send EXCEPT ![w] = <<>>] /\ sq_alive' = sq_alive \ {w}
      /\ UNCHANGED <<sq_pusher, sq_recv, sq_cap, sq_counter, sq_flight, sq_arrived, sq_recvd, sq_frontier, sq_shown>>
  BY DEF SQ!Drop
<1>2. QTypes'
  BY <1>1 DEF QTypes
<1>3. ASSUME NEW v \in Worker
      PROVE  Unsent(stamp, v)'
  <2>1. Unsent(stamp, v)
    BY DEF Ordering
  <2>2. sq_send'[v] = sq_send[v] \/ sq_send'[v] = <<>>
    BY <1>1 DEF QTypes
  <2> QED
    BY <1>1, <2>1, <2>2 DEF Unsent
<1>4. ASSUME NEW v \in Worker
      PROVE  Pending(stamp, passed, v)'
  <2>1. Pending(stamp, passed, v)
    BY DEF Ordering
  <2>2. AtSink(v)' = AtSink(v) /\ \A u \in Worker : OnWay(u, v)' = OnWay(u, v)
    BY <1>1 DEF AtSink, OnWay
  <2> QED
    BY <1>1, <2>1, <2>2 DEF Pending
<1>5. Numbered(stamp)'
  <2>1. \A v \in Worker : sq_send'[v] = sq_send[v] \/ sq_send'[v] = <<>>
    BY <1>1 DEF QTypes
  <2>2. \A v \in sq_alive' : v \in sq_alive /\ sq_send'[v] = sq_send[v]
    BY <1>1 DEF QTypes
  <2>3. Numbered(stamp)
    BY DEF Ordering
  <2>4. \A e : SQ!Number(e)' = SQ!Number(e) /\ PushedBy(e)' = PushedBy(e)
    BY <1>1 DEF SQ!Number, PushedBy
  <2> QED
    BY <1>1, <2>1, <2>2, <2>3, <2>4 DEF Numbered
<1> QED
  BY <1>1, <1>2, <1>3, <1>4, <1>5 DEF Ordering, Stamped, Handed, Ahead, OnWay

LEMMA GiveUpKeepsOrder ==
  ASSUME NEW stamp, NEW passed, QTypes, Ordering(stamp, passed), NEW w \in Worker, SQ!GiveUp(w)
  PROVE  QTypes' /\ Ordering(stamp, passed)'
<1>1. /\ w \notin sq_alive /\ sq_cap' = [sq_cap EXCEPT ![w] = {}]
      /\ UNCHANGED <<sq_pusher, sq_alive, sq_send, sq_recv, sq_counter, sq_flight, sq_arrived, sq_recvd, sq_frontier, sq_shown>>
  BY DEF SQ!GiveUp
<1>2. QTypes' /\ \A v \in Worker : sq_cap'[v] \subseteq sq_cap[v]
  BY <1>1 DEF QTypes
<1>3. Stamped(stamp)'
  <2>1. Stamped(stamp)
    BY DEF Ordering
  <2>2. \A e \in DOMAIN stamp : sq_pusher[e] \in Worker
    BY <2>1, ElementOfSeq DEF Stamped, QTypes
  <2> QED
    BY <1>1, <1>2, <2>1, <2>2 DEF Stamped
<1>4. ASSUME NEW v \in Worker
      PROVE  Pending(stamp, passed, v)'
  <2>1. Pending(stamp, passed, v)
    BY DEF Ordering
  <2>2. AtSink(v)' = AtSink(v) /\ \A u \in Worker : OnWay(u, v)' = OnWay(u, v)
    BY <1>1 DEF AtSink, OnWay
  <2> QED
    BY <1>1, <2>1, <2>2 DEF Pending
<1>5. ASSUME NEW v \in Worker
      PROVE  Ahead(v)'
  <2>1. Ahead(v)
    BY DEF Ordering
  <2> QED
    BY <1>1, <1>2, <2>1 DEF Ahead, OnWay
<1>6. Numbered(stamp)'
  <2>1. Numbered(stamp)
    BY DEF Ordering
  <2>2. \A e : SQ!Number(e)' = SQ!Number(e) /\ PushedBy(e)' = PushedBy(e)
    BY <1>1 DEF SQ!Number, PushedBy
  <2> QED
    BY <1>1, <2>1, <2>2 DEF Numbered
<1> QED
  BY <1>1, <1>2, <1>3, <1>4, <1>5, <1>6 DEF Ordering, Unsent, Handed

LEMMA ObserveKeepsOrder ==
  ASSUME NEW stamp, NEW passed, QTypes, Ordering(stamp, passed), NEW w \in Worker, SQ!Observe(w)
  PROVE  QTypes' /\ Ordering(stamp, passed)'
<1>1. /\ UNCHANGED <<sq_pusher, sq_alive, sq_send, sq_recv, sq_cap, sq_counter, sq_flight, sq_arrived, sq_recvd, sq_shown>>
      /\ \E t \in sq_frontier[w] + 1 .. MaxReading + 1 :
           SQ!NothingBefore(t, w) /\ sq_frontier' = [sq_frontier EXCEPT ![w] = t]
  BY DEF SQ!Observe
<1>2. PICK t \in sq_frontier[w] + 1 .. MaxReading + 1 :
        SQ!NothingBefore(t, w) /\ sq_frontier' = [sq_frontier EXCEPT ![w] = t]
  BY <1>1
<1>3. t \in Nat /\ sq_frontier[w] <= t /\ sq_frontier[w] \in Nat
  BY DEF QTypes
<1>4. QTypes'
  BY <1>1, <1>2, <1>3 DEF QTypes
<1>5. ASSUME NEW v \in Worker
      PROVE  Handed(stamp, passed, v)'
  <2>1. Handed(stamp, passed, v)
    BY DEF Ordering
  <2>2. passed[v] <= sq_frontier'[v]
    <3>1. CASE v = w
      BY <1>2, <1>3, <2>1, <3>1 DEF Handed, QTypes
    <3>2. CASE v # w
      BY <1>2, <2>1, <3>2 DEF Handed, QTypes
    <3> QED
      BY <3>1, <3>2
  <2> QED
    BY <1>1, <2>1, <2>2 DEF Handed
<1>6. ASSUME NEW v \in Worker
      PROVE  Ahead(v)'
  <2>1. Ahead(v)
    BY DEF Ordering
  <2>2. CASE v = w
    <3>1. sq_frontier'[v] = t
      BY <1>2, <2>2 DEF QTypes
    <3>2. SQ!NothingBefore(t, v)
      BY <1>2, <2>2
    <3> QED
      BY <1>1, <3>1, <3>2 DEF Ahead, OnWay, Entries, SQ!NothingBefore
  <2>3. CASE v # w
    <3>1. sq_frontier'[v] = sq_frontier[v]
      BY <1>2, <2>3 DEF QTypes
    <3> QED
      BY <1>1, <2>1, <3>1 DEF Ahead, OnWay
  <2> QED
    BY <2>2, <2>3
<1>7. ASSUME NEW v \in Worker
      PROVE  Pending(stamp, passed, v)'
  <2>1. Pending(stamp, passed, v)
    BY DEF Ordering
  <2>2. AtSink(v)' = AtSink(v) /\ \A u \in Worker : OnWay(u, v)' = OnWay(u, v)
    BY <1>1 DEF AtSink, OnWay
  <2> QED
    BY <1>1, <2>1, <2>2 DEF Pending
<1>8. Numbered(stamp)'
  <2>1. Numbered(stamp)
    BY DEF Ordering
  <2>2. \A e : SQ!Number(e)' = SQ!Number(e) /\ PushedBy(e)' = PushedBy(e)
    BY <1>1 DEF SQ!Number, PushedBy
  <2> QED
    BY <1>1, <2>1, <2>2 DEF Numbered
<1> QED
  BY <1>1, <1>4, <1>5, <1>6, <1>7, <1>8 DEF Ordering, Stamped, Unsent

LEMMA ArriveKeepsOrder ==
  ASSUME NEW stamp, NEW passed, QTypes, Ordering(stamp, passed),
         NEW u \in Worker, NEW w \in Worker, SQ!Arrive(u, w)
  PROVE  QTypes' /\ Ordering(stamp, passed)'
<1> DEFINE s == sq_flight[u][w]
           h == s[1]
<1>1. /\ s # <<>> /\ h = Head(s)
      /\ sq_arrived' = [sq_arrived EXCEPT ![w] = Append(@, Head(s))]
      /\ sq_flight' = [sq_flight EXCEPT ![u][w] = Tail(@)]
      /\ UNCHANGED <<sq_pusher, sq_alive, sq_send, sq_recv, sq_cap, sq_counter, sq_recvd, sq_frontier, sq_shown>>
  BY DEF SQ!Arrive
<1>2. /\ s \in Seq(Kept) /\ h \in Kept /\ Tail(s) \in Seq(Kept)
      /\ Len(Tail(s)) = Len(s) - 1 /\ Len(s) \in Nat \ {0}
      /\ \A k \in 1 .. Len(Tail(s)) : Tail(s)[k] = s[k + 1]
  <2>1. s \in Seq(Kept)
    BY DEF QTypes
  <2> HIDE DEF s
  <2> QED
    BY <1>1, <2>1, HeadTailProperties, EmptySeq
<1>3. /\ sq_flight'[u][w] = Tail(s)
      /\ \A v, x \in Worker : <<v, x>> # <<u, w>> => sq_flight'[v][x] = sq_flight[v][x]
      /\ sq_arrived'[w] = Append(sq_arrived[w], h)
      /\ \A v \in Worker : v # w => sq_arrived'[v] = sq_arrived[v]
      /\ sq_arrived[w] \in Seq(Kept)
  BY <1>1 DEF QTypes
<1>4. QTypes'
  <2>1. sq_flight' \in [Worker -> [Worker -> Seq(Kept)]]
    <3>1. sq_flight' = [sq_flight EXCEPT ![u] = [sq_flight[u] EXCEPT ![w] = Tail(s)]]
      BY <1>1
    <3>2. [sq_flight[u] EXCEPT ![w] = Tail(s)] \in [Worker -> Seq(Kept)]
      BY <1>2 DEF QTypes
    <3> QED
      BY <3>1, <3>2 DEF QTypes
  <2>2. sq_arrived' \in [Worker -> Seq(Kept)]
    <3>1. Append(sq_arrived[w], h) \in Seq(Kept)
      BY <1>2, <1>3, AppendProperties
    <3> QED
      BY <1>1, <3>1 DEF QTypes
  <2> QED
    BY <1>1, <2>1, <2>2 DEF QTypes
<1> HIDE DEF s, h
<1>5. /\ Pending(stamp, passed, w)
      /\ Rising(s) /\ Entries(s) \subseteq Stamps(stamp) \ AtSink(w)
      /\ \A m \in Entries(s) : sq_pusher[m.element] = u
      /\ OnWay(u, w) = Entries(s)
  <2>1. OnWay(u, w) = Entries(s) /\ s = sq_flight[u][w] /\ Pending(stamp, passed, w)
    BY DEF OnWay, s, Ordering
  <2> QED
    BY <2>1 DEF Pending
<1>6. Rising(Tail(s)) /\ Entries(s) = Entries(Tail(s)) \cup {h} /\ h \notin Entries(Tail(s))
  <2>1. PICK l \in Nat : Len(s) = l + 1 /\ Len(Tail(s)) = l
    <3>1. Len(s) - 1 \in Nat /\ Len(s) = (Len(s) - 1) + 1
      BY <1>2
    <3> QED
      BY <1>2, <3>1
  <2>2. \A k \in 1 .. l : k + 1 \in 1 .. l + 1 /\ Tail(s)[k] = s[k + 1]
    BY <1>2, <2>1
  <2>3. \A j, k \in 1 .. l + 1 : j < k => Earlier(s[j], s[k])
    BY <1>5, <2>1 DEF Rising
  <2>4. Rising(Tail(s))
    <3>1. ASSUME NEW j \in 1 .. l, NEW k \in 1 .. l, j < k
          PROVE  Earlier(Tail(s)[j], Tail(s)[k])
      <4>1. j + 1 < k + 1
        BY <3>1
      <4> QED
        BY <2>2, <2>3, <4>1
    <3> QED
      BY <2>1, <3>1 DEF Rising
  <2>5. ASSUME NEW k \in 1 .. l PROVE Tail(s)[k] # h
    <3>1. Earlier(s[1], s[k + 1])
      BY <2>2, <2>3
    <3> QED
      BY <1>2, <2>2, <3>1, EarlierOrder DEF h
  <2>6. Entries(s) = Entries(Tail(s)) \cup {h}
    BY <1>1, <1>2, EntriesFacts DEF h
  <2> QED
    BY <2>1, <2>4, <2>5, <2>6 DEF Entries
<1>7. ASSUME NEW v \in Worker
      PROVE  Pending(stamp, passed, v)'
  <2>1. Pending(stamp, passed, v)
    BY DEF Ordering
  <2>2. CASE v # w
    <3>1. AtSink(v)' = AtSink(v) /\ \A x \in Worker : OnWay(x, v)' = OnWay(x, v)
      BY <1>1, <1>3, <2>2 DEF AtSink, OnWay
    <3>2. \A x \in Worker : sq_flight'[x][v] = sq_flight[x][v]
      BY <1>3, <2>2
    <3> QED
      BY <1>1, <1>3, <2>1, <2>2, <3>1, <3>2 DEF Pending
  <2>3. CASE v = w
    <3>1. /\ Entries(sq_arrived'[w]) = Entries(sq_arrived[w]) \cup {h}
          /\ AtSink(w)' = AtSink(w) \cup {h}
      <4>1. Entries(sq_arrived'[w]) = Entries(sq_arrived[w]) \cup {h}
        BY <1>2, <1>3, EntriesFacts
      <4> QED
        BY <1>1, <4>1 DEF AtSink
    <3>2. OnWay(u, w)' = Entries(Tail(s))
      BY <1>3 DEF OnWay
    <3>3. \A x \in Worker : x # u => OnWay(x, w)' = OnWay(x, w) /\ sq_flight'[x][w] = sq_flight[x][w]
      BY <1>3 DEF OnWay
    <3>4. h \in Stamps(stamp) /\ h \notin AtSink(w) /\ sq_pusher[h.element] = u
      BY <1>5, <1>6
    <3>5. ASSUME NEW x \in Worker
          PROVE  /\ Rising(sq_flight'[x][w])
                 /\ OnWay(x, w)' \subseteq Stamps(stamp) \ AtSink(w)'
                 /\ \A m \in OnWay(x, w)' : sq_pusher[m.element] = x
      <4>1. CASE x = u
        BY <1>3, <1>5, <1>6, <3>1, <3>2, <4>1
      <4>2. CASE x # u
        <5>1. /\ Rising(sq_flight[x][w]) /\ OnWay(x, w) \subseteq Stamps(stamp) \ AtSink(w)
              /\ \A m \in OnWay(x, w) : sq_pusher[m.element] = x
          BY <1>5 DEF Pending
        <5>2. h \notin OnWay(x, w)
          BY <3>4, <4>2, <5>1
        <5> QED
          BY <3>1, <3>3, <4>2, <5>1, <5>2
      <4> QED
        BY <4>1, <4>2
    <3>6. \A j, k \in 1 .. Len(sq_arrived'[w]) : j # k => sq_arrived'[w][j] # sq_arrived'[w][k]
      <4>1. PICK l \in Nat :
              /\ l = Len(sq_arrived[w]) /\ Len(sq_arrived'[w]) = l + 1
              /\ \A k \in 1 .. l : sq_arrived'[w][k] = sq_arrived[w][k]
              /\ sq_arrived'[w][l + 1] = h
        BY <1>2, <1>3, AppendProperties, LenProperties
      <4>2. \A k \in 1 .. l + 1 : k \in 1 .. l \/ k = l + 1
        OBVIOUS
      <4>3. \A k \in 1 .. l : sq_arrived[w][k] # h
        BY <3>4, <4>1 DEF AtSink, Entries
      <4>4. \A j, k \in 1 .. l : j # k => sq_arrived[w][j] # sq_arrived[w][k]
        BY <1>5, <4>1 DEF Pending
      <4> QED
        BY <4>1, <4>2, <4>3, <4>4
    <3>7. Entries(sq_recvd'[w]) \cap Entries(sq_arrived'[w]) = {}
      <4>1. Entries(sq_recvd[w]) \cap Entries(sq_arrived[w]) = {} /\ h \notin Entries(sq_recvd[w])
        BY <1>5, <3>4 DEF Pending, AtSink
      <4> QED
        BY <1>1, <3>1, <4>1
    <3>8. ASSUME w \in sq_alive', NEW m \in Stamps(stamp), passed[w] <= m.time
          PROVE  m \in AtSink(w)' \/ \E x \in Worker : m \in OnWay(x, w)'
      <4>1. m \in AtSink(w) \/ \E x \in Worker : m \in OnWay(x, w)
        BY <1>1, <1>5, <3>8 DEF Pending
      <4>2. ASSUME NEW x \in Worker, m \in OnWay(x, w)
            PROVE  m = h \/ m \in OnWay(x, w)'
        <5>1. CASE x = u
          BY <1>5, <1>6, <3>2, <4>2, <5>1
        <5>2. CASE x # u
          BY <3>3, <4>2, <5>2
        <5> QED
          BY <5>1, <5>2
      <4> QED
        BY <3>1, <4>1, <4>2
    <3>9. AtSink(w)' \subseteq Stamps(stamp)
      BY <1>5, <3>1, <3>4 DEF Pending
    <3>10. Settled(sq_recvd'[w]) /\ \A m \in Entries(sq_recvd'[w]) : passed[w] <= m.time
      BY <1>1, <1>5 DEF Pending
    <3> QED
      BY <1>1, <2>3, <3>5, <3>6, <3>7, <3>8, <3>9, <3>10 DEF Pending
  <2> QED
    BY <2>2, <2>3
<1>8. ASSUME NEW v \in Worker
      PROVE  Ahead(v)'
  <2>1. Ahead(v)
    BY DEF Ordering
  <2>2. \A x \in Worker : OnWay(x, v)' \subseteq OnWay(x, v)
    BY <1>3, <1>5, <1>6 DEF OnWay
  <2>3. \A m \in Entries(sq_arrived'[v]) : m \in Entries(sq_arrived[v]) \/ m \in OnWay(u, v)
    <3>1. CASE v = w
      <4>1. Entries(sq_arrived'[w]) = Entries(sq_arrived[w]) \cup {h}
        BY <1>2, <1>3, EntriesFacts
      <4> QED
        BY <1>5, <1>6, <3>1, <4>1
    <3>2. CASE v # w
      BY <1>3, <3>2
    <3> QED
      BY <3>1, <3>2
  <2> QED
    BY <1>1, <2>1, <2>2, <2>3 DEF Ahead
<1>9. Numbered(stamp)'
  <2>1. Numbered(stamp)
    BY DEF Ordering
  <2>2. \A e : SQ!Number(e)' = SQ!Number(e) /\ PushedBy(e)' = PushedBy(e)
    BY <1>1 DEF SQ!Number, PushedBy
  <2> QED
    BY <1>1, <2>1, <2>2 DEF Numbered
<1> QED
  BY <1>1, <1>4, <1>7, <1>8, <1>9 DEF Ordering, Stamped, Unsent, Handed

\* The source stamps what was pushed with a time not before its capability, which no
\* frontier has passed.
LEMMA SequenceKeepsOrder ==
  ASSUME SQ!TimersAssumption, NEW stamp, NEW passed, QTypes, Ordering(stamp, passed),
         NEW w \in Worker, SQ!Sequence(w)
  PROVE  QTypes' /\ \E stamped : Ordering(stamped, passed)'
<1> DEFINE s == sq_send[w]
           n == sq_counter[w]
           new(t) == [k \in 1 .. Len(s) |-> SQ!Message(t, n + k, s[k])]
<1>1. PICK t \in Reading[w] \cup (IF s = <<>> THEN {MaxReading} ELSE {}) :
        /\ \A c \in sq_cap[w] : c < t \/ (c = MaxReading /\ t = MaxReading)
        /\ sq_cap' = [sq_cap EXCEPT ![w] = {t}]
        /\ sq_flight' = [sq_flight EXCEPT ![w] = [v \in Worker |-> sq_flight[w][v] \o new(t)]]
        /\ sq_shown' = [e \in DOMAIN sq_shown \cup SQ!ToSet(s) |->
                          IF e \in SQ!ToSet(s) THEN t ELSE sq_shown[e]]
  BY DEF SQ!Sequence
<1>2. /\ w \in sq_alive
      /\ sq_counter' = [sq_counter EXCEPT ![w] = n + Len(s)]
      /\ sq_send' = [sq_send EXCEPT ![w] = <<>>]
      /\ UNCHANGED <<sq_pusher, sq_alive, sq_recv, sq_arrived, sq_recvd, sq_frontier>>
  BY DEF SQ!Sequence
<1>3. t \in Nat /\ \A c \in sq_cap[w] : c \in Nat /\ c <= t
  <2>1. t \in Nat
    BY DEF SQ!TimersAssumption
  <2>2. \A c \in sq_cap[w] : c \in Nat
    BY DEF QTypes
  <2> QED
    BY <1>1, <2>1, <2>2
<1>4. PICK L \in Nat : /\ L = Len(s) /\ s \in Seq(Nat)
                       /\ \A k \in 1 .. L : s[k] \in Nat
  <2>1. s \in Seq(Nat)
    BY DEF QTypes
  <2> QED
    BY <2>1, LenProperties, ElementOfSeq
<1>5. n \in Nat
  BY DEF QTypes
<1>6. /\ Stamped(stamp)
      /\ \A k \in 1 .. L :
           /\ s[k] \in 1 .. Len(sq_pusher) /\ sq_pusher[s[k]] = w
           /\ \A e \in DOMAIN stamp : sq_pusher[e] = w => e < s[k]
      /\ \A j, k \in 1 .. L : j < k => s[j] < s[k]
  <2>1. Stamped(stamp) /\ Unsent(stamp, w)
    BY DEF Ordering
  <2> QED
    BY <1>4, <2>1 DEF Unsent
<1>7. \A k \in 1 .. L : s[k] \notin DOMAIN stamp
  BY <1>4, <1>6
<1>8. /\ \A e \in DOMAIN stamp : e \in DOMAIN sq_shown' /\ sq_shown'[e] = sq_shown[e]
      /\ \A k \in 1 .. L : s[k] \in DOMAIN sq_shown' /\ sq_shown'[s[k]] = t
  <2>1. SQ!ToSet(s) = {s[k] : k \in 1 .. L}
    BY <1>4 DEF SQ!ToSet
  <2>2. /\ \A e \in DOMAIN stamp : e \in DOMAIN sq_shown /\ e \notin SQ!ToSet(s)
        /\ \A k \in 1 .. L : s[k] \in SQ!ToSet(s)
    BY <1>6, <1>7, <2>1 DEF Stamped
  <2> QED
    BY <1>1, <2>2
<1> DEFINE D == DOMAIN stamp \cup Entries(s)
           p(e) == CHOOSE k \in 1 .. L : s[k] = e
           all == [e \in D |-> IF e \in DOMAIN stamp THEN stamp[e] ELSE SQ!Message(t, n + p(e), e)]
           fresh(k) == [time |-> t, counter |-> n + k, element |-> s[k]]
<1>9. \A k \in 1 .. L : p(s[k]) = k
  <2>1. ASSUME NEW k \in 1 .. L, NEW j \in 1 .. L, s[j] = s[k] PROVE j = k
    <3>1. ~(j < k) /\ ~(k < j)
      BY <1>4, <1>6, <2>1
    <3> QED
      BY <3>1
  <2>2. ASSUME NEW k \in 1 .. L PROVE p(s[k]) \in 1 .. L /\ s[p(s[k])] = s[k]
    OBVIOUS
  <2> HIDE DEF p
  <2> QED
    BY <2>1, <2>2
<1>0. PICK stamped : stamped = all
  OBVIOUS
<1>10. \A e \in DOMAIN stamp : e \in D /\ stamped[e] = stamp[e]
  BY <1>0
<1>11. \A k \in 1 .. L : s[k] \in D /\ stamped[s[k]] = fresh(k)
  <2>1. \A k \in 1 .. L : s[k] \in D
    BY <1>4 DEF Entries
  <2> HIDE DEF p, s, n
  <2> QED
    BY <1>0, <1>7, <1>9, <2>1 DEF SQ!Message
<1>12. DOMAIN stamped = D /\ \A e \in D : e \in DOMAIN stamp \/ \E k \in 1 .. L : e = s[k]
  BY <1>0, <1>4 DEF Entries
<1>13. \A k \in 1 .. L : fresh(k) \in Kept
  BY <1>3, <1>4, <1>5 DEF Kept
<1>14. /\ new(t) \in Seq(Kept) /\ Len(new(t)) = L
       /\ \A k \in 1 .. L : new(t)[k] = fresh(k)
  <2>1. new(t) = [k \in 1 .. L |-> fresh(k)]
    BY <1>4 DEF SQ!Message
  <2> HIDE DEF fresh, new
  <2>2. new(t) \in [1 .. L -> Kept]
    BY <1>13, <2>1
  <2> QED
    BY <2>1, <2>2
<1>15. PICK news \in Seq(Kept) : news = new(t)
  BY <1>14
<1>16. /\ Len(news) = L /\ \A k \in 1 .. L : news[k] = fresh(k) /\ news[k] \in Kept
       /\ sq_flight' = [sq_flight EXCEPT ![w] = [v \in Worker |-> sq_flight[w][v] \o news]]
       /\ sq_cap' = [sq_cap EXCEPT ![w] = {t}]
  BY <1>1, <1>13, <1>14, <1>15
<1>17. /\ \A k \in 1 .. L : /\ news[k].time = t /\ news[k].counter = n + k
                            /\ news[k].element = s[k] /\ stamped[s[k]] = news[k]
  <2>1. \A k \in 1 .. L : fresh(k).time = t /\ fresh(k).counter = n + k /\ fresh(k).element = s[k]
    OBVIOUS
  <2> HIDE DEF fresh, all, D, new, s, n
  <2> QED
    BY <1>11, <1>16, <2>1
<1> HIDE DEF all, D, fresh, new, s, n
<1>18. Stamps(stamped) = Stamps(stamp) \cup Entries(news)
  <2>1. \A m \in Stamps(stamped) : m \in Stamps(stamp) \cup Entries(news)
    BY <1>10, <1>12, <1>16, <1>17 DEF Stamps, Entries
  <2>2. \A m \in Stamps(stamp) : m \in Stamps(stamped)
    BY <1>10, <1>12 DEF Stamps
  <2>3. \A m \in Entries(news) : m \in Stamps(stamped)
    BY <1>11, <1>12, <1>16, <1>17 DEF Stamps, Entries
  <2> QED
    BY <2>1, <2>2, <2>3
<1>19. /\ sq_cap'[w] = {t} /\ \A v \in Worker : v # w => sq_cap'[v] = sq_cap[v]
       /\ sq_counter'[w] = n + L /\ \A v \in Worker : v # w => sq_counter'[v] = sq_counter[v]
       /\ sq_send'[w] = <<>> /\ \A v \in Worker : v # w => sq_send'[v] = sq_send[v]
       /\ \A v \in Worker : sq_flight'[w][v] = sq_flight[w][v] \o news
       /\ \A u, v \in Worker : u # w => sq_flight'[u][v] = sq_flight[u][v]
  BY <1>2, <1>4, <1>16 DEF QTypes, n
<1>20. PICK c \in sq_cap[w] : c \in Nat /\ c <= t
  BY <1>2, <1>3 DEF QTypes
\* What w stamps comes after all that it stamped before.
<1>21. ASSUME NEW e \in DOMAIN stamp, sq_pusher[e] = w, NEW k \in 1 .. L
       PROVE  Earlier(stamp[e], news[k])
  <2>1. /\ stamp[e] \in Kept /\ stamp[e].time <= c /\ stamp[e].counter <= n
    BY <1>6, <1>20, <1>21 DEF Stamped, n
  <2> QED
    BY <1>3, <1>5, <1>16, <1>17, <1>20, <2>1 DEF Earlier, Kept
<1>22. QTypes'
  <2>1. sq_flight' \in [Worker -> [Worker -> Seq(Kept)]]
    <3>1. \A v \in Worker : sq_flight[w][v] \o news \in Seq(Kept)
      BY ConcatProperties DEF QTypes
    <3>2. [v \in Worker |-> sq_flight[w][v] \o news] \in [Worker -> Seq(Kept)]
      BY <3>1
    <3> QED
      BY <1>16, <3>2 DEF QTypes
  <2>2. sq_counter' \in [Worker -> Nat]
    BY <1>2, <1>4, <1>5 DEF QTypes
  <2>3. sq_cap' \in [Worker -> SUBSET Nat] /\ \A v \in sq_alive' : sq_cap'[v] # {}
    BY <1>2, <1>3, <1>16, <1>19 DEF QTypes
  <2>4. sq_send' \in [Worker -> Seq(Nat)]
    BY <1>2 DEF QTypes
  <2> QED
    BY <1>2, <2>1, <2>2, <2>3, <2>4 DEF QTypes
<1>23. \A e \in DOMAIN stamp : sq_pusher[e] \in Worker /\ e \in Nat
  <2>1. sq_pusher \in Seq(Worker)
    BY DEF QTypes
  <2>2. \A e \in DOMAIN stamp : e \in 1 .. Len(sq_pusher)
    BY <1>6 DEF Stamped
  <2> QED
    BY <2>1, <2>2, ElementOfSeq
<1>24. Stamped(stamped)'
  <2>1. D \subseteq 1 .. Len(sq_pusher)
    BY <1>6, <1>12 DEF Stamped
  <2>2. ASSUME NEW e \in D
        PROVE  /\ stamped[e] \in Kept /\ stamped[e].element = e
               /\ e \in DOMAIN sq_shown' /\ stamped[e].time = sq_shown'[e]
               /\ stamped[e].counter <= sq_counter'[sq_pusher[e]]
               /\ \A d \in sq_cap'[sq_pusher[e]] : stamped[e].time <= d
    <3>1. CASE e \in DOMAIN stamp
      <4>1. /\ stamp[e] \in Kept /\ stamp[e].element = e
            /\ e \in DOMAIN sq_shown' /\ stamp[e].time = sq_shown'[e]
            /\ stamp[e].counter <= sq_counter[sq_pusher[e]]
            /\ \A d \in sq_cap[sq_pusher[e]] : stamp[e].time <= d
        BY <1>6, <1>8, <3>1 DEF Stamped
      <4>2. CASE sq_pusher[e] = w
        <5>1. stamp[e].time \in Nat /\ stamp[e].time <= c /\ stamp[e].counter \in Nat /\ stamp[e].counter <= n
          BY <4>1, <4>2 DEF Kept, n
        <5>2. stamp[e].time <= t /\ stamp[e].counter <= n + L
          BY <1>3, <1>4, <1>5, <1>20, <5>1
        <5> QED
          BY <1>10, <1>19, <3>1, <4>1, <4>2, <5>2
      <4>3. CASE sq_pusher[e] # w
        BY <1>10, <1>19, <1>23, <3>1, <4>1, <4>3
      <4> QED
        BY <4>2, <4>3
    <3>2. CASE e \notin DOMAIN stamp
      <4>1. PICK k \in 1 .. L : e = s[k]
        BY <1>12, <3>2
      <4>2. stamped[e] = news[k] /\ news[k] \in Kept /\ sq_pusher[e] = w
        BY <1>6, <1>16, <1>17, <4>1
      <4>3. /\ news[k].time = t /\ news[k].counter = n + k /\ news[k].element = e
            /\ e \in DOMAIN sq_shown' /\ sq_shown'[e] = t
        BY <1>4, <1>8, <1>17, <4>1
      <4>4. n + k <= n + L /\ t <= t
        BY <1>3, <1>4, <1>5
      <4> QED
        BY <1>19, <4>2, <4>3, <4>4
    <3> QED
      BY <3>1, <3>2
  <2>3. ASSUME NEW d \in D, NEW e \in D, sq_pusher[d] = sq_pusher[e], d < e
        PROVE  Earlier(stamped[d], stamped[e])
    <3>1. CASE d \in DOMAIN stamp /\ e \in DOMAIN stamp
      BY <1>6, <1>10, <2>3, <3>1 DEF Stamped
    <3>2. ASSUME NEW k \in 1 .. L, e = s[k], d \in DOMAIN stamp
          PROVE  Earlier(stamped[d], stamped[e])
      BY <1>6, <1>10, <1>17, <1>21, <2>3, <3>2
    <3>3. ASSUME NEW j \in 1 .. L, d = s[j], e \in DOMAIN stamp
          PROVE  FALSE
      BY <1>4, <1>6, <1>23, <2>3, <3>3
    <3>4. ASSUME NEW j \in 1 .. L, NEW k \in 1 .. L, d = s[j], e = s[k]
          PROVE  Earlier(stamped[d], stamped[e])
      <4>1. j < k
        <5>1. CASE k < j
          BY <1>4, <1>6, <2>3, <3>4, <5>1
        <5>2. CASE k = j
          BY <1>4, <2>3, <3>4, <5>2
        <5> QED
          BY <5>1, <5>2
      <4> QED
        <5>1. n + j < n + k /\ stamped[d] = news[j] /\ stamped[e] = news[k]
          BY <1>4, <1>5, <1>17, <3>4, <4>1
        <5> QED
          BY <1>17, <5>1 DEF Earlier
    <3> QED
      BY <1>12, <3>1, <3>2, <3>3, <3>4
  <2> QED
    BY <1>2, <1>12, <2>1, <2>2, <2>3 DEF Stamped
<1>25. ASSUME NEW v \in Worker
       PROVE  Unsent(stamped, v)'
  <2>1. Unsent(stamp, v) /\ sq_send[v] \in Seq(Nat)
    BY DEF Ordering, QTypes
  <2>2. CASE v = w
    BY <1>19, <2>2 DEF Unsent
  <2>3. CASE v # w
    <3>1. \A e \in DOMAIN stamped : sq_pusher[e] = v => e \in DOMAIN stamp
      BY <1>6, <1>12, <2>3
    <3> QED
      BY <1>2, <1>19, <2>1, <2>3, <3>1 DEF Unsent
  <2> QED
    BY <2>2, <2>3
<1>26. ASSUME NEW v \in Worker, NEW m \in Entries(news)
       PROVE  m \notin AtSink(v) /\ m \notin OnWay(w, v) /\ sq_frontier[v] <= m.time /\ sq_pusher[m.element] = w
  <2>1. PICK k \in 1 .. L : m = news[k]
    BY <1>16 DEF Entries
  <2>2. m \notin Stamps(stamp)
    BY <1>6, <1>7, <1>17, <2>1, StampsKept
  <2>3. AtSink(v) \subseteq Stamps(stamp) /\ OnWay(w, v) \subseteq Stamps(stamp)
    BY DEF Ordering, Pending
  <2>4. sq_frontier[v] \in Nat /\ sq_frontier[v] <= c
    BY DEF Ordering, Ahead, QTypes
  <2> QED
    BY <1>3, <1>6, <1>17, <1>20, <2>1, <2>2, <2>3, <2>4
<1>27. ASSUME NEW v \in Worker
       PROVE  OnWay(w, v)' = OnWay(w, v) \cup Entries(news)
  <2>1. sq_flight[w][v] \in Seq(Kept)
    BY DEF QTypes
  <2>2. Entries(sq_flight[w][v] \o news) = Entries(sq_flight[w][v]) \cup Entries(news)
    BY <2>1, EntriesFacts
  <2> QED
    BY <1>19, <2>2 DEF OnWay
<1>28. \A u, v \in Worker : u # w => OnWay(u, v)' = OnWay(u, v)
  BY <1>19 DEF OnWay
<1>29. ASSUME NEW v \in Worker
       PROVE  Pending(stamped, passed, v)'
  <2>1. Pending(stamp, passed, v)
    BY DEF Ordering
  <2>2. AtSink(v)' = AtSink(v)
    BY <1>2 DEF AtSink
  <2>3. Rising(sq_flight'[w][v])
    <3> DEFINE f == sq_flight[w][v]
    <3>1. f \in Seq(Kept) /\ Rising(f) /\ Entries(f) = OnWay(w, v)
      BY <2>1 DEF QTypes, Pending, OnWay
    <3> HIDE DEF f
    <3>2. PICK l \in Nat :
            /\ l = Len(f) /\ Len(f \o news) = l + L
            /\ \A i \in 1 .. l + L : (f \o news)[i] = IF i <= l THEN f[i] ELSE news[i - l]
      <4>1. Len(f) \in Nat
        BY <3>1, LenProperties
      <4>2. /\ Len(f \o news) = Len(f) + Len(news)
            /\ \A i \in 1 .. Len(f) + Len(news) :
                 (f \o news)[i] = IF i <= Len(f) THEN f[i] ELSE news[i - Len(f)]
        BY <3>1, ConcatProperties
      <4> QED
        BY <1>16, <4>1, <4>2
    <3>3. ASSUME NEW i \in 1 .. l, NEW k \in 1 .. L
          PROVE  Earlier(f[i], news[k])
      <4>1. f[i] \in OnWay(w, v)
        BY <3>1, <3>2 DEF Entries
      <4>2. f[i] \in Stamps(stamp) /\ sq_pusher[f[i].element] = w
        BY <2>1, <4>1 DEF Pending
      <4>3. f[i].element \in DOMAIN stamp /\ f[i] = stamp[f[i].element]
        BY <1>6, <4>2, StampsKept
      <4> QED
        BY <1>21, <4>2, <4>3
    <3>4. ASSUME NEW j \in 1 .. L, NEW k \in 1 .. L, j < k
          PROVE  Earlier(news[j], news[k])
      BY <1>3, <1>5, <1>17, <3>4 DEF Earlier
    <3>5. ASSUME NEW i \in 1 .. l + L, NEW j \in 1 .. l + L, i < j
          PROVE  Earlier((f \o news)[i], (f \o news)[j])
      <4>1. CASE j <= l
        <5>1. i \in 1 .. l /\ j \in 1 .. l
          BY <3>5, <4>1
        <5> QED
          BY <3>1, <3>2, <3>5, <5>1 DEF Rising
      <4>2. CASE i <= l /\ ~(j <= l)
        <5>1. PICK k \in 1 .. L : k = j - l
          BY <4>2
        <5>2. i \in 1 .. l
          BY <4>2
        <5> QED
          BY <3>2, <3>3, <4>2, <5>1, <5>2
      <4>3. CASE ~(i <= l)
        <5>1. PICK k \in 1 .. L : k = i - l
          BY <3>5, <4>3
        <5>2. PICK x \in 1 .. L : x = j - l
          BY <3>5, <4>3
        <5>3. ~(j <= l) /\ k < x
          BY <3>5, <4>3, <5>1, <5>2
        <5> QED
          BY <3>2, <3>4, <4>3, <5>1, <5>2, <5>3
      <4> QED
        BY <4>1, <4>2, <4>3
    <3>6. sq_flight'[w][v] = f \o news
      BY <1>19 DEF f
    <3> QED
      BY <3>2, <3>5, <3>6 DEF Rising
  <2>4. ASSUME NEW u \in Worker
        PROVE  /\ Rising(sq_flight'[u][v])
               /\ OnWay(u, v)' \subseteq Stamps(stamped) \ AtSink(v)'
               /\ \A m \in OnWay(u, v)' : sq_pusher'[m.element] = u
    <3>1. /\ Rising(sq_flight[u][v]) /\ OnWay(u, v) \subseteq Stamps(stamp) \ AtSink(v)
          /\ \A m \in OnWay(u, v) : sq_pusher[m.element] = u
      BY <2>1 DEF Pending
    <3>2. CASE u = w
      BY <1>2, <1>18, <1>26, <1>27, <2>2, <2>3, <3>1, <3>2
    <3>3. CASE u # w
      BY <1>2, <1>18, <1>19, <1>28, <2>2, <3>1, <3>3
    <3> QED
      BY <3>2, <3>3
  <2>5. ASSUME v \in sq_alive', NEW m \in Stamps(stamped), passed[v] <= m.time
        PROVE  m \in AtSink(v)' \/ \E u \in Worker : m \in OnWay(u, v)'
    <3>1. CASE m \in Entries(news)
      BY <1>27, <3>1
    <3>2. CASE m \in Stamps(stamp)
      <4>1. m \in AtSink(v) \/ \E u \in Worker : m \in OnWay(u, v)
        BY <1>2, <2>1, <2>5, <3>2 DEF Pending
      <4> QED
        BY <1>27, <1>28, <2>2, <4>1
    <3> QED
      BY <1>18, <2>5, <3>1, <3>2
  <2>6. AtSink(v)' \subseteq Stamps(stamped)
    BY <1>18, <2>1, <2>2 DEF Pending
  <2> QED
    BY <1>2, <2>1, <2>4, <2>5, <2>6 DEF Pending
<1>30. ASSUME NEW v \in Worker
       PROVE  Handed(stamped, passed, v)'
  <2>1. Handed(stamp, passed, v)
    BY DEF Ordering
  <2>2. sq_recv[v] \in Seq(DOMAIN stamped)
    <3>1. DOMAIN stamp \subseteq DOMAIN stamped
      BY <1>10, <1>12
    <3> QED
      BY <2>1, <3>1, SeqMonotonic DEF Handed
  <2>3. \A k \in 1 .. Len(sq_recv[v]) : sq_recv[v][k] \in DOMAIN stamp
    BY <2>1, ElementOfSeq DEF Handed
  <2>4. \A j, k \in 1 .. Len(sq_recv[v]) :
          j < k => InTurn(stamped, sq_recv[v][j], sq_recv[v][k])
    BY <1>10, <2>1, <2>3 DEF Handed, InTurn
  <2>5. ASSUME NEW e \in DOMAIN stamped
        PROVE  e \in Entries(sq_recv[v]) <=> stamped[e].time < passed[v]
    <3>1. CASE e \in DOMAIN stamp
      BY <1>10, <2>1, <3>1 DEF Handed
    <3>2. CASE e \notin DOMAIN stamp
      <4>1. PICK k \in 1 .. L : e = s[k]
        BY <1>12, <2>5, <3>2
      <4>2. stamped[e] = news[k] /\ news[k].time = t
        BY <1>17, <4>1
      <4>3. sq_frontier[v] <= t
        <5>1. news[k] \in Entries(news)
          BY <1>16 DEF Entries
        <5> QED
          BY <1>17, <1>26, <5>1
      <4>4. ~(t < passed[v])
        <5>1. passed[v] \in Nat /\ passed[v] <= sq_frontier[v] /\ sq_frontier[v] \in Nat
          BY <2>1 DEF Handed, QTypes
        <5> QED
          BY <1>3, <4>3, <5>1
      <4>5. e \notin Entries(sq_recv[v])
        BY <2>3, <3>2 DEF Entries
      <4> QED
        BY <4>2, <4>4, <4>5
    <3> QED
      BY <3>1, <3>2
  <2> QED
    BY <1>2, <2>1, <2>2, <2>4, <2>5 DEF Handed
<1>31. ASSUME NEW v \in Worker
       PROVE  Ahead(v)'
  <2>1. Ahead(v)
    BY DEF Ordering
  <2>2. ASSUME NEW u \in Worker, NEW d \in sq_cap'[u] PROVE sq_frontier[v] <= d
    <3>1. CASE u = w
      <4>1. sq_frontier[v] <= c /\ sq_frontier[v] \in Nat /\ d = t
        BY <1>19, <2>1, <2>2, <3>1 DEF Ahead, QTypes
      <4> QED
        BY <1>3, <1>20, <4>1
    <3>2. CASE u # w
      BY <1>19, <2>1, <2>2, <3>2 DEF Ahead
    <3> QED
      BY <3>1, <3>2
  <2>3. ASSUME NEW u \in Worker, NEW m \in OnWay(u, v)' PROVE sq_frontier[v] <= m.time
    <3>1. CASE u = w
      BY <1>26, <1>27, <2>1, <2>3, <3>1 DEF Ahead
    <3>2. CASE u # w
      BY <1>28, <2>1, <2>3, <3>2 DEF Ahead
    <3> QED
      BY <3>1, <3>2
  <2> QED
    BY <1>2, <2>1, <2>2, <2>3 DEF Ahead
<1>32. Numbered(stamped)'
  <2>1. Numbered(stamp)
    BY DEF Ordering
  <2>2. \A e : SQ!Number(e)' = SQ!Number(e) /\ PushedBy(e)' = PushedBy(e)
    BY <1>2 DEF SQ!Number, PushedBy
  <2>3. \A k \in 1 .. L : SQ!Number(s[k]) = n + k
    BY <1>4, <2>1 DEF Numbered, s, n
  <2>4. ASSUME NEW e \in DOMAIN stamped PROVE stamped[e].counter = SQ!Number(e)
    <3>1. CASE e \in DOMAIN stamp
      BY <1>10, <2>1, <3>1 DEF Numbered
    <3>2. ASSUME NEW k \in 1 .. L, e = s[k] PROVE stamped[e].counter = SQ!Number(e)
      BY <1>17, <2>3, <3>2
    <3> QED
      BY <1>12, <2>4, <3>1, <3>2
  <2>5. ASSUME NEW v \in Worker, NEW k \in 1 .. Len(sq_send'[v])
        PROVE  SQ!Number(sq_send'[v][k]) = sq_counter'[v] + k
    <3>1. v # w
      BY <1>19, <2>5
    <3> QED
      BY <1>19, <2>1, <2>5, <3>1 DEF Numbered
  <2>6. ASSUME NEW v \in sq_alive
        PROVE  PushedBy(v) = sq_counter'[v] + Len(sq_send'[v])
    <3>0. v \in Worker /\ PushedBy(v) = sq_counter[v] + Len(sq_send[v])
      BY <2>1 DEF QTypes, Numbered
    <3>1. CASE v = w
      <4>1. PushedBy(v) = n + L /\ sq_counter'[v] = n + L /\ Len(sq_send'[v]) = 0
        BY <1>4, <1>19, <3>0, <3>1 DEF s, n
      <4> QED
        BY <1>4, <1>5, <4>1
    <3>2. CASE v # w
      BY <1>19, <3>0, <3>2
    <3> QED
      BY <3>1, <3>2
  <2>7. sq_alive' = sq_alive
    BY <1>2
  <2> QED
    BY <2>2, <2>4, <2>5, <2>6, <2>7 DEF Numbered
<1> QED
  <2>1. Ordering(stamped, passed)'
    BY <1>32, <1>24, <1>25, <1>29, <1>30, <1>31 DEF Ordering
  <2> QED
    BY <1>22, <2>1

\* The sink releases, in their order, just the messages that its frontier has passed.
LEMMA SinkKeepsOrder ==
  ASSUME NEW stamp, NEW passed, QTypes, Ordering(stamp, passed),
         NEW w \in Worker, SQ!Sink(w)
  PROVE  QTypes' /\ \E later : Ordering(stamp, later)'
<1> DEFINE r == sq_recvd[w]
           a == sq_arrived[w]
           f == sq_frontier[w]
           sorted == SQ!Sorted(r, a)
           n == SQ!Released(sorted, f)
           out == [k \in 1 .. n |-> sorted[k].element]
           kept == SubSeq(sorted, n + 1, Len(sorted))
<1>1. /\ sq_recvd' = [sq_recvd EXCEPT ![w] = kept]
      /\ sq_recv' = [sq_recv EXCEPT ![w] = IF w \notin sq_alive THEN @ ELSE @ \o out]
      /\ sq_arrived' = [sq_arrived EXCEPT ![w] = <<>>]
      /\ UNCHANGED <<sq_pusher, sq_alive, sq_send, sq_cap, sq_counter, sq_flight, sq_frontier, sq_shown>>
  BY DEF SQ!Sink
<1>2. /\ r \in Seq(Kept) /\ a \in Seq(Kept) /\ f \in Nat
      /\ AtSink(w) = Entries(r) \cup Entries(a)
      /\ Pending(stamp, passed, w) /\ Handed(stamp, passed, w) /\ Ahead(w) /\ Stamped(stamp)
  BY DEF QTypes, AtSink, Ordering
<1>3. /\ Settled(r) /\ Entries(r) \cap Entries(a) = {} /\ AtSink(w) \subseteq Stamps(stamp)
      /\ \A j, k \in 1 .. Len(a) : j # k => a[j] # a[k]
      /\ \A m \in Entries(r) : passed[w] <= m.time
      /\ \A m \in Entries(a) : f <= m.time
  BY <1>2 DEF Pending, Ahead
<1> HIDE DEF r, a, f
<1>4. ASSUME NEW j \in 1 .. Len(r \o a), NEW k \in 1 .. Len(r \o a), j # k
      PROVE  (r \o a)[j] # (r \o a)[k]
  <2>1. PICK x \in Nat, y \in Nat :
          /\ x = Len(r) /\ y = Len(a) /\ Len(r \o a) = x + y
          /\ \A i \in 1 .. x + y : (r \o a)[i] = IF i <= x THEN r[i] ELSE a[i - x]
    BY <1>2, ConcatProperties, LenProperties
  <2>2. ASSUME NEW i \in 1 .. x + y
        PROVE  \/ i \in 1 .. x /\ (r \o a)[i] = r[i]
               \/ \E l \in 1 .. y : i = x + l /\ (r \o a)[i] = a[l]
    <3>1. CASE i <= x
      BY <2>1, <3>1
    <3>2. CASE ~(i <= x)
      <4>1. i - x \in 1 .. y /\ i = x + (i - x)
        BY <3>2
      <4> QED
        BY <2>1, <3>2, <4>1
    <3> QED
      BY <3>1, <3>2
  <2>3. \A i \in 1 .. x : r[i] \in Entries(r)
    BY <2>1 DEF Entries
  <2>4. \A i \in 1 .. y : a[i] \in Entries(a)
    BY <2>1 DEF Entries
  <2>5. \A i, l \in 1 .. x : i # l => r[i] # r[l]
    <3>1. ASSUME NEW i \in 1 .. x, NEW l \in 1 .. x, i < l PROVE r[i] # r[l]
      BY <1>3, <2>1, <3>1 DEF Settled
    <3>2. \A i, l \in 1 .. x : i # l => i < l \/ l < i
      OBVIOUS
    <3> QED
      BY <3>1, <3>2
  <2> QED
    <3>1. j \in 1 .. x + y /\ k \in 1 .. x + y
      BY <2>1
    <3> QED
      <4>1. CASE j \in 1 .. x /\ (r \o a)[j] = r[j]
        <5>1. CASE k \in 1 .. x /\ (r \o a)[k] = r[k]
          BY <1>4, <2>5, <4>1, <5>1
        <5>2. CASE \E l \in 1 .. y : k = x + l /\ (r \o a)[k] = a[l]
          BY <1>3, <2>3, <2>4, <4>1, <5>2
        <5> QED
          BY <2>2, <3>1, <5>1, <5>2
      <4>2. ASSUME NEW l \in 1 .. y, j = x + l, (r \o a)[j] = a[l]
            PROVE  (r \o a)[j] # (r \o a)[k]
        <5>1. CASE k \in 1 .. x /\ (r \o a)[k] = r[k]
          BY <1>3, <2>3, <2>4, <4>2, <5>1
        <5>2. ASSUME NEW i \in 1 .. y, k = x + i, (r \o a)[k] = a[i]
              PROVE  (r \o a)[j] # (r \o a)[k]
          BY <1>3, <1>4, <2>1, <4>2, <5>2
        <5> QED
          BY <2>2, <3>1, <5>1, <5>2
      <4> QED
        BY <2>2, <3>1, <4>1, <4>2
<1>5. /\ sorted \in Seq(Kept) /\ Settled(sorted) /\ Entries(sorted) = AtSink(w)
  <2>1. Entries(r \o a) = Entries(r) \cup Entries(a)
    BY <1>2, EntriesFacts
  <2>2. /\ SQ!Sorted(r, a) \in Seq(Kept) /\ Settled(SQ!Sorted(r, a))
        /\ Entries(SQ!Sorted(r, a)) = Entries(r \o a)
    <3>1. Distinct(r \o a)
      BY <1>4 DEF Distinct
    <3> QED
      BY <1>2, <3>1, SortedFacts
  <2> QED
    BY <1>2, <2>1, <2>2
<1> HIDE DEF sorted
<1>6. PICK L \in Nat : /\ L = Len(sorted) /\ n \in 0 .. L
                       /\ \A k \in 1 .. L : sorted[k] \in Kept /\ sorted[k] \in AtSink(w)
                       /\ \A k \in 1 .. L : sorted[k].time < f <=> k <= n
                       /\ \A m \in AtSink(w) : \E k \in 1 .. L : m = sorted[k]
  <2>1. \A k \in 1 .. Len(sorted) : sorted[k] \in Kept
    BY <1>5, ElementOfSeq
  <2>2. Len(sorted) \in Nat
    BY <1>5, LenProperties
  <2>3. n \in 0 .. Len(sorted) /\ \A k \in 1 .. Len(sorted) : sorted[k].time < f <=> k <= n
    BY <1>2, <1>5, ReleasedFacts
  <2>4. \A m : m \in AtSink(w) <=> \E k \in 1 .. Len(sorted) : m = sorted[k]
    BY <1>5 DEF Entries
  <2> HIDE DEF n
  <2> QED
    BY <2>1, <2>2, <2>3, <2>4
<1>23. \A j, k \in 1 .. L :
         j < k => SQ!NotAfter(sorted[j], sorted[k]) /\ sorted[j] # sorted[k]
  BY <1>5, <1>6 DEF Settled
<1> HIDE DEF n
<1>7. PICK l \in Nat : l = L - n
  <2>1. n \in 0 .. L
    BY <1>6
  <2> QED
    BY <2>1
<1>8. /\ kept \in Seq(Kept) /\ Len(kept) = l
      /\ \A i \in 1 .. l : kept[i] = sorted[n + i]
  <2>0. n \in Nat /\ L \in Nat /\ n + 1 \in Int
    BY <1>6
  <2>1. \A i \in n + 1 .. L : sorted[i] \in Kept
    BY <1>6, <2>0
  <2>2. /\ SubSeq(sorted, n + 1, L) \in Seq(Kept)
        /\ Len(SubSeq(sorted, n + 1, L)) = IF n + 1 <= L THEN L - (n + 1) + 1 ELSE 0
        /\ \A i \in 1 .. L - (n + 1) + 1 : SubSeq(sorted, n + 1, L)[i] = sorted[(n + 1) + i - 1]
    BY <2>0, <2>1, SubSeqProperties
  <2>3. kept = SubSeq(sorted, n + 1, L)
    BY <1>6
  <2>4. L - (n + 1) + 1 = l /\ (~(n + 1 <= L) => l = 0)
    BY <1>6, <1>7, <2>0
  <2>5. \A i \in 1 .. l : (n + 1) + i - 1 = n + i
    BY <1>7, <2>0
  <2> HIDE DEF kept
  <2> QED
    BY <2>2, <2>3, <2>4, <2>5
<1> HIDE DEF kept
<1>9. /\ Settled(kept)
      /\ \A m : m \in Entries(kept) <=> m \in AtSink(w) /\ ~(m.time < f)
  <2>0. n \in Nat
    BY <1>6
  <2>1. ASSUME NEW i \in 1 .. l
        PROVE  n + i \in 1 .. L /\ ~(n + i <= n)
    BY <1>6, <1>7, <2>0
  <2>2. Settled(kept)
    <3>1. ASSUME NEW i \in 1 .. l, NEW j \in 1 .. l, i < j
          PROVE  SQ!NotAfter(kept[i], kept[j]) /\ kept[i] # kept[j]
      <4>1. n + i < n + j
        BY <2>0, <3>1
      <4> QED
        BY <1>8, <1>23, <2>1, <4>1
    <3> QED
      BY <1>8, <3>1 DEF Settled
  <2>3. ASSUME NEW i \in 1 .. l
        PROVE  kept[i] \in AtSink(w) /\ ~(kept[i].time < f)
    BY <1>6, <1>8, <2>1
  <2>4. ASSUME NEW m \in AtSink(w), ~(m.time < f)
        PROVE  \E i \in 1 .. l : m = kept[i]
    <3>1. PICK k \in 1 .. L : m = sorted[k]
      BY <1>6
    <3>2. ~(k <= n)
      BY <1>6, <2>4, <3>1
    <3>3. k - n \in 1 .. l /\ n + (k - n) = k
      BY <1>6, <1>7, <2>0, <3>2
    <3> QED
      BY <1>8, <3>1, <3>3
  <2>5. \A m : m \in Entries(kept) <=> \E i \in 1 .. l : m = kept[i]
    BY <1>8 DEF Entries
  <2> QED
    BY <2>2, <2>3, <2>4, <2>5
<1>10. /\ \A k \in 1 .. n : /\ k \in 1 .. L /\ sorted[k].element \in DOMAIN stamp
                            /\ sorted[k] = stamp[sorted[k].element]
  BY <1>2, <1>3, <1>6, StampsKept
<1>11. /\ out \in Seq(DOMAIN stamp) /\ Len(out) = n
       /\ \A k \in 1 .. n : out[k] = sorted[k].element
  <2>1. out \in [1 .. n -> DOMAIN stamp] /\ n \in Nat
    BY <1>6, <1>10
  <2> QED
    BY <2>1
<1> HIDE DEF out
<1>12. DOMAIN stamp \subseteq Nat
  BY <1>2 DEF Stamped
<1>13. /\ sq_recvd'[w] = kept /\ sq_arrived'[w] = <<>>
       /\ sq_recv'[w] = IF w \notin sq_alive THEN sq_recv[w] ELSE sq_recv[w] \o out
       /\ \A v \in Worker : v # w => /\ sq_recvd'[v] = sq_recvd[v]
                                     /\ sq_arrived'[v] = sq_arrived[v]
                                     /\ sq_recv'[v] = sq_recv[v]
  BY <1>1 DEF QTypes
<1>14. QTypes'
  <2>1. sq_recv[w] \o out \in Seq(Nat)
    <3>1. out \in Seq(Nat) /\ sq_recv[w] \in Seq(Nat)
      BY <1>11, <1>12, SeqMonotonic DEF QTypes
    <3> QED
      BY <3>1, ConcatProperties
  <2>2. sq_recv' \in [Worker -> Seq(Nat)]
    BY <1>1, <2>1 DEF QTypes
  <2>3. sq_recvd' \in [Worker -> Seq(Kept)] /\ sq_arrived' \in [Worker -> Seq(Kept)]
    BY <1>1, <1>8 DEF QTypes
  <2> QED
    BY <1>1, <2>2, <2>3 DEF QTypes
<1>15. PICK later : /\ \A v \in Worker : v # w => later[v] = passed[v]
                    /\ later[w] = IF w \in sq_alive THEN f ELSE passed[w]
  <2> DEFINE next == [v \in Worker |-> IF v = w /\ w \in sq_alive THEN f ELSE passed[v]]
  <2>1. /\ \A v \in Worker : v # w => next[v] = passed[v]
        /\ next[w] = IF w \in sq_alive THEN f ELSE passed[w]
    OBVIOUS
  <2> QED
    BY <2>1
<1>16. /\ passed[w] \in Nat /\ passed[w] <= f
       /\ \A m \in AtSink(w) : m \in Stamps(stamp) /\ m \in Kept /\ passed[w] <= m.time
  <2>1. passed[w] \in Nat /\ passed[w] <= f
    BY <1>2 DEF Handed, f
  <2>2. \A m \in AtSink(w) : m \in Stamps(stamp) /\ m \in Kept
    BY <1>2, <1>3, StampsKept
  <2>3. \A m \in AtSink(w) : m.time \in Nat
    BY <2>2 DEF Kept
  <2> QED
    BY <1>2, <1>3, <2>1, <2>2, <2>3
<1>17. \A u, v \in Worker : OnWay(u, v)' = OnWay(u, v)
  BY <1>1 DEF OnWay
<1>18. /\ Entries(sq_recvd'[w]) = Entries(kept) /\ Entries(sq_arrived'[w]) = {}
       /\ AtSink(w)' = Entries(kept)
  BY <1>13, EntriesFacts DEF AtSink
<1>19. ASSUME NEW v \in Worker
       PROVE  Pending(stamp, later, v)'
  <2>1. Pending(stamp, passed, v)
    BY DEF Ordering
  <2>2. CASE v # w
    <3>1. AtSink(v)' = AtSink(v)
      BY <1>13, <2>2 DEF AtSink
    <3> QED
      BY <1>1, <1>13, <1>15, <1>17, <2>1, <2>2, <3>1 DEF Pending
  <2>3. CASE v = w
    <3>1. AtSink(w)' \subseteq Stamps(stamp)
      BY <1>3, <1>9, <1>18
    <3>2. ASSUME NEW u \in Worker
          PROVE  /\ Rising(sq_flight'[u][w])
                 /\ OnWay(u, w)' \subseteq Stamps(stamp) \ AtSink(w)'
                 /\ \A m \in OnWay(u, w)' : sq_pusher'[m.element] = u
      <4>1. /\ Rising(sq_flight[u][w]) /\ OnWay(u, w) \subseteq Stamps(stamp) \ AtSink(w)
            /\ \A m \in OnWay(u, w) : sq_pusher[m.element] = u
        BY <1>2 DEF Pending
      <4> QED
        BY <1>1, <1>9, <1>17, <1>18, <4>1
    <3>3. Settled(sq_recvd'[w])
      BY <1>9, <1>13
    <3>4. \A j, k \in 1 .. Len(sq_arrived'[w]) : j # k => sq_arrived'[w][j] # sq_arrived'[w][k]
      BY <1>13
    <3>5. \A m \in Entries(sq_recvd'[w]) : later[w] <= m.time
      <4>1. ASSUME NEW m \in Entries(kept) PROVE later[w] <= m.time
        <5>1. m \in AtSink(w) /\ ~(m.time < f) /\ passed[w] <= m.time /\ m.time \in Nat
          BY <1>9, <1>16, <4>1 DEF Kept
        <5> QED
          BY <1>2, <1>15, <5>1
      <4> QED
        BY <1>18, <4>1
    <3>6. ASSUME w \in sq_alive', NEW m \in Stamps(stamp), later[w] <= m.time
          PROVE  m \in AtSink(w)' \/ \E u \in Worker : m \in OnWay(u, w)'
      <4>1. m \in Kept /\ f <= m.time /\ w \in sq_alive
        BY <1>1, <1>2, <1>15, <3>6, StampsKept
      <4>2. m.time \in Nat /\ passed[w] <= m.time /\ ~(m.time < f)
        BY <1>2, <1>16, <4>1 DEF Kept
      <4>3. m \in AtSink(w) \/ \E u \in Worker : m \in OnWay(u, w)
        BY <1>2, <4>1, <4>2 DEF Pending
      <4> QED
        BY <1>9, <1>17, <1>18, <4>2, <4>3
    <3> QED
      BY <1>18, <2>3, <3>1, <3>2, <3>3, <3>4, <3>5, <3>6 DEF Pending
  <2> QED
    BY <2>2, <2>3
<1>20. ASSUME NEW v \in Worker
       PROVE  Handed(stamp, later, v)'
  <2>1. Handed(stamp, passed, v)
    BY DEF Ordering
  <2>2. CASE v # w
    BY <1>1, <1>13, <1>15, <2>1, <2>2 DEF Handed
  <2>3. CASE v = w /\ w \notin sq_alive
    BY <1>1, <1>13, <1>15, <2>1, <2>3 DEF Handed
  <2>4. CASE v = w /\ w \in sq_alive
    <3> DEFINE h == sq_recv[w]
    <3>1. /\ h \in Seq(DOMAIN stamp)
          /\ \A j, k \in 1 .. Len(h) : j < k => InTurn(stamp, h[j], h[k])
          /\ \A e \in DOMAIN stamp : e \in Entries(h) <=> stamp[e].time < passed[w]
      BY <1>2 DEF Handed
    <3>2. sq_recv'[w] = h \o out /\ later[w] = f /\ sq_frontier'[w] = f
      BY <1>1, <1>13, <1>15, <2>4 DEF f
    <3> HIDE DEF h
    <3>3. PICK x \in Nat :
            /\ x = Len(h) /\ Len(h \o out) = x + n /\ h \o out \in Seq(DOMAIN stamp)
            /\ \A i \in 1 .. x + n : (h \o out)[i] = IF i <= x THEN h[i] ELSE out[i - x]
      <4>1. Len(h) \in Nat
        BY <3>1, LenProperties
      <4>2. /\ Len(h \o out) = Len(h) + Len(out) /\ h \o out \in Seq(DOMAIN stamp)
            /\ \A i \in 1 .. Len(h) + Len(out) :
                 (h \o out)[i] = IF i <= Len(h) THEN h[i] ELSE out[i - Len(h)]
        BY <1>11, <3>1, ConcatProperties
      <4> QED
        BY <1>11, <4>1, <4>2
    <3>4. \A e \in DOMAIN stamp : stamp[e] \in Kept /\ stamp[e].element = e /\ stamp[e].time \in Nat
      BY <1>2 DEF Stamped, Kept
    <3>5. \A i \in 1 .. x : h[i] \in DOMAIN stamp /\ stamp[h[i]].time < passed[w]
      <4>1. \A i \in 1 .. x : h[i] \in DOMAIN stamp /\ h[i] \in Entries(h)
        BY <3>1, <3>3, ElementOfSeq DEF Entries
      <4>2. \A e \in DOMAIN stamp : e \in Entries(h) => stamp[e].time < passed[w]
        BY <3>1
      <4> QED
        BY <4>1, <4>2, Zenon
    <3>6. \A k \in 1 .. n : /\ out[k] \in DOMAIN stamp /\ stamp[out[k]] = sorted[k]
                            /\ passed[w] <= sorted[k].time /\ sorted[k].time < f
                            /\ sorted[k].time \in Nat
      BY <1>6, <1>10, <1>11, <1>16 DEF Kept
    <3>7. ASSUME NEW i \in 1 .. x + n, NEW j \in 1 .. x + n, i < j
          PROVE  InTurn(stamp, (h \o out)[i], (h \o out)[j])
      <4>0. n \in Nat
        BY <1>6
      <4>1. CASE j <= x
        <5>1. i \in 1 .. x /\ j \in 1 .. x
          BY <3>7, <4>0, <4>1
        <5> QED
          BY <3>1, <3>3, <3>7, <5>1
      <4>2. CASE i <= x /\ ~(j <= x)
        <5>1. PICK k \in 1 .. n : k = j - x
          BY <4>0, <4>2
        <5>2. i \in 1 .. x
          BY <4>0, <4>2
        <5>3. (h \o out)[i] = h[i] /\ (h \o out)[j] = out[k]
          BY <3>3, <4>2, <5>1
        <5>4. stamp[h[i]].time < stamp[out[k]].time
          BY <1>16, <3>4, <3>5, <3>6, <5>2
        <5> QED
          BY <3>4, <3>5, <3>6, <5>2, <5>3, <5>4 DEF InTurn, SQ!NotAfter
      <4>3. CASE ~(i <= x)
        <5>1. PICK k \in 1 .. n : k = i - x
          BY <3>7, <4>0, <4>3
        <5>2. PICK y \in 1 .. n : y = j - x
          BY <3>7, <4>0, <4>3
        <5>3. ~(j <= x) /\ k < y
          BY <3>7, <4>0, <4>3, <5>1, <5>2
        <5>4. (h \o out)[i] = out[k] /\ (h \o out)[j] = out[y]
          BY <3>3, <4>3, <5>1, <5>2, <5>3
        <5>5. SQ!NotAfter(sorted[k], sorted[y]) /\ sorted[k] # sorted[y]
          BY <1>10, <1>23, <5>3
        <5> QED
          BY <3>6, <5>4, <5>5 DEF InTurn
      <4> QED
        BY <4>1, <4>2, <4>3
    <3>8. Entries(h \o out) = Entries(h) \cup Entries(out)
      BY <1>11, <3>1, EntriesFacts
    <3>9. ASSUME NEW e \in DOMAIN stamp
          PROVE  e \in Entries(h \o out) <=> stamp[e].time < f
      <4>1. CASE e \in Entries(h)
        <5>1. stamp[e].time < passed[w] /\ stamp[e].time \in Nat
          BY <3>1, <3>4, <4>1
        <5> QED
          BY <1>2, <1>16, <3>8, <4>1, <5>1
      <4>2. ASSUME e \in Entries(out) PROVE stamp[e].time < f
        BY <1>11, <3>6, <4>2 DEF Entries
      <4>3. ASSUME e \notin Entries(h), stamp[e].time < f PROVE e \in Entries(out)
        <5>1. ~(stamp[e].time < passed[w]) /\ passed[w] <= stamp[e].time /\ stamp[e] \in Stamps(stamp)
          BY <1>2, <1>16, <3>1, <3>4, <4>3, StampsKept
        <5>2. stamp[e] \in AtSink(w) \/ \E u \in Worker : stamp[e] \in OnWay(u, w)
          BY <1>2, <2>4, <5>1 DEF Pending
        <5>3. \A u \in Worker : \A m \in OnWay(u, w) : f <= m.time
          BY <1>2 DEF Ahead, f
        <5>4. stamp[e] \in AtSink(w)
          BY <1>2, <3>4, <4>3, <5>2, <5>3
        <5>5. PICK k \in 1 .. L : stamp[e] = sorted[k]
          BY <1>6, <5>4
        <5>6. k \in 1 .. n
          BY <1>6, <4>3, <5>5
        <5>7. out[k] = e
          BY <1>11, <3>4, <5>5, <5>6
        <5> QED
          BY <1>11, <5>6, <5>7 DEF Entries
      <4> QED
        BY <3>8, <4>1, <4>2, <4>3
    <3>10. f <= f /\ f \in Nat
      BY <1>2
    <3> QED
      BY <2>4, <3>2, <3>3, <3>7, <3>9, <3>10 DEF Handed
  <2> QED
    BY <2>2, <2>3, <2>4
<1>21. ASSUME NEW v \in Worker
       PROVE  Ahead(v)'
  <2>1. Ahead(v)
    BY DEF Ordering
  <2>2. Entries(sq_arrived'[v]) \subseteq Entries(sq_arrived[v])
    BY <1>13, <1>18
  <2> QED
    BY <1>1, <1>17, <2>1, <2>2 DEF Ahead
<1>22. Numbered(stamp)'
  <2>1. Numbered(stamp)
    BY DEF Ordering
  <2>2. \A e : SQ!Number(e)' = SQ!Number(e) /\ PushedBy(e)' = PushedBy(e)
    BY <1>1 DEF SQ!Number, PushedBy
  <2> QED
    BY <1>1, <2>1, <2>2 DEF Numbered
<1> QED
  <2>1. Ordering(stamp, later)'
    BY <1>1, <1>2, <1>19, <1>20, <1>21, <1>22 DEF Ordering, Stamped, Unsent
  <2> QED
    BY <1>14, <2>1

LEMMA QInit ==
  ASSUME SQ!Init
  PROVE  QInv
<1> DEFINE stamp == [e \in {} |-> 0]
           passed == [w \in Worker |-> 0]
<1>1. /\ sq_pusher = <<>> /\ sq_alive = Worker
      /\ sq_send = [w \in Worker |-> <<>>] /\ sq_recv = [w \in Worker |-> <<>>]
      /\ sq_cap = [w \in Worker |-> {0}] /\ sq_counter = [w \in Worker |-> 0]
      /\ sq_flight = [v \in Worker |-> [w \in Worker |-> <<>>]]
      /\ sq_arrived = [w \in Worker |-> <<>>] /\ sq_recvd = [w \in Worker |-> <<>>]
      /\ sq_frontier = [w \in Worker |-> 0]
  BY DEF SQ!Init
<1>2. QTypes
  <2>1. /\ <<>> \in Seq(Worker) /\ <<>> \in Seq(Nat) /\ <<>> \in Seq(Kept)
    BY EmptySeq
  <2> QED
    BY <1>1, <2>1 DEF QTypes
<1>3. DOMAIN stamp = {} /\ Entries(<<>>) = {} /\ Stamps(stamp) = {}
  BY EntriesFacts DEF Stamps
<1>4. /\ \A w \in Worker : AtSink(w) = {}
      /\ \A v, w \in Worker : OnWay(v, w) = {}
  BY <1>1, <1>3 DEF AtSink, OnWay
<1>5. Stamped(stamp)
  BY <1>3 DEF Stamped
<1>6. ASSUME NEW w \in Worker
      PROVE  Unsent(stamp, w) /\ Ahead(w)
  BY <1>1, <1>3, <1>4 DEF Unsent, Ahead
<1>7. ASSUME NEW w \in Worker
      PROVE  Pending(stamp, passed, w)
  BY <1>1, <1>3, <1>4 DEF Pending, Rising, Settled
<1>8. ASSUME NEW w \in Worker
      PROVE  Handed(stamp, passed, w)
  <2>1. sq_recv[w] = <<>> /\ <<>> \in Seq(DOMAIN stamp) /\ passed[w] = 0 /\ sq_frontier[w] = 0
    BY <1>1, EmptySeq
  <2> QED
    BY <1>3, <2>1 DEF Handed
<1>9. Numbered(stamp)
  <2>1. Len(<<>>) = 0
    OBVIOUS
  <2>2. ASSUME NEW w \in Worker PROVE PushedBy(w) = 0
    <3>1. {d \in 1 .. Len(sq_pusher) : sq_pusher[d] = w} = {}
      BY <1>1, <2>1
    <3> QED
      BY <3>1, FS_EmptySet DEF PushedBy
  <2> QED
    BY <1>1, <1>3, <2>1, <2>2 DEF Numbered
<1> QED
  BY <1>2, <1>5, <1>6, <1>7, <1>8, <1>9 DEF QInv, Ordering

LEMMA QStep ==
  ASSUME SQ!TimersAssumption, QInv, [SQ!Next]_sq_vars
  PROVE  QInv'
<1>1. QTypes
  BY DEF QInv
<1>2. PICK stamp, passed : Ordering(stamp, passed)
  BY DEF QInv
<1>3. ASSUME NEW w \in Worker, SQ!Push(w) PROVE QInv'
  BY <1>1, <1>2, <1>3, PushKeepsOrder DEF QInv
<1>4. ASSUME NEW w \in Worker, SQ!Drop(w) PROVE QInv'
  BY <1>1, <1>2, <1>4, DropKeepsOrder DEF QInv
<1>5. ASSUME NEW w \in Worker, SQ!Sequence(w) PROVE QInv'
  BY <1>1, <1>2, <1>5, SequenceKeepsOrder DEF QInv
<1>6. ASSUME NEW w \in Worker, SQ!GiveUp(w) PROVE QInv'
  BY <1>1, <1>2, <1>6, GiveUpKeepsOrder DEF QInv
<1>7. ASSUME NEW w \in Worker, SQ!Observe(w) PROVE QInv'
  BY <1>1, <1>2, <1>7, ObserveKeepsOrder DEF QInv
<1>8. ASSUME NEW w \in Worker, SQ!Sink(w) PROVE QInv'
  BY <1>1, <1>2, <1>8, SinkKeepsOrder DEF QInv
<1>9. ASSUME NEW v \in Worker, NEW w \in Worker, SQ!Arrive(v, w) PROVE QInv'
  BY <1>1, <1>2, <1>9, ArriveKeepsOrder DEF QInv
<1>10. CASE UNCHANGED sq_vars
  <2>1. QTypes'
    BY <1>1, <1>10 DEF QTypes, sq_vars
  <2>2. Ordering(stamp, passed)'
    <3>1. /\ \A w \in Worker : AtSink(w)' = AtSink(w)
          /\ \A v, w \in Worker : OnWay(v, w)' = OnWay(v, w)
      BY <1>10 DEF sq_vars, AtSink, OnWay
    <3>2. Stamped(stamp)'
      BY <1>2, <1>10 DEF sq_vars, Ordering, Stamped
    <3>3. \A w \in Worker : Unsent(stamp, w)'
      BY <1>2, <1>10 DEF sq_vars, Ordering, Unsent
    <3>4. ASSUME NEW w \in Worker
          PROVE  Pending(stamp, passed, w)'
      <4>1. Pending(stamp, passed, w)
        BY <1>2 DEF Ordering
      <4> QED
        BY <1>10, <3>1, <4>1 DEF sq_vars, Pending
    <3>5. \A w \in Worker : Handed(stamp, passed, w)'
      BY <1>2, <1>10 DEF sq_vars, Ordering, Handed
    <3>6. \A w \in Worker : Ahead(w)'
      BY <1>2, <1>10, <3>1 DEF sq_vars, Ordering, Ahead
    <3>7. Numbered(stamp)'
      <4>1. \A e : SQ!Number(e)' = SQ!Number(e) /\ PushedBy(e)' = PushedBy(e)
        BY <1>10 DEF sq_vars, SQ!Number, PushedBy
      <4> QED
        BY <1>2, <1>10, <4>1 DEF sq_vars, Ordering, Numbered
    <3> QED
      BY <3>2, <3>3, <3>4, <3>5, <3>6, <3>7 DEF Ordering
  <2> QED
    BY <2>1, <2>2 DEF QInv
<1> QED
  BY <1>3, <1>4, <1>5, <1>6, <1>7, <1>8, <1>9, <1>10 DEF SQ!Next

\* Keys, and so times, come in order at every worker: what comes before an element that
\* another worker was handed, that worker was handed too.
LEMMA QSameOrder ==
  ASSUME QInv
  PROVE  SameOrderButTies
<1>1. PICK stamp, passed : Ordering(stamp, passed)
  BY DEF QInv
<1>2. /\ \A e \in DOMAIN stamp : /\ stamp[e] \in Kept /\ stamp[e].time \in Nat /\ e \in Nat
                                /\ stamp[e].time = sq_shown[e]
                                /\ stamp[e].counter \in Nat /\ stamp[e].counter = SQ!Number(e)
      /\ \A d, e \in DOMAIN stamp : sq_pusher[d] = sq_pusher[e] /\ d < e => Earlier(stamp[d], stamp[e])
  BY <1>1 DEF Ordering, Stamped, Numbered, Kept
<1>3. ASSUME NEW w \in Worker
      PROVE  /\ passed[w] \in Nat
             /\ \A k \in 1 .. Len(sq_recv[w]) : sq_recv[w][k] \in DOMAIN stamp
             /\ \A j, k \in 1 .. Len(sq_recv[w]) : j < k => InTurn(stamp, sq_recv[w][j], sq_recv[w][k])
             /\ \A e \in DOMAIN stamp : e \in Entries(sq_recv[w]) <=> stamp[e].time < passed[w]
             /\ Entries(sq_recv[w]) \subseteq DOMAIN stamp
             /\ SQ!ToSet(sq_recv[w]) = Entries(sq_recv[w]) /\ Len(sq_recv[w]) \in Nat
  <2>1. Handed(stamp, passed, w) /\ sq_recv[w] \in Seq(DOMAIN stamp)
    BY <1>1 DEF Ordering, Handed
  <2>2. /\ \A k \in 1 .. Len(sq_recv[w]) : sq_recv[w][k] \in DOMAIN stamp
        /\ Len(sq_recv[w]) \in Nat /\ DOMAIN sq_recv[w] = 1 .. Len(sq_recv[w])
    BY <2>1, ElementOfSeq, LenProperties
  <2> QED
    BY <2>1, <2>2 DEF Handed, Entries, SQ!ToSet
<1>4. ASSUME NEW v \in Worker, NEW w \in Worker, passed[v] <= passed[w]
      PROVE  Entries(sq_recv[v]) \subseteq Entries(sq_recv[w])
  <2>1. ASSUME NEW e \in Entries(sq_recv[v]) PROVE e \in Entries(sq_recv[w])
    <3>1. e \in DOMAIN stamp /\ stamp[e].time < passed[v]
      BY <1>3
    <3>2. stamp[e].time < passed[w]
      BY <1>2, <1>3, <1>4, <3>1
    <3> QED
      BY <1>3, <3>1, <3>2
  <2> QED
    BY <2>1
<1>5. ASSUME NEW v \in Worker, NEW w \in Worker
      PROVE  \/ SQ!ToSet(sq_recv[v]) \subseteq SQ!ToSet(sq_recv[w])
             \/ SQ!ToSet(sq_recv[w]) \subseteq SQ!ToSet(sq_recv[v])
  <2>1. passed[v] <= passed[w] \/ passed[w] <= passed[v]
    BY <1>3
  <2>2. Entries(sq_recv[v]) \subseteq Entries(sq_recv[w]) \/ Entries(sq_recv[w]) \subseteq Entries(sq_recv[v])
    BY <1>4, <2>1
  <2>3. SQ!ToSet(sq_recv[v]) = Entries(sq_recv[v]) /\ SQ!ToSet(sq_recv[w]) = Entries(sq_recv[w])
    BY <1>3
  <2> QED
    BY <2>2, <2>3
<1>6. ASSUME NEW v \in Worker, NEW w \in Worker,
             NEW i \in 1 .. Len(sq_recv[w]), NEW j \in 1 .. Len(sq_recv[w]),
             NEW k \in 1 .. Len(sq_recv[v]), i < j, sq_recv[v][k] = sq_recv[w][j]
      PROVE  \E l \in 1 .. Len(sq_recv[v]) :
               sq_recv[v][l] = sq_recv[w][i] /\ (l < k \/ SQ!Tie(sq_recv[w][i], sq_recv[w][j]))
  <2>1. PICK d \in DOMAIN stamp, e \in DOMAIN stamp :
          d = sq_recv[w][i] /\ e = sq_recv[w][j] /\ InTurn(stamp, d, e)
    BY <1>3, <1>6
  <2>2. d # e /\ stamp[d].time <= stamp[e].time
    BY <1>2, <2>1 DEF InTurn, SQ!NotAfter
  <2>3. e \in Entries(sq_recv[v])
    BY <1>6, <2>1 DEF Entries
  <2>4. d \in Entries(sq_recv[v])
    <3>1. stamp[e].time < passed[v]
      BY <1>3, <2>3
    <3>2. stamp[d].time < passed[v]
      BY <1>2, <1>3, <2>2, <3>1
    <3> QED
      BY <1>3, <3>2
  <2>5. PICK l \in 1 .. Len(sq_recv[v]) : sq_recv[v][l] = d
    BY <2>4 DEF Entries
  <2>6. l < k \/ k < l
    BY <1>3, <1>6, <2>1, <2>2, <2>5
  <2>7. ASSUME k < l PROVE SQ!Tie(d, e)
    <3>1. SQ!NotAfter(stamp[d], stamp[e]) /\ SQ!NotAfter(stamp[e], stamp[d])
      BY <1>3, <1>6, <2>1, <2>5, <2>7 DEF InTurn
    <3>2. stamp[d].time = stamp[e].time /\ stamp[d].counter = stamp[e].counter
      BY <1>2, <3>1 DEF SQ!NotAfter
    <3> QED
      BY <1>2, <3>2 DEF SQ!Tie
  <2> QED
    BY <2>1, <2>5, <2>6, <2>7
<1>7. ASSUME NEW w \in Worker
      PROVE  SQ!OwnOrder(w)
  <2>1. ASSUME NEW j \in 1 .. Len(sq_recv[w]), NEW k \in 1 .. Len(sq_recv[w]),
               j < k, sq_pusher[sq_recv[w][j]] = sq_pusher[sq_recv[w][k]]
        PROVE  sq_recv[w][j] < sq_recv[w][k]
    <3>1. PICK d \in DOMAIN stamp, e \in DOMAIN stamp :
            d = sq_recv[w][j] /\ e = sq_recv[w][k] /\ InTurn(stamp, d, e)
      BY <1>3, <2>1
    <3>2. d # e /\ ~(e < d)
      <4>1. ~Earlier(stamp[e], stamp[d])
        BY <1>2, <3>1 DEF InTurn, SQ!NotAfter, Earlier
      <4> QED
        BY <1>2, <2>1, <3>1, <4>1 DEF InTurn
    <3> QED
      BY <1>2, <3>1, <3>2
  <2> QED
    BY <2>1 DEF SQ!OwnOrder
<1> QED
  BY <1>5, <1>6, <1>7 DEF SameOrderButTies, SQ!SameOrderButTies

-----------------------------------------------------------------------------
(* Sequencing: the theorem *)

\* sequence.rs: whoever pushes and drops, whatever the timers show, and however messages
\* and frontiers are delayed, all workers are handed the elements in one order, which keeps
\* that of each pusher, but for elements of different workers that each sent as its n-th
\* when their timers showed the same.
THEOREM OneOrderButTies ==
  ASSUME SQ!TimersAssumption
  PROVE  AnySpec => []SameOrderButTies
<1>1. AnyInit => QInv
  BY QInit DEF AnyInit
<1>2. QInv /\ [AnyNext]_any_vars => QInv'
  <2>1. [AnyNext]_any_vars => [SQ!Next]_sq_vars
    BY DEF AnyNext, any_vars, sq_vars
  <2> QED
    BY <2>1, QStep
<1>3. QInv => SameOrderButTies
  BY QSameOrder
<1> QED
  BY <1>1, <1>2, <1>3, PTL DEF AnySpec

=============================================================================
