------------------------ MODULE ProgressTrackingProofs ------------------------
(***************************************************************************)
(* Proofs about ProgressTracking: nothing is lost between the workers, a   *)
(* frontier never passes a time at which something outstanding could still *)
(* produce, and the protocol implements ProgressSpec.                      *)
(*                                                                         *)
(* The argument.  Batches are taken in order from each worker but in any   *)
(* interleaving between workers, so a tracker may know any mixture of      *)
(* prefixes of what the workers did.  What saves it: whatever a batch adds *)
(* is backed by something earlier in the dataflow, which the same batch    *)
(* takes away or which its sender still holds once all it has yet to       *)
(* deliver is accounted for.  From an addition that a tracker has seen     *)
(* while it lacks what backs it, one can go on to something earlier still, *)
(* which cannot go on for ever.                                            *)
(***************************************************************************)
EXTENDS ProgressTracking, FiniteSetTheorems, TLAPS

(***************************************************************************)
(* Sums of integer functions over finite sets (Functions!SumFunction): the *)
(* recurrence, and what adding functions, changing one value and shifting  *)
(* the indices of a sequence do to a sum.                                  *)
(*                                                                         *)
(* Induction over the subsets of a finite set is used in the form of a set *)
(* of subsets that are good, of which no bad one can be the least.         *)
(***************************************************************************)
Some(s) == CHOOSE x \in s : TRUE

\* What SumFunction computes for the subsets of a domain.
Adds(f, S, iter) ==
  iter = [s \in SUBSET S |-> IF s = {} THEN 0 ELSE f[Some(s)] + iter[s \ {Some(s)}]]

\* The sum of f over the part T of its domain.
SumOver(f, T) == SumFunction([x \in T |-> f[x]])

-----------------------------------------------------------------------------
(* Induction *)

LEMMA SubsetsWellFounded ==
  ASSUME NEW S, IsFiniteSet(S)
  PROVE  IsWellFoundedOn(StrictSubsetOrdering(S), SUBSET S)
BY FS_StrictSubsetOrderingWellFounded, FS_FiniteSubsetsOfFinite

\* Any non-empty set of subsets of a finite set has a least one.
LEMMA LeastSubset ==
  ASSUME NEW S, IsFiniteSet(S), NEW Bad \in SUBSET SUBSET S, Bad # {}
  PROVE  \E T \in Bad : \A U \in Bad : ~(<<U, T>> \in StrictSubsetOrdering(S))
<1>1. Bad \subseteq SUBSET S
  OBVIOUS
<1>2. IsWellFoundedOn(StrictSubsetOrdering(S), SUBSET S)
  BY SubsetsWellFounded
<1> QED
  BY <1>1, <1>2, WFMin

\* A property of the subsets of a finite set that holds of each one whose strict
\* subsets have it holds of all.
LEMMA SubsetInduction ==
  ASSUME NEW S, IsFiniteSet(S), NEW Good \in SUBSET SUBSET S,
         \A T \in SUBSET S : (\A U \in SUBSET T : U # T => U \in Good) => T \in Good
  PROVE  Good = SUBSET S
<1> DEFINE Bad == (SUBSET S) \ Good
<1> SUFFICES ASSUME Bad # {} PROVE FALSE
  OBVIOUS
<1>2. PICK T \in Bad : \A U \in Bad : ~(<<U, T>> \in StrictSubsetOrdering(S))
  <2>1. Bad \in SUBSET SUBSET S
    OBVIOUS
  <2> HIDE DEF Bad
  <2> QED
    BY <2>1, LeastSubset
<1>3. \A U \in SUBSET T : U # T => U \in Good
  BY <1>2 DEF StrictSubsetOrdering
<1> QED
  BY <1>2, <1>3

\* The same one element at a time, from the empty set.
LEMMA ElementInduction ==
  ASSUME NEW S, IsFiniteSet(S), NEW Good \in SUBSET SUBSET S,
         {} \in Good,
         \A T \in Good : \A x \in S \ T : T \cup {x} \in Good
  PROVE  S \in Good
<1>1. ASSUME NEW T \in SUBSET S, \A U \in SUBSET T : U # T => U \in Good
      PROVE  T \in Good
  <2>1. CASE T = {}
    BY <2>1
  <2>2. CASE T # {}
    <3>1. PICK x \in T : TRUE
      BY <2>2
    <3>2. T \ {x} \in Good
      BY <1>1, <3>1
    <3>3. (T \ {x}) \cup {x} = T
      BY <3>1
    <3>4. x \in S \ (T \ {x})
      BY <3>1
    <3> QED
      BY <3>2, <3>3, <3>4
  <2> QED
    BY <2>1, <2>2
<1>2. Good = SUBSET S
  BY <1>1, SubsetInduction
<1> QED
  BY <1>2

-----------------------------------------------------------------------------
(* SumFunction is well defined *)

LEMMA SumIterates ==
  ASSUME NEW f
  PROVE  SumFunction(f) = (CHOOSE iter : Adds(f, DOMAIN f, iter))[DOMAIN f]
BY Zenon DEF SumFunction, SumFunctionOnSet, FoldFunctionOnSet, MapThenFoldSet, Adds, Some

LEMMA SomeIn == ASSUME NEW s, s # {} PROVE Some(s) \in s
BY DEF Some

LEMMA AddsAgree ==
  ASSUME NEW S, IsFiniteSet(S), NEW f, NEW g, \A x \in S : f[x] = g[x],
         NEW U, S \subseteq U, NEW V, S \subseteq V,
         NEW i, Adds(f, U, i), NEW j, Adds(g, V, j)
  PROVE  i[S] = j[S]
<1> DEFINE Good == {T \in SUBSET S : i[T] = j[T]}
<1>1. ASSUME NEW T \in SUBSET S, \A R \in SUBSET T : R # T => R \in Good PROVE T \in Good
  <2>1. CASE T = {}
    BY <2>1 DEF Adds
  <2>2. CASE T # {}
    <3>1. Some(T) \in T
      BY <2>2, SomeIn
    <3>2. i[T] = f[Some(T)] + i[T \ {Some(T)}]
      BY <2>2, <3>1 DEF Adds
    <3>3. j[T] = g[Some(T)] + j[T \ {Some(T)}]
      BY <2>2, <3>1 DEF Adds
    <3> QED
      BY <1>1, <3>1, <3>2, <3>3
  <2> QED
    BY <2>1, <2>2
<1>2. Good = SUBSET S
  <2> Good \in SUBSET SUBSET S
    OBVIOUS
  <2> HIDE DEF Good
  <2> QED
    BY <1>1, SubsetInduction
<1> QED
  BY <1>2

LEMMA AddsExists ==
  ASSUME NEW S, IsFiniteSet(S), NEW f
  PROVE  \E iter : Adds(f, S, iter)
<1> DEFINE Good == {T \in SUBSET S : \E iter : Adds(f, T, iter)}
           It(T) == CHOOSE iter : Adds(f, T, iter)
<1>1. ASSUME NEW T \in SUBSET S, \A R \in SUBSET T : R # T => R \in Good PROVE T \in Good
  <2> DEFINE new == [s \in SUBSET T |->
                       IF s = {} THEN 0
                       ELSE f[Some(s)] + It(s \ {Some(s)})[s \ {Some(s)}]]
  <2>1. ASSUME NEW s \in SUBSET T, s # {} PROVE Adds(f, s \ {Some(s)}, It(s \ {Some(s)}))
    <3>1. s \ {Some(s)} \in SUBSET T /\ s \ {Some(s)} # T
      BY <2>1, SomeIn
    <3>2. \E iter : Adds(f, s \ {Some(s)}, iter)
      BY <1>1, <3>1
    <3> QED
      BY <3>2, Zenon
  <2>2. ASSUME NEW s \in SUBSET T, s # {}
        PROVE  new[s \ {Some(s)}] = It(s \ {Some(s)})[s \ {Some(s)}]
    <3> DEFINE r == s \ {Some(s)}
    <3>1. r \in SUBSET T
      OBVIOUS
    <3>2. Adds(f, r, It(r))
      BY <2>1, <2>2
    <3>3. CASE r = {}
      <4>1. It(r)[r] = 0
        <5> HIDE DEF It, r
        <5> QED
          BY <3>2, <3>3 DEF Adds
      <4> QED
        BY <4>1, <3>1, <3>3
    <3>4. CASE r # {}
      <4> DEFINE q == r \ {Some(r)}
      <4>1. Adds(f, q, It(q))
        BY <2>1, <3>1, <3>4
      <4>2. IsFiniteSet(q) /\ q \subseteq q /\ q \subseteq r
        BY FS_Subset
      <4>3. It(q)[q] = It(r)[q]
        <5> HIDE DEF q, It, r
        <5> QED
          BY <4>1, <4>2, <3>2, AddsAgree
      <4>4. It(r)[r] = f[Some(r)] + It(r)[q]
        <5> HIDE DEF It, r
        <5> QED
          BY <3>2, <3>4 DEF Adds
      <4>5. new[r] = f[Some(r)] + It(q)[q]
        <5> HIDE DEF It, r
        <5> QED
          BY <3>1, <3>4
      <4> QED
        BY <4>3, <4>4, <4>5
    <3> QED
      BY <3>3, <3>4
  <2>3. Adds(f, T, new)
    <3>1. new = [s \in SUBSET T |-> IF s = {} THEN 0 ELSE f[Some(s)] + new[s \ {Some(s)}]]
      <4>1. \A s \in SUBSET T : s # {} =>
              f[Some(s)] + It(s \ {Some(s)})[s \ {Some(s)}] = f[Some(s)] + new[s \ {Some(s)}]
        BY <2>2
      <4> HIDE DEF It
      <4> QED
        BY <4>1
    <3> QED
      BY <3>1 DEF Adds
  <2> QED
    BY <2>3
<1>2. Good = SUBSET S
  <2> Good \in SUBSET SUBSET S
    OBVIOUS
  <2> HIDE DEF Good
  <2> QED
    BY <1>1, SubsetInduction
<1> QED
  BY <1>2

\* The sum is what any such computation yields.
LEMMA SumByAdds ==
  ASSUME NEW U, IsFiniteSet(U), NEW S \in SUBSET U, NEW f, NEW iter, Adds(f, U, iter)
  PROVE  SumOver(f, S) = iter[S]
<1> DEFINE g == [x \in S |-> f[x]]
<1>1. IsFiniteSet(S)
  BY FS_Subset
<1>2. PICK j : Adds(g, S, j) /\ SumFunction(g) = j[S]
  <2>1. DOMAIN g = S
    OBVIOUS
  <2>2. \E j : Adds(g, S, j)
    BY <1>1, AddsExists
  <2> DEFINE c == CHOOSE j : Adds(g, S, j)
  <2>3. Adds(g, S, c)
    BY <2>2, Zenon
  <2>4. SumFunction(g) = c[S]
    BY <2>1, SumIterates
  <2> QED
    BY <2>3, <2>4
<1>3. \A x \in S : f[x] = g[x]
  OBVIOUS
<1>4. iter[S] = j[S]
  <2> HIDE DEF g
  <2> QED
    BY <1>1, <1>2, <1>3, AddsAgree
<1> QED
  BY <1>2, <1>4 DEF SumOver

-----------------------------------------------------------------------------
(* The recurrence *)

LEMMA SumEmpty == ASSUME NEW f PROVE SumOver(f, {}) = 0
<1>1. IsFiniteSet({})
  BY FS_EmptySet
<1>2. PICK iter : Adds(f, {}, iter)
  BY <1>1, AddsExists
<1>3. iter[{}] = 0
  BY <1>2 DEF Adds
<1> QED
  BY <1>1, <1>2, <1>3, SumByAdds

\* Whichever element is taken out first, the sum is its value and the sum of the rest.
LEMMA SumStep ==
  ASSUME NEW S, IsFiniteSet(S), NEW f, \A x \in S : f[x] \in Int
  PROVE  /\ SumOver(f, S) \in Int
         /\ \A a \in S : SumOver(f, S) = f[a] + SumOver(f, S \ {a})
<1>1. PICK iter : Adds(f, S, iter)
  BY AddsExists
<1>2. \A T \in SUBSET S : T # {} =>
        /\ Some(T) \in T
        /\ iter[T] = f[Some(T)] + iter[T \ {Some(T)}]
  <2> SUFFICES ASSUME NEW T \in SUBSET S, T # {}
               PROVE  Some(T) \in T /\ iter[T] = f[Some(T)] + iter[T \ {Some(T)}]
    OBVIOUS
  <2>1. Some(T) \in T
    BY SomeIn
  <2> QED
    BY <1>1, <2>1 DEF Adds
<1> DEFINE Good == {T \in SUBSET S : /\ iter[T] \in Int
                                    /\ \A a \in T : iter[T] = f[a] + iter[T \ {a}]}
<1>3. ASSUME NEW T \in SUBSET S, \A R \in SUBSET T : R # T => R \in Good PROVE T \in Good
  <2>1. CASE T = {}
    BY <1>1, <2>1 DEF Adds
  <2>2. CASE T # {}
    <3> DEFINE b == Some(T)
    <3>1. b \in T /\ iter[T] = f[b] + iter[T \ {b}]
      BY <1>2, <2>2
    <3> HIDE DEF b
    <3>2. iter[T \ {b}] \in Int
      <4>1. T \ {b} \in SUBSET T /\ T \ {b} # T
        BY <3>1
      <4> QED
        BY <1>3, <4>1
    <3>3. ASSUME NEW a \in T, a # b PROVE iter[T] = f[a] + iter[T \ {a}]
      <4> DEFINE R == T \ {a, b}
      <4>1. /\ T \ {b} \in SUBSET T /\ T \ {b} # T
            /\ T \ {a} \in SUBSET T /\ T \ {a} # T
            /\ R \in SUBSET T /\ R # T
            /\ (T \ {b}) \ {a} = R /\ (T \ {a}) \ {b} = R
            /\ a \in T \ {b} /\ b \in T \ {a}
        BY <3>1, <3>3
      <4> HIDE DEF R
      <4>2. iter[T \ {b}] = f[a] + iter[R] /\ iter[T \ {a}] = f[b] + iter[R]
        BY <1>3, <4>1
      <4>3. iter[R] \in Int
        BY <1>3, <4>1
      <4>4. f[a] \in Int /\ f[b] \in Int
        BY <3>1
      <4> QED
        BY <3>1, <4>2, <4>3, <4>4
    <3>4. iter[T] \in Int
      BY <3>1, <3>2
    <3> QED
      BY <3>1, <3>3, <3>4
  <2> QED
    BY <2>1, <2>2
<1>4. Good = SUBSET S
  <2> Good \in SUBSET SUBSET S
    OBVIOUS
  <2> HIDE DEF Good
  <2> QED
    BY <1>3, SubsetInduction
<1>5. \A T \in SUBSET S : SumOver(f, T) = iter[T]
  BY <1>1, SumByAdds
<1>6. iter[S] \in Int /\ \A a \in S : iter[S] = f[a] + iter[S \ {a}]
  BY <1>4
<1>7. SumOver(f, S) = iter[S] /\ \A a \in S : SumOver(f, S \ {a}) = iter[S \ {a}]
  BY <1>5
<1> QED
  BY <1>6, <1>7

LEMMA SumInt ==
  ASSUME NEW S, IsFiniteSet(S), NEW f, \A x \in S : f[x] \in Int
  PROVE  SumOver(f, S) \in Int
BY SumStep

LEMMA SumRemove ==
  ASSUME NEW S, IsFiniteSet(S), NEW f, \A x \in S : f[x] \in Int, NEW a \in S
  PROVE  SumOver(f, S) = f[a] + SumOver(f, S \ {a})
BY SumStep

LEMMA SumAdd ==
  ASSUME NEW S, IsFiniteSet(S), NEW f, NEW a, a \notin S, \A x \in S \cup {a} : f[x] \in Int
  PROVE  SumOver(f, S \cup {a}) = f[a] + SumOver(f, S)
<1>1. IsFiniteSet(S \cup {a}) /\ (S \cup {a}) \ {a} = S
  BY FS_AddElement
<1> QED
  BY <1>1, SumRemove

-----------------------------------------------------------------------------
(* Sums of related functions *)

LEMMA SumSame ==
  ASSUME NEW S, NEW f, NEW g, \A x \in S : f[x] = g[x]
  PROVE  SumOver(f, S) = SumOver(g, S)
<1>1. [x \in S |-> f[x]] = [x \in S |-> g[x]]
  OBVIOUS
<1> QED
  BY <1>1 DEF SumOver

\* A sum of sums is the sum of the two.
LEMMA SumPlus ==
  ASSUME NEW S, IsFiniteSet(S), NEW f, NEW g, NEW h,
         \A x \in S : f[x] \in Int /\ g[x] \in Int /\ h[x] = f[x] + g[x]
  PROVE  SumOver(h, S) = SumOver(f, S) + SumOver(g, S)
<1> DEFINE Good == {T \in SUBSET S : SumOver(h, T) = SumOver(f, T) + SumOver(g, T)}
<1>1. {} \in Good
  BY SumEmpty
<1>2. ASSUME NEW T \in Good, NEW x \in S \ T PROVE T \cup {x} \in Good
  <2>1. IsFiniteSet(T)
    BY FS_Subset
  <2>4. \A y \in T \cup {x} : f[y] \in Int /\ g[y] \in Int /\ h[y] \in Int
    OBVIOUS
  <2>2. /\ SumOver(h, T \cup {x}) = h[x] + SumOver(h, T)
        /\ SumOver(f, T \cup {x}) = f[x] + SumOver(f, T)
        /\ SumOver(g, T \cup {x}) = g[x] + SumOver(g, T)
    BY <2>1, <2>4, SumAdd
  <2>3. SumOver(f, T) \in Int /\ SumOver(g, T) \in Int
    BY <2>1, SumInt
  <2> QED
    BY <2>2, <2>3
<1>3. Good \in SUBSET SUBSET S
  OBVIOUS
<1> HIDE DEF Good
<1>4. S \in Good
  BY <1>1, <1>2, <1>3, ElementInduction
<1> QED
  BY <1>4 DEF Good

LEMMA SumZero ==
  ASSUME NEW S, IsFiniteSet(S), NEW f, \A x \in S : f[x] = 0
  PROVE  SumOver(f, S) = 0
<1> DEFINE Good == {T \in SUBSET S : SumOver(f, T) = 0}
<1>1. {} \in Good
  BY SumEmpty
<1>2. ASSUME NEW T \in Good, NEW x \in S \ T PROVE T \cup {x} \in Good
  <2>1. IsFiniteSet(T)
    BY FS_Subset
  <2>2. \A y \in T \cup {x} : f[y] \in Int
    OBVIOUS
  <2>3. SumOver(f, T \cup {x}) = f[x] + SumOver(f, T)
    BY <2>1, <2>2, SumAdd
  <2> QED
    BY <2>3
<1>3. Good \in SUBSET SUBSET S
  OBVIOUS
<1> HIDE DEF Good
<1>4. S \in Good
  BY <1>1, <1>2, <1>3, ElementInduction
<1> QED
  BY <1>4 DEF Good

\* A sum of numbers none of which is positive is not positive either.
LEMMA SumNonPositive ==
  ASSUME NEW S, IsFiniteSet(S), NEW f, \A x \in S : f[x] \in Int /\ f[x] <= 0
  PROVE  SumOver(f, S) <= 0
<1> DEFINE Good == {T \in SUBSET S : SumOver(f, T) <= 0}
<1>1. {} \in Good
  BY SumEmpty
<1>2. ASSUME NEW T \in Good, NEW x \in S \ T PROVE T \cup {x} \in Good
  <2>1. IsFiniteSet(T)
    BY FS_Subset
  <2>2. SumOver(f, T \cup {x}) = f[x] + SumOver(f, T)
    BY <2>1, SumAdd
  <2>3. SumOver(f, T) \in Int /\ SumOver(f, T) <= 0
    BY <2>1, SumInt
  <2> QED
    BY <2>2, <2>3
<1>3. Good \in SUBSET SUBSET S
  OBVIOUS
<1> HIDE DEF Good
<1>4. S \in Good
  BY <1>1, <1>2, <1>3, ElementInduction
<1> QED
  BY <1>4 DEF Good

\* A sum changes by as much as the one value that changes.
LEMMA SumChangeOne ==
  ASSUME NEW S, IsFiniteSet(S), NEW a \in S, NEW d \in Int, NEW f, NEW g,
         \A x \in S : f[x] \in Int, g[a] = f[a] + d, \A x \in S \ {a} : g[x] = f[x]
  PROVE  SumOver(g, S) = SumOver(f, S) + d
<1>1. \A x \in S : g[x] \in Int
  OBVIOUS
<1>2. SumOver(g, S) = g[a] + SumOver(g, S \ {a})
  BY <1>1, SumRemove
<1>3. SumOver(f, S) = f[a] + SumOver(f, S \ {a})
  BY SumRemove
<1>4. SumOver(g, S \ {a}) = SumOver(f, S \ {a})
  BY SumSame
<1>5. SumOver(f, S \ {a}) \in Int
  <2>1. IsFiniteSet(S \ {a})
    BY FS_Subset
  <2> QED
    BY <2>1, SumInt
<1> QED
  BY <1>2, <1>3, <1>4, <1>5

\* A sum of ones counts.
LEMMA SumOnes ==
  ASSUME NEW S, IsFiniteSet(S), NEW f, \A x \in S : f[x] = 1
  PROVE  SumOver(f, S) = Cardinality(S)
<1> DEFINE Good == {T \in SUBSET S : SumOver(f, T) = Cardinality(T)}
<1>1. {} \in Good
  BY SumEmpty, FS_EmptySet
<1>2. ASSUME NEW T \in Good, NEW x \in S \ T PROVE T \cup {x} \in Good
  <2>1. IsFiniteSet(T)
    BY FS_Subset
  <2>2. Cardinality(T \cup {x}) = Cardinality(T) + 1 /\ Cardinality(T) \in Nat
    BY <2>1, FS_AddElement, FS_CardinalityType
  <2>3. \A y \in T \cup {x} : f[y] \in Int
    OBVIOUS
  <2>4. SumOver(f, T \cup {x}) = 1 + SumOver(f, T)
    BY <2>1, <2>3, SumAdd
  <2> QED
    BY <2>2, <2>4
<1>3. Good \in SUBSET SUBSET S
  OBVIOUS
<1> HIDE DEF Good
<1>4. S \in Good
  BY <1>1, <1>2, <1>3, ElementInduction
<1> QED
  BY <1>4 DEF Good

\* Two disjoint parts.
LEMMA SumSplit ==
  ASSUME NEW S, IsFiniteSet(S), NEW T, IsFiniteSet(T), S \cap T = {}, NEW f,
         \A x \in S \cup T : f[x] \in Int
  PROVE  SumOver(f, S \cup T) = SumOver(f, S) + SumOver(f, T)
<1> DEFINE Good == {R \in SUBSET T : SumOver(f, S \cup R) = SumOver(f, S) + SumOver(f, R)}
<1>1. {} \in Good
  <2>1. S \cup {} = S
    OBVIOUS
  <2>2. SumOver(f, S) \in Int
    BY SumInt
  <2> QED
    BY <2>1, <2>2, SumEmpty
<1>2. ASSUME NEW R \in Good, NEW x \in T \ R PROVE R \cup {x} \in Good
  <2>1. IsFiniteSet(R) /\ IsFiniteSet(S \cup R)
    BY FS_Subset, FS_Union
  <2>2. (S \cup R) \cup {x} = S \cup (R \cup {x}) /\ x \notin S \cup R /\ x \notin R
    OBVIOUS
  <2>3. SumOver(f, S \cup (R \cup {x})) = f[x] + SumOver(f, S \cup R)
    <3>1. SumOver(f, (S \cup R) \cup {x}) = f[x] + SumOver(f, S \cup R)
      BY <2>1, <2>2, SumAdd
    <3> QED
      BY <2>2, <3>1, Zenon
  <2>4. SumOver(f, R \cup {x}) = f[x] + SumOver(f, R)
    BY <2>1, <2>2, SumAdd
  <2>5. SumOver(f, S) \in Int /\ SumOver(f, R) \in Int /\ f[x] \in Int
    BY <2>1, SumInt
  <2>6. SumOver(f, S \cup R) = SumOver(f, S) + SumOver(f, R) /\ R \cup {x} \in SUBSET T
    OBVIOUS
  <2>7. SumOver(f, S \cup (R \cup {x})) = SumOver(f, S) + SumOver(f, R \cup {x})
    BY <2>2, <2>3, <2>4, <2>5, <2>6
  <2> QED
    BY <2>6, <2>7
<1>3. Good \in SUBSET SUBSET T
  OBVIOUS
<1> HIDE DEF Good
<1>4. T \in Good
  BY <1>1, <1>2, <1>3, ElementInduction
<1> QED
  BY <1>4 DEF Good

\* g holds at 1 to m what f holds k further.
Shifts(f, g, k, m) == \A i \in 1 .. m : f[k + i] \in Int /\ g[i] = f[k + i]

\* Shifting the indices of a sequence leaves its sum.
LEMMA SumShift ==
  ASSUME NEW m \in Nat, NEW k \in Nat, NEW f, NEW g, Shifts(f, g, k, m)
  PROVE  SumOver(f, (k + 1) .. (k + m)) = SumOver(g, 1 .. m)
<1> USE DEF Shifts
<1> DEFINE Up(T) == {k + i : i \in T}
           Good == {T \in SUBSET (1 .. m) : SumOver(f, Up(T)) = SumOver(g, T)}
<1>1. {} \in Good
  <2>1. Up({}) = {}
    OBVIOUS
  <2> QED
    BY <2>1, SumEmpty
<1>2. ASSUME NEW T \in Good, NEW x \in (1 .. m) \ T PROVE T \cup {x} \in Good
  <2>1. IsFiniteSet(T)
    <3>1. IsFiniteSet(1 .. m) /\ T \subseteq 1 .. m
      BY FS_Interval
    <3> QED
      BY <3>1, FS_Subset
  <2>2. IsFiniteSet(Up(T))
    <3>1. IsFiniteSet((k + 1) .. (k + m))
      BY FS_Interval
    <3>2. Up(T) \subseteq (k + 1) .. (k + m)
      OBVIOUS
    <3> QED
      BY <3>1, <3>2, FS_Subset
  <2>3. Up(T \cup {x}) = Up(T) \cup {k + x}
    OBVIOUS
  <2>4. k + x \notin Up(T)
    OBVIOUS
  <2>5. \A y \in Up(T) \cup {k + x} : f[y] \in Int
    OBVIOUS
  <2>6. SumOver(f, Up(T) \cup {k + x}) = f[k + x] + SumOver(f, Up(T))
    <3> HIDE DEF Up
    <3> QED
      BY <2>2, <2>4, <2>5, SumAdd
  <2>7. SumOver(g, T \cup {x}) = g[x] + SumOver(g, T)
    <3>1. \A y \in T \cup {x} : g[y] \in Int
      OBVIOUS
    <3> QED
      BY <2>1, <3>1, SumAdd
  <2>8. SumOver(f, Up(T)) = SumOver(g, T)
    OBVIOUS
  <2> HIDE DEF Up
  <2> QED
    BY <2>3, <2>6, <2>7, <2>8
<1>3. Good \in SUBSET SUBSET (1 .. m)
  OBVIOUS
<1>4. Up(1 .. m) = (k + 1) .. (k + m)
  <2>1. ASSUME NEW j \in (k + 1) .. (k + m) PROVE j \in Up(1 .. m)
    <3>1. j - k \in 1 .. m /\ j = k + (j - k)
      BY <2>1
    <3> QED
      BY <3>1
  <2>2. ASSUME NEW j \in Up(1 .. m) PROVE j \in (k + 1) .. (k + m)
    BY <2>2
  <2> QED
    BY <2>1, <2>2
<1>5. IsFiniteSet(1 .. m)
  BY FS_Interval
<1>6. 1 .. m \in Good
  <2> HIDE DEF Good
  <2> QED
    BY <1>1, <1>2, <1>3, <1>5, ElementInduction
<1> QED
  BY <1>4, <1>6

\* Counting up: a set with m and the successor of each of its members up to n holds all
\* of m .. n.
LEMMA Upwards ==
  ASSUME NEW m \in Nat, NEW n \in Nat, NEW Good, m \in Good,
         \A k \in m .. n : k \in Good /\ k < n => k + 1 \in Good
  PROVE  m .. n \subseteq Good
<1> DEFINE Bad == {k \in Nat : m + k <= n /\ m + k \notin Good}
<1>1. Bad = {}
  <2> SUFFICES ASSUME Bad # {} PROVE FALSE
    OBVIOUS
  <2>1. Bad \subseteq Nat
    OBVIOUS
  <2>2. PICK k \in Bad : \A j \in Bad : ~(<<j, k>> \in OpToRel(<, Nat))
    <3> HIDE DEF Bad
    <3> QED
      BY <2>1, NatLessThanWellFounded, WFMin
  <2>3. k # 0
    OBVIOUS
  <2>4. k - 1 \in Nat /\ k - 1 < k /\ (m + (k - 1)) + 1 = m + k
    BY <2>3
  <2>5. <<k - 1, k>> \in OpToRel(<, Nat)
    BY <2>4 DEF OpToRel
  <2>6. k - 1 \notin Bad
    BY <2>2, <2>5
  <2>7. m + (k - 1) \in Good /\ m + (k - 1) \in m .. n /\ m + (k - 1) < n
    BY <2>4, <2>6
  <2>8. m + k \in Good
    BY <2>4, <2>7
  <2> QED
    BY <2>8
<1> QED
  <2> SUFFICES ASSUME NEW i \in m .. n, i \notin Good PROVE FALSE
    OBVIOUS
  <2>1. i - m \in Bad
    OBVIOUS
  <2> QED
    BY <1>1, <2>1

-----------------------------------------------------------------------------
(* The inductive invariant *)

Before(q, p) == LeadsTo(q, p) /\ q # p

Minus(a, b) == [p \in Pointstamp |-> a[p] - b[p]]

\* What changes add is backed by something earlier that they take away, or that the
\* capabilities in B hold.
Backed(changes, B) ==
  \A p \in Pointstamp :
    changes[p] > 0 =>
      \E q \in Pointstamp :
        Before(q, p) /\ (changes[q] < 0 \/ (q[1] \in Source /\ B[q] > 0))

\* The capabilities of worker w, and those that operator n of w holds.
Caps(w) == [p \in Pointstamp |-> IF p[1] \in Source THEN caps[w][p] ELSE 0]

OwnCaps(w, n) ==
  [p \in Pointstamp |->
     IF p[1] \in Source /\ NodeOf(p[1]) = n THEN caps[w][p] ELSE 0]

\* What the batches after the first k add up to, and what an input handle of each
\* operator gathered.
SumAfter(batches, k) ==
  [p \in Pointstamp |->
     SumFunction([i \in (k + 1) .. Len(batches) |-> batches[i][p]])]

Total(changes) == [p \in Pointstamp |-> SumFunction([n \in InputNode |-> changes[n][p]])]

\* What worker v will still learn from w once it has taken k of the batches waiting.
After(w, v, k) == Plus(SumAfter(net[w][v], k), Unsent(w))

\* Each batch, when what its sender does after it is taken back from what it holds.
NetBacked ==
  \A w, v \in Worker : \A k \in 1 .. Len(net[w][v]) :
    Backed(net[w][v][k], Minus(Caps(w), After(w, v, k)))

LocalBacked == \A w \in Worker : Backed(local[w], Minus(Caps(w), Unreported(w)))

PendingBacked ==
  \A w \in Worker, n \in InputNode : Backed(pending[w][n], OwnCaps(w, n))

\* An input operator's changes at output ports are at its own.
PendingOwned ==
  \A w \in Worker, n \in InputNode, p \in Source \X Time :
    pending[w][n][p] # 0 => NodeOf(p[1]) = n

IInv ==
  /\ TypeOK
  /\ CountsConserved
  /\ PendingOwned
  /\ PendingBacked
  /\ LocalBacked
  /\ NetBacked

-----------------------------------------------------------------------------
(* What leads to what *)

LEMMA Pointstamps ==
  /\ Pointstamp = Port \X Time
  /\ \A p \in Pointstamp :
       /\ p = <<p[1], p[2]>> /\ p[1] \in Port /\ p[2] \in Time
       /\ p[1] \in Source \/ p[1] \in Target
  /\ Source \X Time \subseteq Pointstamp /\ Target \X Time \subseteq Pointstamp
BY DEF Pointstamp, Port

LEMMA LeadsToMeans ==
  /\ \A p, q : LeadsTo(p, q) => p \in Pointstamp /\ q \in Pointstamp
  /\ \A p, q \in Pointstamp :
       LeadsTo(p, q) <=> \E e \in ReachedFrom(p) : e[1] = q[1] /\ Leq(e[2], q[2])
<1> DEFINE R(p) == {q \in Pointstamp :
                      \E e \in ReachedFrom(p) : e[1] = q[1] /\ Leq(e[2], q[2])}
<1>1. \A c : c \in CouldResultIn <=> \E p \in Pointstamp : c = <<p, R(p)>>
  BY DEF CouldResultIn
<1>2. \A p : R(p) \subseteq Pointstamp
  OBVIOUS
<1> HIDE DEF R
<1>3. ASSUME NEW p, NEW q, LeadsTo(p, q) PROVE p \in Pointstamp /\ q \in R(p)
  <2>1. PICK c \in CouldResultIn : c[1] = p /\ q \in c[2]
    BY <1>3 DEF LeadsTo
  <2>2. PICK r \in Pointstamp : c = <<r, R(r)>>
    BY <1>1, <2>1
  <2>3. c[1] = r /\ c[2] = R(r)
    BY <2>2
  <2> QED
    BY <2>1, <2>3
<1>4. ASSUME NEW p \in Pointstamp, NEW q \in R(p) PROVE LeadsTo(p, q)
  <2> DEFINE c == <<p, R(p)>>
  <2>1. c \in CouldResultIn /\ c[1] = p /\ c[2] = R(p)
    BY <1>1
  <2> QED
    BY <2>1 DEF LeadsTo
<1> QED
  BY <1>2, <1>3, <1>4 DEF R

LEMMA ReachedSelf == \A p \in Pointstamp : p \in ReachedFrom(p)
BY DEF ReachedFrom

LEMMA ReachedStep ==
  ASSUME NEW p \in Pointstamp, NEW e \in ReachedFrom(p)
  PROVE  e \in Pointstamp /\ Step(e) \subseteq ReachedFrom(p)
<1>1. e \in Pointstamp /\ Step(e) \subseteq Pointstamp
  BY DEF ReachedFrom, Step
<1>2. ASSUME NEW q \in Step(e), NEW S \in SUBSET Pointstamp,
             p \in S, \A r \in S : Step(r) \subseteq S
      PROVE  q \in S
  BY <1>2 DEF ReachedFrom
<1> QED
  BY <1>1, <1>2 DEF ReachedFrom

LEMMA LeadsToSelf == \A p \in Pointstamp : LeadsTo(p, p)
BY ReachedSelf, LeadsToMeans, Pointstamps, OrderAssumption

LEMMA LeadsToStep ==
  ASSUME NEW p \in Pointstamp, NEW q \in Step(p)
  PROVE  LeadsTo(p, q)
<1>1. q \in Pointstamp /\ q \in ReachedFrom(p)
  BY ReachedSelf, ReachedStep DEF Step
<1> QED
  BY <1>1, LeadsToMeans, Pointstamps, OrderAssumption

LEMMA LeadsToLater ==
  ASSUME NEW p \in Pointstamp, NEW q \in Pointstamp, p[1] = q[1], Leq(p[2], q[2])
  PROVE  LeadsTo(p, q)
BY ReachedSelf, LeadsToMeans

\* A step from something p leads to is to something p leads to: the step from what is
\* really reached is to a time as early (OrderAssumption).
LEMMA LeadsToClosed ==
  ASSUME NEW p \in Pointstamp, NEW x, LeadsTo(p, x), NEW y \in Step(x)
  PROVE  LeadsTo(p, y)
<1>1. x \in Pointstamp /\ y \in Pointstamp
  BY LeadsToMeans DEF Step
<1>2. PICK e \in ReachedFrom(p) : e[1] = x[1] /\ Leq(e[2], x[2])
  BY <1>1, LeadsToMeans
<1>3. e \in Pointstamp /\ Step(e) \subseteq ReachedFrom(p)
  BY <1>2, ReachedStep
<1>4. SUFFICES \E f \in Step(e) : f[1] = y[1] /\ Leq(f[2], y[2])
  BY <1>1, <1>3, LeadsToMeans
<1>5. CASE <<x[1], y[1]>> \in Edge /\ y[2] = x[2]
  <2> DEFINE f == <<y[1], e[2]>>
  <2>1. f \in Pointstamp
    BY <1>1, <1>3, Pointstamps
  <2>2. f \in Step(e)
    BY <1>2, <1>5, <2>1 DEF Step
  <2> QED
    BY <1>2, <1>5, <2>2
<1>6. CASE x[1] \in Target /\ y[1] \in Source /\ y[2] \in Internal(x[1], y[1], x[2])
  <2>1. e[2] \in Time /\ x[2] \in Time
    BY <1>1, <1>3, Pointstamps
  <2>2. PICK s \in Internal(x[1], y[1], e[2]) : Leq(s, y[2])
    BY <1>2, <1>6, <2>1, OrderAssumption
  <2>3. s \in Time
    BY <1>6, <2>1, <2>2, GraphAssumption
  <2> DEFINE f == <<y[1], s>>
  <2>4. f \in Pointstamp
    BY <1>1, <2>3, Pointstamps
  <2>5. f \in Step(e)
    BY <1>2, <1>6, <2>2, <2>4 DEF Step
  <2> QED
    BY <2>2, <2>5
<1> QED
  BY <1>5, <1>6 DEF Step

LEMMA LeadsToTransitive ==
  ASSUME NEW p, NEW q, NEW r, LeadsTo(p, q), LeadsTo(q, r)
  PROVE  LeadsTo(p, r)
<1>1. p \in Pointstamp /\ q \in Pointstamp /\ r \in Pointstamp
  BY LeadsToMeans
<1> DEFINE S == {x \in Pointstamp : LeadsTo(p, x)}
<1>2. q \in S
  BY <1>1
<1>3. \A x \in S : Step(x) \subseteq S
  BY <1>1, LeadsToClosed DEF Step
<1>4. PICK e \in ReachedFrom(q) : e[1] = r[1] /\ Leq(e[2], r[2])
  BY <1>1, LeadsToMeans
<1>5. e \in S
  <2> S \in SUBSET Pointstamp
    OBVIOUS
  <2> HIDE DEF S
  <2> QED
    BY <1>2, <1>3, <1>4 DEF ReachedFrom
<1>6. e \in Pointstamp
  BY <1>5
<1>7. PICK d \in ReachedFrom(p) : d[1] = e[1] /\ Leq(d[2], e[2])
  BY <1>1, <1>5, LeadsToMeans
<1>8. d \in Pointstamp
  BY <1>1, <1>7, ReachedStep
<1>9. Leq(d[2], r[2])
  BY <1>1, <1>4, <1>6, <1>7, <1>8, Pointstamps, OrderAssumption
<1> QED
  BY <1>1, <1>4, <1>7, <1>9, LeadsToMeans

LEMMA BeforeTransitive ==
  ASSUME NEW p, NEW q, NEW r, Before(p, q), Before(q, r)
  PROVE  Before(p, r)
<1>1. LeadsTo(p, r)
  BY LeadsToTransitive DEF Before
<1>2. p # r
  <2> SUFFICES ASSUME p = r PROVE FALSE
    OBVIOUS
  <2>1. {p, q} \in SUBSET Pointstamp
    BY LeadsToMeans DEF Before
  <2>2. PICK first \in {p, q} : \A x \in {p, q} : LeadsTo(x, first) => x = first
    BY <2>1, AcyclicAssumption, Zenon
  <2> QED
    BY <2>2 DEF Before
<1> QED
  BY <1>1, <1>2 DEF Before

LEMMA Earliest ==
  ASSUME NEW S \in SUBSET Pointstamp, S # {}
  PROVE  \E m \in S : \A q \in S : ~Before(q, m)
BY AcyclicAssumption DEF Before

-----------------------------------------------------------------------------
(* Backed changes *)

LEMMA BackedMore ==
  ASSUME NEW D, NEW B, NEW C, Backed(D, B),
         \A q \in Pointstamp : q[1] \in Source /\ B[q] > 0 => C[q] > 0
  PROVE  Backed(D, C)
BY DEF Backed

\* One operation of an operator: what it adds is after c, which it takes away or holds.
LEMMA BackedOperation ==
  ASSUME NEW D \in Batch, NEW B \in Batch, Backed(D, B),
         NEW E \in Batch, NEW C \in Batch, NEW c \in Pointstamp,
         \A p \in Pointstamp :
           /\ Before(c, p) => E[p] >= D[p] /\ (p[1] \in Source => C[p] >= B[p])
           /\ ~Before(c, p) /\ p # c => E[p] = D[p] /\ (p[1] \in Source => C[p] = B[p]),
         \/ E[c] = D[c] - 1
         \/ E[c] = D[c] /\ c[1] \in Source /\ B[c] > 0 /\ C[c] = B[c]
  PROVE  Backed(E, C)
<1> SUFFICES ASSUME NEW p \in Pointstamp, E[p] > 0
             PROVE  \E q \in Pointstamp :
                      Before(q, p) /\ (E[q] < 0 \/ (q[1] \in Source /\ C[q] > 0))
  BY DEF Backed
<1> DEFINE S == {q \in Pointstamp :
                   /\ Before(q, p)
                   /\ D[q] < 0 \/ (q[1] \in Source /\ B[q] > 0) \/ q = c}
<1> USE DEF Batch
<1>1. S # {}
  <2>1. CASE Before(c, p)
    BY <2>1
  <2>2. CASE ~Before(c, p)
    <3>1. D[p] > 0
      BY <2>2
    <3> QED
      BY <3>1 DEF Backed
  <2> QED
    BY <2>1, <2>2
<1>2. PICK m \in S : \A q \in S : ~Before(q, m)
  BY <1>1, Earliest
<1>3. \A q \in Pointstamp :
        Before(q, m) => ~(D[q] < 0 \/ (q[1] \in Source /\ B[q] > 0) \/ q = c)
  BY <1>2, BeforeTransitive
<1>4. ~(D[m] > 0)
  BY <1>2, <1>3 DEF Backed
<1>5. CASE m = c
  BY <1>2, <1>4, <1>5
<1>6. CASE m # c
  <2>1. ~Before(c, m)
    BY <1>2, <1>3
  <2>2. E[m] = D[m] /\ (m[1] \in Source => C[m] = B[m])
    BY <1>2, <1>6, <2>1
  <2> QED
    BY <1>2, <1>6, <2>2
<1> QED
  BY <1>5, <1>6

\* One change after another.
LEMMA BackedBoth ==
  ASSUME NEW D \in Batch, NEW E \in Batch, NEW B \in Batch, NEW C \in Batch,
         Backed(D, B), Backed(E, C),
         NEW F \in Batch, \A p \in Pointstamp : F[p] = D[p] + E[p],
         NEW H \in Batch,
         \A q \in Pointstamp :
           q[1] \in Source /\ D[q] = 0 /\ E[q] = 0 /\ (B[q] > 0 \/ C[q] > 0) => H[q] > 0
  PROVE  Backed(F, H)
<1> SUFFICES ASSUME NEW p \in Pointstamp, F[p] > 0
             PROVE  \E q \in Pointstamp :
                      Before(q, p) /\ (F[q] < 0 \/ (q[1] \in Source /\ H[q] > 0))
  BY DEF Backed
<1> DEFINE Backs(q) == \/ D[q] < 0 \/ E[q] < 0
                       \/ q[1] \in Source /\ (B[q] > 0 \/ C[q] > 0)
           S == {q \in Pointstamp : Before(q, p) /\ Backs(q)}
<1> USE DEF Batch
<1>1. D[p] > 0 \/ E[p] > 0
  OBVIOUS
<1>2. S # {}
  BY <1>1 DEF Backed
<1>3. PICK m \in S : \A q \in S : ~Before(q, m)
  BY <1>2, Earliest
<1>4. \A q \in Pointstamp : Before(q, m) => ~Backs(q)
  BY <1>3, BeforeTransitive
<1>5. ~(D[m] > 0) /\ ~(E[m] > 0)
  BY <1>3, <1>4 DEF Backed
<1>6. F[m] < 0 \/ (m[1] \in Source /\ H[m] > 0)
  <2>1. /\ m \in Pointstamp /\ Backs(m)
        /\ D[m] \in Int /\ E[m] \in Int /\ F[m] = D[m] + E[m]
    BY <1>3
  <2>2. CASE D[m] < 0 \/ E[m] < 0
    BY <1>5, <2>1, <2>2
  <2>3. CASE D[m] = 0 /\ E[m] = 0
    BY <2>1, <2>3
  <2> QED
    BY <1>5, <2>1, <2>2, <2>3
<1> QED
  BY <1>3, <1>6

LEMMA BackedTwo ==
  ASSUME NEW D \in Batch, NEW E \in Batch, NEW B \in Batch, Backed(D, B), Backed(E, B),
         NEW F \in Batch, \A p \in Pointstamp : F[p] = D[p] + E[p]
  PROVE  Backed(F, B)
<1>1. \A q \in Pointstamp :
        q[1] \in Source /\ D[q] = 0 /\ E[q] = 0 /\ (B[q] > 0 \/ B[q] > 0) => B[q] > 0
  OBVIOUS
<1> QED
  BY <1>1, BackedBoth

\* Many changes, of which none relies on another.
LEMMA BackedSum ==
  ASSUME NEW S, IsFiniteSet(S), NEW f, NEW B \in Batch,
         \A n \in S : f[n] \in Batch /\ Backed(f[n], B)
  PROVE  Backed([p \in Pointstamp |-> SumFunction([n \in S |-> f[n][p]])], B)
<1> DEFINE at(p) == [n \in S |-> f[n][p]]
           Over(T) == [p \in Pointstamp |-> SumOver(at(p), T)]
           Good == {T \in SUBSET S : Backed(Over(T), B)}
<1>1. \A p \in Pointstamp, n \in S : at(p)[n] \in Int
  BY DEF Batch
<1>2. ASSUME NEW T \in SUBSET S PROVE Over(T) \in Batch
  <2>1. IsFiniteSet(T)
    BY FS_Subset
  <2>2. ASSUME NEW p \in Pointstamp PROVE SumOver(at(p), T) \in Int
    <3>1. \A n \in T : at(p)[n] \in Int
      BY <1>1
    <3> HIDE DEF at
    <3> QED
      BY <2>1, <3>1, SumInt
  <2> HIDE DEF at
  <2> QED
    BY <2>2 DEF Batch
<1>3. {} \in Good
  <2>1. \A p \in Pointstamp : Over({})[p] = 0
    <3> HIDE DEF at
    <3> QED
      BY SumEmpty
  <2> HIDE DEF Over
  <2> QED
    BY <2>1 DEF Backed
<1>4. ASSUME NEW T \in Good, NEW n \in S \ T PROVE T \cup {n} \in Good
  <2>1. IsFiniteSet(T) /\ T \in SUBSET S /\ T \cup {n} \in SUBSET S
    BY FS_Subset
  <2>2. ASSUME NEW p \in Pointstamp PROVE Over(T \cup {n})[p] = Over(T)[p] + f[n][p]
    <3>1. \A m \in T \cup {n} : at(p)[m] \in Int
      BY <1>1, <2>1
    <3>2. at(p)[n] = f[n][p]
      OBVIOUS
    <3>3. SumOver(at(p), T) \in Int /\ f[n][p] \in Int
      BY <1>1, <1>2, <2>1 DEF Batch
    <3>4. SumOver(at(p), T \cup {n}) = at(p)[n] + SumOver(at(p), T)
      <4> HIDE DEF at
      <4> QED
        BY <2>1, <3>1, SumAdd
    <3> HIDE DEF at
    <3> QED
      BY <3>2, <3>3, <3>4
  <2>3. Over(T) \in Batch /\ Over(T \cup {n}) \in Batch /\ f[n] \in Batch
    BY <1>2, <2>1
  <2>4. Backed(Over(T), B) /\ Backed(f[n], B)
    OBVIOUS
  <2>5. Backed(Over(T \cup {n}), B)
    <3> DEFINE D == Over(T)
               F == Over(T \cup {n})
    <3>1. /\ D \in Batch /\ F \in Batch /\ Backed(D, B)
          /\ \A p \in Pointstamp : F[p] = D[p] + f[n][p]
      BY <2>2, <2>3, <2>4
    <3> HIDE DEF D, F
    <3>2. Backed(F, B)
      BY <2>3, <2>4, <3>1, BackedTwo
    <3> QED
      BY <3>2 DEF F
  <2> QED
    BY <2>1, <2>5
<1>5. S \in Good
  <2> Good \in SUBSET SUBSET S
    OBVIOUS
  <2> HIDE DEF Good
  <2> QED
    BY <1>3, <1>4, ElementInduction
<1>6. Over(S) = [p \in Pointstamp |-> SumFunction([n \in S |-> f[n][p]])]
  <2>1. \A p \in Pointstamp : SumOver(at(p), S) = SumFunction([n \in S |-> f[n][p]])
    BY DEF SumOver
  <2> HIDE DEF at
  <2> QED
    BY <2>1
<1> QED
  BY <1>5, <1>6

-----------------------------------------------------------------------------
(* Sums of batches *)

LEMMA PlusType ==
  /\ Zero \in Batch
  /\ \A a, b \in Batch : Plus(a, b) \in Batch /\ Minus(a, b) \in Batch
BY DEF Batch, Zero, Plus, Minus

LEMMA Finite == IsFiniteSet(Worker) /\ IsFiniteSet(InputNode)
BY GraphAssumption

LEMMA SumAfterType ==
  ASSUME NEW s \in Seq(Batch), NEW k \in Nat
  PROVE  SumAfter(s, k) \in Batch
<1> SUFFICES ASSUME NEW p \in Pointstamp
             PROVE  SumFunction([i \in (k + 1) .. Len(s) |-> s[i][p]]) \in Int
  BY DEF SumAfter, Batch
<1> DEFINE f == [i \in (k + 1) .. Len(s) |-> s[i][p]]
<1>1. IsFiniteSet((k + 1) .. Len(s))
  BY FS_Interval
<1>2. \A i \in (k + 1) .. Len(s) : f[i] \in Int
  BY DEF Batch
<1>3. SumOver(f, (k + 1) .. Len(s)) = SumFunction(f)
  BY DEF SumOver
<1> HIDE DEF f
<1>4. SumFunction(f) \in Int
  BY <1>1, <1>2, <1>3, SumInt
<1> QED
  BY <1>4 DEF f

\* The batches between two places in a sequence are those up to the one and the others.
LEMMA SumAfterSplit ==
  ASSUME NEW s \in Seq(Batch), NEW k \in Nat, NEW m \in Nat, k <= m, m <= Len(s),
         NEW p \in Pointstamp
  PROVE  SumAfter(s, k)[p]
           = SumFunction([i \in (k + 1) .. m |-> s[i][p]]) + SumAfter(s, m)[p]
<1> DEFINE f == [i \in 1 .. Len(s) |-> s[i][p]]
           A == (k + 1) .. m
           Z == (m + 1) .. Len(s)
<1>1. IsFiniteSet(A) /\ IsFiniteSet(Z)
  BY FS_Interval
<1>2. A \cap Z = {} /\ A \cup Z = (k + 1) .. Len(s)
  OBVIOUS
<1>3. \A i \in A \cup Z : f[i] \in Int
  BY DEF Batch
<1>4. /\ [i \in A |-> f[i]] = [i \in (k + 1) .. m |-> s[i][p]]
      /\ [i \in Z |-> f[i]] = [i \in (m + 1) .. Len(s) |-> s[i][p]]
      /\ [i \in (k + 1) .. Len(s) |-> f[i]] = [i \in (k + 1) .. Len(s) |-> s[i][p]]
  OBVIOUS
<1>5. /\ SumAfter(s, k)[p] = SumOver(f, (k + 1) .. Len(s))
      /\ SumAfter(s, m)[p] = SumOver(f, Z)
      /\ SumFunction([i \in (k + 1) .. m |-> s[i][p]]) = SumOver(f, A)
  BY <1>4 DEF SumAfter, SumOver
<1> HIDE DEF f, A, Z
<1>6. SumOver(f, A \cup Z) = SumOver(f, A) + SumOver(f, Z)
  BY <1>1, <1>2, <1>3, SumSplit
<1> QED
  BY <1>2, <1>5, <1>6

LEMMA SumAfterStep ==
  ASSUME NEW s \in Seq(Batch), NEW k \in 1 .. Len(s)
  PROVE  SumAfter(s, k - 1) = Plus(s[k], SumAfter(s, k))
<1> SUFFICES ASSUME NEW p \in Pointstamp
             PROVE  SumAfter(s, k - 1)[p] = s[k][p] + SumAfter(s, k)[p]
  BY DEF SumAfter, Plus
<1> DEFINE f == [i \in k .. k |-> s[i][p]]
<1>1. SumAfter(s, k - 1)[p] = SumFunction(f) + SumAfter(s, k)[p]
  <2> DEFINE j == k - 1
  <2>1. j \in Nat /\ k \in Nat /\ j <= k /\ k <= Len(s) /\ j + 1 = k
    OBVIOUS
  <2> HIDE DEF j
  <2>2. SumAfter(s, j)[p]
          = SumFunction([i \in (j + 1) .. k |-> s[i][p]]) + SumAfter(s, k)[p]
    BY <2>1, SumAfterSplit
  <2>3. SumAfter(s, j)[p] = SumFunction(f) + SumAfter(s, k)[p]
    BY <2>1, <2>2
  <2> QED
    BY <2>3 DEF j
<1>2. SumFunction(f) = s[k][p]
  <2>1. SumFunction(f) = SumOver(f, {k})
    <3>1. k .. k = {k}
      OBVIOUS
    <3> QED
      BY <3>1 DEF SumOver
  <2>2. f[k] = s[k][p] /\ s[k][p] \in Int
    BY DEF Batch
  <2> HIDE DEF f
  <2>3. SumOver(f, {} \cup {k}) = f[k] + SumOver(f, {})
    <3>1. IsFiniteSet({}) /\ k \notin {} /\ \A x \in {} \cup {k} : f[x] \in Int
      BY <2>2, FS_EmptySet
    <3> QED
      BY <3>1, SumAdd
  <2>4. {} \cup {k} = {k}
    OBVIOUS
  <2> QED
    BY <2>1, <2>2, <2>3, <2>4, SumEmpty
<1> QED
  BY <1>1, <1>2

LEMMA SumAfterEnds ==
  ASSUME NEW s \in Seq(Batch)
  PROVE  SumAfter(s, 0) = Sum(s) /\ SumAfter(s, Len(s)) = Zero
<1>1. SumAfter(s, 0) = Sum(s)
  BY DEF SumAfter, Sum
<1>2. ASSUME NEW p \in Pointstamp PROVE SumAfter(s, Len(s))[p] = 0
  <2> DEFINE f == [i \in (Len(s) + 1) .. Len(s) |-> s[i][p]]
  <2>1. (Len(s) + 1) .. Len(s) = {}
    OBVIOUS
  <2>2. SumFunction(f) = SumOver(f, {})
    BY <2>1 DEF SumOver
  <2> QED
    BY <2>2, SumEmpty DEF SumAfter
<1>3. SumAfter(s, Len(s)) = [p \in Pointstamp |-> SumAfter(s, Len(s))[p]]
  BY DEF SumAfter
<1> QED
  BY <1>1, <1>2, <1>3 DEF Zero

LEMMA SumAfterAppend ==
  ASSUME NEW s \in Seq(Batch), NEW b \in Batch, NEW k \in 0 .. Len(s)
  PROVE  SumAfter(Append(s, b), k) = Plus(SumAfter(s, k), b)
<1> DEFINE t == Append(s, b)
<1>1. t \in Seq(Batch) /\ Len(t) = Len(s) + 1 /\ t[Len(t)] = b
  OBVIOUS
<1>2. SumAfter(t, Len(s)) = b
  <2>1. SumAfter(t, Len(t) - 1) = Plus(t[Len(t)], SumAfter(t, Len(t)))
    <3>1. Len(t) \in 1 .. Len(t)
      BY <1>1
    <3> HIDE DEF t
    <3> QED
      BY <1>1, <3>1, SumAfterStep
  <2>2. SumAfter(t, Len(t)) = Zero
    BY <1>1, SumAfterEnds
  <2>3. Plus(b, Zero) = b
    BY DEF Plus, Zero, Batch
  <2> QED
    BY <1>1, <2>1, <2>2, <2>3
<1> SUFFICES ASSUME NEW p \in Pointstamp PROVE SumAfter(t, k)[p] = SumAfter(s, k)[p] + b[p]
  BY DEF SumAfter, Plus
<1>3. SumAfter(t, k)[p]
        = SumFunction([i \in (k + 1) .. Len(s) |-> t[i][p]]) + SumAfter(t, Len(s))[p]
  <2>1. k \in Nat /\ Len(s) \in Nat /\ k <= Len(s) /\ Len(s) <= Len(t)
    BY <1>1
  <2> HIDE DEF t
  <2> QED
    BY <1>1, <2>1, SumAfterSplit
<1>4. [i \in (k + 1) .. Len(s) |-> t[i][p]] = [i \in (k + 1) .. Len(s) |-> s[i][p]]
  OBVIOUS
<1> QED
  BY <1>2, <1>3, <1>4 DEF SumAfter

\* Taking k batches from the front.
LEMMA SumAfterTake ==
  ASSUME NEW s \in Seq(Batch), NEW k \in 0 .. Len(s)
  PROVE  /\ \A j \in 0 .. Len(s) - k :
              SumAfter(SubSeq(s, k + 1, Len(s)), j) = SumAfter(s, k + j)
         /\ Sum(s) = Plus(Sum(SubSeq(s, 1, k)), SumAfter(s, k))
<1> DEFINE t == SubSeq(s, k + 1, Len(s))
           h == SubSeq(s, 1, k)
<1>1. /\ t \in Seq(Batch) /\ Len(t) = Len(s) - k
      /\ \A i \in 1 .. Len(t) : t[i] = s[k + i]
  OBVIOUS
<1>2. /\ h \in Seq(Batch) /\ Len(h) = k
      /\ \A i \in 1 .. k : h[i] = s[i]
  OBVIOUS
<1>3. ASSUME NEW j \in 0 .. Len(s) - k, NEW p \in Pointstamp
      PROVE  SumAfter(t, j)[p] = SumAfter(s, k + j)[p]
  <2> DEFINE m == Len(s) - (k + j)
             f == [i \in 1 .. Len(s) |-> s[i][p]]
             g == [i \in 1 .. m |-> s[(k + j) + i][p]]
             e == [i \in 1 .. Len(t) |-> t[i][p]]
  <2>1. m \in Nat /\ k + j \in Nat /\ j \in Nat /\ (k + j) + m = Len(s) /\ j + m = Len(t)
    BY <1>1
  <2>2. ASSUME NEW i \in 1 .. m
        PROVE  /\ f[(k + j) + i] \in Int /\ g[i] = f[(k + j) + i]
               /\ e[j + i] \in Int /\ g[i] = e[j + i]
    <3> HIDE DEF t
    <3> DEFINE a == (k + j) + i
               b == j + i
    <3>1. a \in 1 .. Len(s) /\ b \in 1 .. Len(t) /\ k + b = a
      BY <2>1
    <3>2. f[a] = s[a][p] /\ g[i] = s[a][p] /\ e[b] = t[b][p]
      <4> HIDE DEF b, t
      <4> QED
        BY <3>1
    <3> HIDE DEF a, b, f, g, e
    <3>3. s[a] \in Batch /\ t[b] = s[a]
      BY <1>1, <3>1
    <3>4. s[a][p] \in Int
      BY <3>3 DEF Batch
    <3>5. f[a] \in Int /\ g[i] = f[a] /\ e[b] \in Int /\ g[i] = e[b]
      BY <3>2, <3>3, <3>4
    <3> QED
      BY <3>5 DEF a, b
  <2>3. /\ SumAfter(s, k + j)[p] = SumOver(f, ((k + j) + 1) .. Len(s))
        /\ SumAfter(t, j)[p] = SumOver(e, (j + 1) .. Len(t))
    <3>1. [i \in ((k + j) + 1) .. Len(s) |-> f[i]]
             = [i \in ((k + j) + 1) .. Len(s) |-> s[i][p]]
      <4> DEFINE d == k + j
      <4>1. \A i \in (d + 1) .. Len(s) : f[i] = s[i][p]
        <5>1. d \in Nat
          BY <2>1
        <5> HIDE DEF d, e, g
        <5> QED
          BY <5>1
      <4> HIDE DEF f
      <4> QED
        BY <4>1
    <3>2. [i \in (j + 1) .. Len(t) |-> e[i]] = [i \in (j + 1) .. Len(t) |-> t[i][p]]
      <4>1. \A i \in (j + 1) .. Len(t) : e[i] = t[i][p]
        <5> HIDE DEF t, f, g
        <5> QED
          BY <2>1
      <4> HIDE DEF e
      <4> QED
        BY <4>1
    <3> HIDE DEF f, e, t
    <3> QED
      BY <3>1, <3>2 DEF SumAfter, SumOver
  <2> HIDE DEF m, f, g, e
  <2>4. SumOver(f, ((k + j) + 1) .. ((k + j) + m)) = SumOver(g, 1 .. m)
    <3> DEFINE d == k + j
    <3>1. m \in Nat /\ d \in Nat
      BY <2>1
    <3>2. Shifts(f, g, d, m)
      BY <2>2 DEF Shifts
    <3> HIDE DEF d
    <3>3. SumOver(f, (d + 1) .. (d + m)) = SumOver(g, 1 .. m)
      BY <3>1, <3>2, SumShift
    <3> QED
      BY <3>3 DEF d
  <2>5. SumOver(e, (j + 1) .. (j + m)) = SumOver(g, 1 .. m)
    <3>1. m \in Nat /\ j \in Nat
      BY <2>1
    <3>2. Shifts(e, g, j, m)
      BY <2>2 DEF Shifts
    <3> QED
      BY <3>1, <3>2, SumShift
  <2> QED
    BY <2>1, <2>3, <2>4, <2>5
<1>4. ASSUME NEW p \in Pointstamp PROVE Sum(s)[p] = Sum(h)[p] + SumAfter(s, k)[p]
  <2>1. Sum(s)[p] = SumFunction([i \in 1 .. k |-> s[i][p]]) + SumAfter(s, k)[p]
    <3>1. SumAfter(s, 0)[p]
            = SumFunction([i \in (0 + 1) .. k |-> s[i][p]]) + SumAfter(s, k)[p]
      BY SumAfterSplit
    <3> QED
      BY <3>1, SumAfterEnds
  <2>2. [i \in 1 .. k |-> s[i][p]] = [i \in 1 .. Len(h) |-> h[i][p]]
    BY <1>2
  <2> QED
    BY <2>1, <2>2 DEF Sum
<1> QED
  BY <1>3, <1>4 DEF SumAfter, Sum, Plus

LEMMA TotalType ==
  ASSUME NEW q \in [InputNode -> Batch]
  PROVE  Total(q) \in Batch
<1> SUFFICES ASSUME NEW p \in Pointstamp
             PROVE  SumFunction([n \in InputNode |-> q[n][p]]) \in Int
  BY DEF Total, Batch
<1> DEFINE f == [n \in InputNode |-> q[n][p]]
<1>1. \A n \in InputNode : f[n] \in Int
  BY DEF Batch
<1>2. SumOver(f, InputNode) = SumFunction(f)
  BY DEF SumOver
<1> HIDE DEF f
<1>3. SumFunction(f) \in Int
  BY <1>1, <1>2, SumInt, Finite
<1> QED
  BY <1>3 DEF f

LEMMA TotalChange ==
  ASSUME NEW q \in [InputNode -> Batch], NEW n \in InputNode, NEW d \in Batch
  PROVE  Total([q EXCEPT ![n] = Plus(@, d)]) = Plus(Total(q), d)
<1> DEFINE r == [q EXCEPT ![n] = Plus(@, d)]
<1> SUFFICES ASSUME NEW p \in Pointstamp
             PROVE  SumFunction([i \in InputNode |-> r[i][p]])
                      = SumFunction([i \in InputNode |-> q[i][p]]) + d[p]
  BY DEF Total, Plus
<1> DEFINE f == [i \in InputNode |-> q[i][p]]
           g == [i \in InputNode |-> r[i][p]]
<1>1. \A i \in InputNode : f[i] \in Int
  BY DEF Batch
<1>2. g[n] = f[n] + d[p] /\ d[p] \in Int
  BY DEF Batch, Plus
<1>3. \A i \in InputNode \ {n} : g[i] = f[i]
  OBVIOUS
<1>4. SumOver(f, InputNode) = SumFunction(f) /\ SumOver(g, InputNode) = SumFunction(g)
  BY DEF SumOver
<1> HIDE DEF f, g, r
<1>5. SumOver(g, InputNode) = SumOver(f, InputNode) + d[p]
  BY <1>1, <1>2, <1>3, SumChangeOne, Finite
<1> QED
  BY <1>4, <1>5 DEF f, g

-----------------------------------------------------------------------------
(* Types *)

LEMMA AccountType ==
  ASSUME TypeOK, NEW w \in Worker, NEW n \in Node, NEW d \in Batch, Account(w, n, d)
  PROVE  pending' \in [Worker -> [InputNode -> Batch]] /\ local' \in [Worker -> Batch]
<1>1. CASE n \in InputNode
  <2>1. pending' = [pending EXCEPT ![w][n] = Plus(@, d)] /\ local' = local
    BY <1>1 DEF Account
  <2>2. Plus(pending[w][n], d) \in Batch
    BY <1>1, PlusType DEF TypeOK
  <2> QED
    BY <1>1, <2>1, <2>2 DEF TypeOK
<1>2. CASE n \notin InputNode
  <2>1. local' = [local EXCEPT ![w] = Plus(@, d)] /\ pending' = pending
    BY <1>2 DEF Account
  <2>2. Plus(local[w], d) \in Batch
    BY PlusType DEF TypeOK
  <2> QED
    BY <2>1, <2>2 DEF TypeOK
<1> QED
  BY <1>1, <1>2

LEMMA ChangeType ==
  ASSUME NEW p \in Pointstamp, NEW delta \in Int
  PROVE  /\ Change(p, delta) \in Batch
         /\ \A x \in Pointstamp : Change(p, delta)[x] = IF x = p THEN delta ELSE 0
<1>1. Change(p, delta) = [x \in Pointstamp |-> IF x = p THEN delta ELSE 0]
  BY DEF Change, Zero
<1> QED
  BY <1>1 DEF Batch

LEMMA TypeInit == Init => TypeOK
<1> SUFFICES ASSUME Init PROVE TypeOK
  OBVIOUS
<1>1. Zero \in Batch
  BY PlusType
<1>2. Cardinality(Worker) \in Nat
  BY Finite, FS_CardinalityType
<1>3. InitialCount \in Batch
  BY <1>2 DEF InitialCount, Batch
<1>4. /\ eager \in [Worker -> BOOLEAN]
      /\ caps \in [Worker -> [Source \X Time -> Nat]]
      /\ queue \in [Worker -> [Target \X Time -> Nat]]
      /\ sent \in 0 .. MaxRecords
      /\ cursor \in [Worker -> {Idle, 0} \cup Node]
  BY GraphAssumption DEF Init
<1>5. net \in [Worker -> [Worker -> Seq(Batch)]]
  BY DEF Init
<1> QED
  BY <1>1, <1>3, <1>4, <1>5 DEF Init, TypeOK

\* The change of sending a record.
LEMMA SendType ==
  ASSUME TypeOK, NEW w \in Worker, NEW s \in Source, NEW t \in Time, SendRecord(w, s, t)
  PROVE  TypeOK'
<1> DEFINE targets == {g \in Target : <<s, g>> \in Edge}
           d == [p \in Pointstamp |-> IF p \in targets \X {t} THEN 1 ELSE 0]
<1>1. /\ Account(w, NodeOf(s), d)
      /\ sent < MaxRecords /\ sent' = sent + 1
      /\ UNCHANGED <<eager, caps, net, known, cursor>>
  BY DEF SendRecord
<1>2. NodeOf(s) \in Node /\ MaxRecords \in Nat
  BY GraphAssumption DEF Port
<1>3. d \in Batch
  BY DEF Batch
<1>4. pending' \in [Worker -> [InputNode -> Batch]] /\ local' \in [Worker -> Batch]
  <2> HIDE DEF d
  <2> QED
    BY <1>1, <1>2, <1>3, AccountType
<1>5. PICK route \in [targets -> Worker] :
        queue' = [v \in Worker |-> [p \in Target \X Time |->
                    IF p[1] \in targets /\ p[2] = t /\ route[p[1]] = v
                    THEN queue[v][p] + 1 ELSE queue[v][p]]]
  BY DEF SendRecord
<1>6. queue' \in [Worker -> [Target \X Time -> Nat]]
  <2>1. \A v \in Worker, p \in Target \X Time : queue[v][p] \in Nat
    BY DEF TypeOK
  <2> HIDE DEF targets
  <2> QED
    BY <1>5, <2>1
<1>7. sent' \in 0 .. MaxRecords
  BY <1>1, <1>2 DEF TypeOK
<1> QED
  BY <1>1, <1>4, <1>6, <1>7 DEF TypeOK

LEMMA ReceiveType ==
  ASSUME TypeOK, NEW w \in Worker, NEW g \in Target, NEW t \in Time, ReceiveRecord(w, g, t)
  PROVE  TypeOK'
<1>1. PICK kept \in SUBSET {p \in Source \X Time : p[2] \in Internal(g, p[1], t)} :
        /\ caps' = [caps EXCEPT ![w] = [p \in Source \X Time |->
                      IF p \in kept THEN @[p] + 1 ELSE @[p]]]
        /\ Account(w, NodeOf(g),
             [p \in Pointstamp |-> IF p = <<g, t>> THEN -1
                                   ELSE IF p \in kept THEN 1 ELSE 0])
  BY DEF ReceiveRecord
<1> DEFINE d == [p \in Pointstamp |-> IF p = <<g, t>> THEN -1
                                      ELSE IF p \in kept THEN 1 ELSE 0]
<1>2. d \in Batch
  BY DEF Batch
<1>3. NodeOf(g) \in Node
  BY GraphAssumption DEF Port
<1>4. pending' \in [Worker -> [InputNode -> Batch]] /\ local' \in [Worker -> Batch]
  <2>1. Account(w, NodeOf(g), d)
    BY <1>1
  <2> HIDE DEF d
  <2> QED
    BY <1>2, <1>3, <2>1, AccountType
<1>5. caps' \in [Worker -> [Source \X Time -> Nat]]
  <2>1. caps[w] \in [Source \X Time -> Nat]
    BY DEF TypeOK
  <2>2. [p \in Source \X Time |-> IF p \in kept THEN caps[w][p] + 1 ELSE caps[w][p]]
          \in [Source \X Time -> Nat]
    BY <2>1
  <2> QED
    BY <1>1, <2>2 DEF TypeOK
<1>6. queue' \in [Worker -> [Target \X Time -> Nat]]
  <2>1. queue' = [queue EXCEPT ![w][<<g, t>>] = @ - 1] /\ queue[w][<<g, t>>] > 0
    BY DEF ReceiveRecord
  <2>2. <<g, t>> \in Target \X Time /\ queue[w] \in [Target \X Time -> Nat]
    BY DEF TypeOK
  <2>3. queue[w][<<g, t>>] - 1 \in Nat
    BY <2>1, <2>2
  <2> QED
    BY <2>1, <2>2, <2>3 DEF TypeOK
<1>7. UNCHANGED <<eager, sent, net, known, cursor>>
  BY DEF ReceiveRecord
<1> QED
  BY <1>4, <1>5, <1>6, <1>7 DEF TypeOK

LEMMA DowngradeType ==
  ASSUME TypeOK, NEW w \in Worker, NEW s \in Source, NEW t \in Time, NEW later \in Time,
         Downgrade(w, s, t, later)
  PROVE  TypeOK'
<1> DEFINE d == Plus(Change(<<s, t>>, -1), Change(<<s, later>>, 1))
<1>1. d \in Batch
  <2>1. <<s, t>> \in Pointstamp /\ <<s, later>> \in Pointstamp
    BY Pointstamps
  <2> QED
    BY <2>1, ChangeType, PlusType
<1>2. NodeOf(s) \in Node
  BY GraphAssumption DEF Port
<1>3. pending' \in [Worker -> [InputNode -> Batch]] /\ local' \in [Worker -> Batch]
  <2>1. Account(w, NodeOf(s), d)
    BY DEF Downgrade
  <2> HIDE DEF d
  <2> QED
    BY <1>1, <1>2, <2>1, AccountType
<1>4. caps' \in [Worker -> [Source \X Time -> Nat]]
  <2>1. /\ caps' = [caps EXCEPT ![w][<<s, t>>] = @ - 1, ![w][<<s, later>>] = @ + 1]
        /\ caps[w][<<s, t>>] > 0 /\ t # later
    BY DEF Downgrade, Less
  <2>2. /\ <<s, t>> \in Source \X Time /\ <<s, later>> \in Source \X Time
        /\ <<s, t>> # <<s, later>>
        /\ caps[w] \in [Source \X Time -> Nat]
    BY <2>1 DEF TypeOK
  <2>3. caps[w][<<s, t>>] - 1 \in Nat /\ caps[w][<<s, later>>] + 1 \in Nat
    BY <2>1, <2>2
  <2> QED
    BY <2>1, <2>2, <2>3 DEF TypeOK
<1>5. UNCHANGED <<eager, queue, sent, net, known, cursor>>
  BY DEF Downgrade
<1> QED
  BY <1>3, <1>4, <1>5 DEF TypeOK

LEMMA DropType ==
  ASSUME TypeOK, NEW w \in Worker, NEW s \in Source, NEW t \in Time, Drop(w, s, t)
  PROVE  TypeOK'
<1>1. Change(<<s, t>>, -1) \in Batch
  BY ChangeType, Pointstamps
<1>2. NodeOf(s) \in Node
  BY GraphAssumption DEF Port
<1>3. pending' \in [Worker -> [InputNode -> Batch]] /\ local' \in [Worker -> Batch]
  <2>1. Account(w, NodeOf(s), Change(<<s, t>>, -1))
    BY DEF Drop
  <2> QED
    BY <1>1, <1>2, <2>1, AccountType
<1>4. caps' \in [Worker -> [Source \X Time -> Nat]]
  <2>1. caps' = [caps EXCEPT ![w][<<s, t>>] = @ - 1] /\ caps[w][<<s, t>>] > 0
    BY DEF Drop
  <2>2. <<s, t>> \in Source \X Time /\ caps[w] \in [Source \X Time -> Nat]
    BY DEF TypeOK
  <2>3. caps[w][<<s, t>>] - 1 \in Nat
    BY <2>1, <2>2
  <2> QED
    BY <2>1, <2>2, <2>3 DEF TypeOK
<1>5. UNCHANGED <<eager, queue, sent, net, known, cursor>>
  BY DEF Drop
<1> QED
  BY <1>3, <1>4, <1>5 DEF TypeOK

\* How many of the batches waiting from each worker are taken.
LEMMA TakeType ==
  ASSUME TypeOK, NEW w \in Worker, NEW take \in Takes(w)
  PROVE  \A v \in Worker : take[v] \in 0 .. Len(net[v][w])
<1>1. \A v \in Worker : net[v][w] \in Seq(Batch) /\ Len(net[v][w]) \in Nat
  BY DEF TypeOK
<1>2. \A v \in Worker : take[v] \in UNION {0 .. Len(net[u][w]) : u \in Worker}
  BY DEF Takes
<1>3. \A v \in Worker : take[v] <= Len(net[v][w])
  BY DEF Takes
<1> QED
  BY <1>1, <1>2, <1>3

LEMMA BeginType ==
  ASSUME TypeOK, NEW w \in Worker, NEW take \in Takes(w), BeginSchedule(w, take)
  PROVE  TypeOK'
<1> DEFINE seen(v) == SubSeq(net[v][w], 1, take[v])
<1>1. ASSUME NEW v \in Worker
      PROVE  /\ seen(v) \in Seq(Batch)
             /\ SubSeq(net[v][w], take[v] + 1, Len(net[v][w])) \in Seq(Batch)
  <2>1. net[v][w] \in Seq(Batch) /\ take[v] \in 0 .. Len(net[v][w])
    BY TakeType DEF TypeOK
  <2> QED
    BY <2>1
<1>2. known' \in [Worker -> Batch]
  <2> DEFINE new == [p \in Pointstamp |-> known[w][p] +
                       SumFunction([v \in Worker |-> Sum(seen(v))[p]])]
  <2>1. ASSUME NEW p \in Pointstamp PROVE new[p] \in Int
    <3> DEFINE f == [v \in Worker |-> Sum(seen(v))[p]]
    <3>1. \A v \in Worker : f[v] \in Int
      <4>1. ASSUME NEW v \in Worker PROVE Sum(seen(v)) \in Batch
        <5> HIDE DEF seen
        <5>1. SumAfter(seen(v), 0) = Sum(seen(v)) /\ SumAfter(seen(v), 0) \in Batch
          BY <1>1, SumAfterEnds, SumAfterType
        <5> QED
          BY <5>1
      <4> QED
        BY <4>1 DEF Batch
    <3>2. SumFunction(f) = SumOver(f, Worker)
      BY DEF SumOver
    <3>3. SumFunction(f) \in Int
      <4> HIDE DEF f
      <4> QED
        BY <3>1, <3>2, SumInt, Finite
    <3>4. known[w][p] \in Int
      BY DEF TypeOK, Batch
    <3> QED
      BY <3>3, <3>4
  <2>2. new \in Batch
    <3>1. new = [p \in Pointstamp |-> new[p]]
      OBVIOUS
    <3> HIDE DEF new
    <3> QED
      BY <2>1, <3>1 DEF Batch
  <2>3. known' = [known EXCEPT ![w] = new]
    BY DEF BeginSchedule
  <2> HIDE DEF new
  <2> QED
    BY <2>2, <2>3 DEF TypeOK
<1>3. net' \in [Worker -> [Worker -> Seq(Batch)]]
  BY <1>1 DEF BeginSchedule, TypeOK
<1>4. /\ UNCHANGED <<eager, caps, queue, sent, pending, local>>
      /\ cursor' = [cursor EXCEPT ![w] = 0]
  BY DEF BeginSchedule
<1> QED
  BY <1>2, <1>3, <1>4 DEF TypeOK

LEMMA ActivateType ==
  ASSUME TypeOK, NEW w \in Worker, NEW n \in Node, ActivateChild(w, n)
  PROVE  TypeOK'
<1>1. /\ UNCHANGED <<eager, caps, queue, sent, net, known>>
      /\ cursor' = [cursor EXCEPT ![w] = n]
  BY DEF ActivateChild
<1>2. CASE n \in InputNode
  <2>1. /\ local' = [local EXCEPT ![w] = Plus(@, pending[w][n])]
        /\ pending' = [pending EXCEPT ![w][n] = Zero]
    BY <1>2 DEF ActivateChild
  <2>2. Plus(local[w], pending[w][n]) \in Batch /\ Zero \in Batch
    BY <1>2, PlusType DEF TypeOK
  <2> QED
    BY <1>1, <2>1, <2>2 DEF TypeOK
<1>3. CASE n \notin InputNode
  <2>1. local' = local /\ pending' = pending
    BY <1>3 DEF ActivateChild
  <2> QED
    BY <1>1, <2>1 DEF TypeOK
<1> QED
  BY <1>2, <1>3

LEMMA EndType ==
  ASSUME TypeOK, NEW w \in Worker, EndSchedule(w)
  PROVE  TypeOK'
<1>1. /\ UNCHANGED <<eager, caps, queue, sent, pending, known>>
      /\ cursor' = [cursor EXCEPT ![w] = Idle]
  BY DEF EndSchedule
<1>2. CASE MustSend(w)
  <2>1. /\ net' = [net EXCEPT ![w] =
                     IF local[w] = Zero THEN @
                     ELSE [v \in Worker |-> Append(@[v], local[w])]]
        /\ local' = [local EXCEPT ![w] = Zero]
    BY <1>2 DEF EndSchedule, SendProgress, Broadcast
  <2>2. Zero \in Batch /\ local[w] \in Batch
    BY PlusType DEF TypeOK
  <2>3. \A v \in Worker : Append(net[w][v], local[w]) \in Seq(Batch)
    BY <2>2 DEF TypeOK
  <2> QED
    BY <1>1, <2>1, <2>2, <2>3 DEF TypeOK
<1>3. CASE ~MustSend(w)
  BY <1>1, <1>3 DEF EndSchedule, SendProgress, TypeOK
<1> QED
  BY <1>2, <1>3

LEMMA TypeNext ==
  ASSUME TypeOK, [Next]_vars
  PROVE  TypeOK'
<1>1. CASE UNCHANGED vars
  BY <1>1 DEF vars, TypeOK
<1>2. ASSUME NEW w \in Worker, NEW s \in Source, NEW t \in Time,
             SendRecord(w, s, t) \/ Drop(w, s, t)
      PROVE  TypeOK'
  BY <1>2, SendType, DropType
<1>3. ASSUME NEW w \in Worker, NEW s \in Source, NEW t \in Time, NEW later \in Time,
             Downgrade(w, s, t, later)
      PROVE  TypeOK'
  BY <1>3, DowngradeType
<1>4. ASSUME NEW w \in Worker, NEW g \in Target, NEW t \in Time, ReceiveRecord(w, g, t)
      PROVE  TypeOK'
  BY <1>4, ReceiveType
<1>5. ASSUME NEW w \in Worker, NEW take \in Takes(w), BeginSchedule(w, take)
      PROVE  TypeOK'
  BY <1>5, BeginType
<1>6. ASSUME NEW w \in Worker, NEW n \in Node, ActivateChild(w, n)
      PROVE  TypeOK'
  BY <1>6, ActivateType
<1>7. ASSUME NEW w \in Worker, EndSchedule(w)
      PROVE  TypeOK'
  BY <1>7, EndType
<1> QED
  BY <1>1, <1>2, <1>3, <1>4, <1>5, <1>6, <1>7 DEF Next

-----------------------------------------------------------------------------
(* What operators do, as changes of counts *)

\* What worker w has of the capabilities or records at p.
Has(w, p) == IF p[1] \in Source THEN caps[w][p] ELSE queue[w][p]

LEMMA HasType ==
  ASSUME TypeOK, NEW w \in Worker, NEW p \in Pointstamp
  PROVE  Has(w, p) \in Nat
BY Pointstamps DEF TypeOK, Has

LEMMA HeldMeans ==
  ASSUME NEW p \in Pointstamp
  PROVE  Held[p] = SumOver([w \in Worker |-> Has(w, p)], Worker)
BY DEF Held, Has, SumOver

\* What all hold is not negative, and positive where someone holds something.
LEMMA HeldOutstanding ==
  ASSUME TypeOK, NEW p \in Pointstamp
  PROVE  /\ Held[p] \in Nat
         /\ \A w \in Worker : Has(w, p) > 0 => Held[p] > 0
         /\ p \in Outstanding <=> Held[p] > 0
<1> DEFINE f == [w \in Worker |-> Has(w, p)]
           g == [w \in Worker |-> -Has(w, p)]
           z == [w \in Worker |-> 0]
<1>1. \A w \in Worker : f[w] \in Nat /\ g[w] \in Int /\ g[w] = -f[w] /\ g[w] <= 0
  BY HasType
<1>2. \A w \in Worker : z[w] = 0 /\ z[w] = f[w] + g[w]
  BY <1>1
<1>3. p \in Outstanding <=> \E w \in Worker : Has(w, p) > 0
  BY DEF Outstanding, Has
<1>4. \A w \in Worker : f[w] = Has(w, p)
  OBVIOUS
<1>5. Held[p] = SumOver(f, Worker)
  BY HeldMeans
<1> HIDE DEF f, g, z
<1>6. SumOver(z, Worker) = 0
  BY <1>2, SumZero, Finite
<1>7. SumOver(z, Worker) = SumOver(f, Worker) + SumOver(g, Worker)
  <2>1. \A w \in Worker : f[w] \in Int /\ g[w] \in Int /\ z[w] = f[w] + g[w]
    BY <1>1, <1>2
  <2> QED
    BY <2>1, SumPlus, Finite
<1>8. SumOver(g, Worker) <= 0
  BY <1>1, SumNonPositive, Finite
<1>9. SumOver(f, Worker) \in Int /\ SumOver(g, Worker) \in Int
  BY <1>1, SumInt, Finite
<1>10. Held[p] \in Nat
  BY <1>5, <1>6, <1>7, <1>8, <1>9
<1>11. ASSUME NEW w \in Worker, Has(w, p) > 0 PROVE Held[p] > 0
  <2>1. SumOver(g, Worker) = g[w] + SumOver(g, Worker \ {w})
    BY <1>1, SumRemove, Finite
  <2>2. IsFiniteSet(Worker \ {w})
    BY FS_Subset, Finite
  <2>3. SumOver(g, Worker \ {w}) <= 0 /\ SumOver(g, Worker \ {w}) \in Int
    BY <1>1, <2>2, SumNonPositive, SumInt
  <2>4. g[w] \in Int /\ g[w] < 0
    BY <1>1, <1>4, <1>11
  <2> QED
    BY <1>5, <1>6, <1>7, <1>9, <2>1, <2>3, <2>4
<1>12. ASSUME Held[p] > 0 PROVE \E w \in Worker : Has(w, p) > 0
  <2>1. SUFFICES ASSUME \A w \in Worker : f[w] <= 0 PROVE FALSE
    BY <1>1, <1>4
  <2>2. SumOver(f, Worker) <= 0
    BY <1>1, <2>1, SumNonPositive, Finite
  <2> QED
    BY <1>5, <1>9, <1>12, <2>2
<1> QED
  BY <1>3, <1>10, <1>11, <1>12

\* Worker w changes what it has at p by d.
LEMMA HeldChange ==
  ASSUME TypeOK, NEW w \in Worker, NEW p \in Pointstamp, NEW d \in Int,
         Has(w, p)' = Has(w, p) + d,
         \A v \in Worker \ {w} : Has(v, p)' = Has(v, p)
  PROVE  Held'[p] = Held[p] + d
<1> DEFINE f == [v \in Worker |-> Has(v, p)]
           g == [v \in Worker |-> Has(v, p)']
<1>1. \A v \in Worker : f[v] \in Int
  BY HasType
<1>2. g[w] = f[w] + d /\ \A v \in Worker \ {w} : g[v] = f[v]
  OBVIOUS
<1>3. Held[p] = SumOver(f, Worker)
  BY HeldMeans
<1>4. Held'[p] = SumOver(g, Worker)
  BY DEF Held, Has, SumOver
<1> HIDE DEF f, g
<1>5. SumOver(g, Worker) = SumOver(f, Worker) + d
  BY <1>1, <1>2, SumChangeOne, Finite
<1> QED
  BY <1>3, <1>4, <1>5

\* An operation of operator n of worker w that changes the counts by d: what it adds is
\* after c, which is there before it, and which it takes away or, being a capability,
\* keeps.
Operates(w, n, d, c) ==
  /\ n \in Node /\ d \in Batch /\ c \in Pointstamp
  /\ Account(w, n, d)
  /\ UNCHANGED <<net, known>>
  /\ c \in Outstanding
  /\ \A p \in Pointstamp :
       /\ Held'[p] = Held[p] + d[p]
       /\ p[1] \in Source => caps'[w][p] = caps[w][p] + d[p]
       /\ p[1] \in Source /\ d[p] # 0 => NodeOf(p[1]) = n
       /\ d[p] > 0 => Before(c, p)
       /\ d[p] < 0 => p = c
  /\ \A v \in Worker \ {w} : caps'[v] = caps[v]
  /\ \/ d[c] = -1
     \/ d[c] = 0 /\ c[1] \in Source /\ NodeOf(c[1]) = n /\ caps[w][c] > 0

LEMMA SourceHas ==
  /\ \A w, p : p[1] \in Source => Has(w, p) = caps[w][p] /\ Has(w, p)' = caps'[w][p]
  /\ \A w, p : p[1] \in Target => Has(w, p) = queue[w][p] /\ Has(w, p)' = queue'[w][p]
BY GraphAssumption DEF Has

LEMMA SendOperates ==
  ASSUME TypeOK, NEW w \in Worker, NEW s \in Source, NEW t \in Time, SendRecord(w, s, t)
  PROVE  \E d : Operates(w, NodeOf(s), d, <<s, t>>)
<1> DEFINE targets == {g \in Target : <<s, g>> \in Edge}
           d == [p \in Pointstamp |-> IF p \in targets \X {t} THEN 1 ELSE 0]
           c == <<s, t>>
<1>1. /\ Account(w, NodeOf(s), d)
      /\ caps[w][c] > 0
      /\ UNCHANGED <<eager, caps, net, known, cursor>>
  BY DEF SendRecord
<1>2. c \in Pointstamp /\ c[1] \in Source /\ c[1] = s /\ c[2] = t /\ d \in Batch
  BY Pointstamps DEF Batch
<1>3. NodeOf(s) \in Node
  BY GraphAssumption DEF Port
<1>4. c \in Outstanding
  BY <1>1, <1>2 DEF Outstanding
<1>5. PICK route \in [targets -> Worker] :
        queue' = [v \in Worker |-> [p \in Target \X Time |->
                    IF p[1] \in targets /\ p[2] = t /\ route[p[1]] = v
                    THEN queue[v][p] + 1 ELSE queue[v][p]]]
  BY DEF SendRecord
<1>6. ASSUME NEW p \in Pointstamp
      PROVE  /\ d[p] = IF p[1] \in targets /\ p[2] = t THEN 1 ELSE 0
             /\ p[1] \in Source => d[p] = 0
  BY Pointstamps, GraphAssumption
<1>7. ASSUME NEW p \in Pointstamp PROVE Held'[p] = Held[p] + d[p]
  <2>1. CASE p[1] \in Source
    <3>1. \A v \in Worker : Has(v, p)' = Has(v, p) /\ Has(v, p) \in Nat
      BY <1>1, <2>1, SourceHas, HasType
    <3>2. d[p] = 0
      BY <1>6, <2>1
    <3>3. Has(w, p)' = Has(w, p) + 0
      BY <3>1
    <3>4. Held'[p] = Held[p] + 0
      BY <3>1, <3>3, HeldChange
    <3> QED
      BY <3>2, <3>4
  <2>2. CASE p[1] \in Target
    <3>1. p \in Target \X Time /\ p[1] \notin Source
      BY <2>2, Pointstamps, GraphAssumption
    <3>2. \A v \in Worker : Has(v, p) = queue[v][p] /\ Has(v, p)' = queue'[v][p]
      BY <2>2, SourceHas
    <3>3. \A v \in Worker :
            queue'[v][p] = IF p[1] \in targets /\ p[2] = t /\ route[p[1]] = v
                           THEN queue[v][p] + 1 ELSE queue[v][p]
      <4> HIDE DEF targets
      <4> QED
        BY <1>5, <3>1
    <3>4. \A v \in Worker : Has(v, p) \in Nat
      BY HasType
    <3>5. CASE p[1] \in targets /\ p[2] = t
      <4> DEFINE r == route[p[1]]
      <4>1. r \in Worker
        BY <3>5
      <4>2. Has(r, p)' = Has(r, p) + 1 /\ \A v \in Worker \ {r} : Has(v, p)' = Has(v, p)
        BY <3>2, <3>3, <3>5, <4>1
      <4> HIDE DEF r
      <4>3. Held'[p] = Held[p] + 1
        BY <4>1, <4>2, HeldChange
      <4> QED
        BY <1>6, <3>5, <4>3
    <3>6. CASE ~(p[1] \in targets /\ p[2] = t)
      <4>1. \A v \in Worker : Has(v, p)' = Has(v, p)
        BY <3>2, <3>3, <3>6
      <4>2. Has(w, p)' = Has(w, p) + 0
        BY <3>4, <4>1
      <4>3. Held'[p] = Held[p] + 0
        BY <4>1, <4>2, HeldChange
      <4> QED
        BY <1>6, <3>6, <4>3
    <3> QED
      BY <3>5, <3>6
  <2> QED
    BY <2>1, <2>2, Pointstamps
<1>8. ASSUME NEW p \in Pointstamp, d[p] > 0 PROVE Before(c, p)
  <2>1. p[1] \in targets /\ p[2] = t
    BY <1>6, <1>8
  <2>2. <<s, p[1]>> \in Edge /\ p[1] \in Target
    BY <2>1
  <2>3. p \in Step(c)
    BY <1>2, <2>1, <2>2 DEF Step
  <2>4. c # p
    BY <1>2, <2>2, GraphAssumption
  <2> QED
    BY <1>2, <2>3, <2>4, LeadsToStep DEF Before
<1>9. ASSUME NEW p \in Pointstamp, p[1] \in Source PROVE caps'[w][p] = caps[w][p] + d[p]
  <2>1. p \in Source \X Time /\ caps[w] \in [Source \X Time -> Nat]
    BY <1>9, Pointstamps DEF TypeOK
  <2>2. caps[w][p] \in Nat /\ d[p] = 0 /\ caps' = caps
    BY <1>1, <1>6, <1>9, <2>1
  <2> HIDE DEF d
  <2> QED
    BY <2>2
<1>10. d[c] = 0 /\ \A p \in Pointstamp : ~(d[p] < 0)
  <2>1. \A p \in Pointstamp : d[p] = 0 \/ d[p] = 1
    OBVIOUS
  <2>2. \A p \in Pointstamp : p[1] \in Source => d[p] = 0
    BY <1>6
  <2> HIDE DEF d, c
  <2>3. d[c] = 0
    BY <1>2, <2>2
  <2>4. \A p \in Pointstamp : ~(d[p] < 0)
    BY <2>1
  <2> QED
    BY <2>3, <2>4
<1> HIDE DEF d, c
<1>11. Operates(w, NodeOf(s), d, c)
  BY <1>1, <1>2, <1>3, <1>4, <1>6, <1>7, <1>8, <1>9, <1>10 DEF Operates
<1> QED
  BY <1>11 DEF c

LEMMA ReceiveOperates ==
  ASSUME TypeOK, NEW w \in Worker, NEW g \in Target, NEW t \in Time, ReceiveRecord(w, g, t)
  PROVE  \E d : Operates(w, NodeOf(g), d, <<g, t>>)
<1> DEFINE c == <<g, t>>
<1>1. PICK kept \in SUBSET {p \in Source \X Time : p[2] \in Internal(g, p[1], t)} :
        /\ caps' = [caps EXCEPT ![w] = [p \in Source \X Time |->
                      IF p \in kept THEN @[p] + 1 ELSE @[p]]]
        /\ Account(w, NodeOf(g),
             [p \in Pointstamp |-> IF p = c THEN -1
                                   ELSE IF p \in kept THEN 1 ELSE 0])
  BY DEF ReceiveRecord
<1> DEFINE d == [p \in Pointstamp |-> IF p = c THEN -1
                                      ELSE IF p \in kept THEN 1 ELSE 0]
<1>2. /\ c \in Pointstamp /\ c[1] \in Target /\ c[1] \notin Source /\ c[1] = g /\ c[2] = t
      /\ c \in Target \X Time
      /\ d \in Batch
  BY Pointstamps, GraphAssumption DEF Batch
<1>3. NodeOf(g) \in Node
  BY GraphAssumption DEF Port
<1>4. /\ queue[w][c] > 0
      /\ queue' = [queue EXCEPT ![w][c] = @ - 1]
      /\ UNCHANGED <<eager, sent, net, known, cursor>>
  BY DEF ReceiveRecord
<1>5. c \in Outstanding
  BY <1>2, <1>4 DEF Outstanding
<1>6. \A p \in kept : p \in Source \X Time /\ p[1] \in Source /\ p[2] \in Internal(g, p[1], t)
  OBVIOUS
<1>7. ASSUME NEW p \in Pointstamp
      PROVE  /\ p[1] \in Source => d[p] = IF p \in kept THEN 1 ELSE 0
             /\ p[1] \in Target => d[p] = IF p = c THEN -1 ELSE 0
  BY <1>2, <1>6, GraphAssumption
<1>8. ASSUME NEW p \in Pointstamp, p[1] \in Source
      PROVE  caps'[w][p] = caps[w][p] + d[p] /\ \A v \in Worker \ {w} : caps'[v] = caps[v]
  <2>1. p \in Source \X Time
    BY <1>8, Pointstamps
  <2>2. caps \in [Worker -> [Source \X Time -> Nat]]
    BY DEF TypeOK
  <2>3. caps[w][p] \in Nat
    <3> HIDE DEF d, c
    <3> QED
      BY <2>1, <2>2
  <2> HIDE DEF d
  <2> QED
    BY <1>1, <1>7, <1>8, <2>1, <2>2, <2>3
<1>9. ASSUME NEW p \in Pointstamp PROVE Held'[p] = Held[p] + d[p]
  <2>1. CASE p[1] \in Source
    <3>1. Has(w, p)' = Has(w, p) + d[p] /\ \A v \in Worker \ {w} : Has(v, p)' = Has(v, p)
      BY <1>8, <2>1, SourceHas
    <3>2. d[p] \in Int
      BY <1>2 DEF Batch
    <3> HIDE DEF d, c
    <3> QED
      BY <3>1, <3>2, HeldChange, Zenon
  <2>2. CASE p[1] \in Target
    <3>1. p \in Target \X Time
      BY <2>2, Pointstamps
    <3>2. \A v \in Worker : Has(v, p) = queue[v][p] /\ Has(v, p)' = queue'[v][p]
      BY <2>2, SourceHas
    <3>3. queue[w][p] \in Nat /\ queue \in [Worker -> [Target \X Time -> Nat]]
      <4>1. queue \in [Worker -> [Target \X Time -> Nat]]
        BY DEF TypeOK
      <4> HIDE DEF c, d
      <4> QED
        BY <3>1, <4>1
    <3>4. d[p] = (IF p = c THEN -1 ELSE 0) /\ d[p] \in Int
      BY <1>7, <2>2
    <3> HIDE DEF d, c
    <3>5. Has(w, p)' = Has(w, p) + d[p] /\ \A v \in Worker \ {w} : Has(v, p)' = Has(v, p)
      BY <1>2, <1>4, <3>1, <3>2, <3>3, <3>4
    <3> QED
      BY <3>4, <3>5, HeldChange
  <2> QED
    BY <2>1, <2>2, Pointstamps
<1>10. ASSUME NEW p \in Pointstamp, d[p] > 0 PROVE Before(c, p) /\ NodeOf(p[1]) = NodeOf(g)
  <2>1. p \in kept
    BY <1>10
  <2>2. p[1] \in Source /\ p[2] \in Internal(g, p[1], t)
    BY <1>6, <2>1
  <2>3. p \in Step(c)
    BY <1>2, <2>2 DEF Step
  <2>4. c # p
    BY <1>2, <2>2
  <2>5. NodeOf(p[1]) = NodeOf(g)
    BY <2>2, GraphAssumption
  <2> QED
    BY <1>2, <2>3, <2>4, <2>5, LeadsToStep DEF Before
<1>11. d[c] = -1 /\ \A p \in Pointstamp : d[p] < 0 => p = c
  BY <1>2
<1>12. \A v \in Worker \ {w} : caps'[v] = caps[v]
  BY <1>1 DEF TypeOK
<1>13. ASSUME NEW p \in Pointstamp, p[1] \in Source, d[p] # 0 PROVE NodeOf(p[1]) = NodeOf(g)
  <2>1. d[p] > 0
    BY <1>7, <1>13
  <2> QED
    BY <1>10, <2>1
<1>14. Account(w, NodeOf(g), d)
  BY <1>1
<1> HIDE DEF d, c
<1>15. Operates(w, NodeOf(g), d, c)
  BY <1>2, <1>3, <1>4, <1>5, <1>8, <1>9, <1>10, <1>11, <1>12, <1>13, <1>14 DEF Operates
<1> QED
  BY <1>15 DEF c

LEMMA DowngradeOperates ==
  ASSUME TypeOK, NEW w \in Worker, NEW s \in Source, NEW t \in Time, NEW later \in Time,
         Downgrade(w, s, t, later)
  PROVE  \E d : Operates(w, NodeOf(s), d, <<s, t>>)
<1> DEFINE c == <<s, t>>
           e == <<s, later>>
           d == Plus(Change(c, -1), Change(e, 1))
<1>1. /\ Account(w, NodeOf(s), d)
      /\ caps[w][c] > 0
      /\ Leq(t, later) /\ t # later
      /\ caps' = [caps EXCEPT ![w][c] = @ - 1, ![w][e] = @ + 1]
      /\ UNCHANGED <<eager, queue, sent, net, known, cursor>>
  BY DEF Downgrade, Less
<1>2. /\ c \in Pointstamp /\ c[1] \in Source /\ c[1] = s /\ c[2] = t
      /\ e \in Pointstamp /\ e[1] \in Source /\ e[1] = s /\ e[2] = later
      /\ c \in Source \X Time /\ e \in Source \X Time /\ c # e
  BY <1>1, Pointstamps
<1>3. d \in Batch /\ \A p \in Pointstamp : d[p] = IF p = c THEN -1 ELSE IF p = e THEN 1 ELSE 0
  <2>1. /\ Change(c, -1) \in Batch /\ Change(e, 1) \in Batch
        /\ \A x \in Pointstamp : Change(c, -1)[x] = IF x = c THEN -1 ELSE 0
        /\ \A x \in Pointstamp : Change(e, 1)[x] = IF x = e THEN 1 ELSE 0
    BY <1>2, ChangeType
  <2> HIDE DEF c, e
  <2> QED
    BY <1>2, <2>1, PlusType DEF Plus
<1>4. NodeOf(s) \in Node
  BY GraphAssumption DEF Port
<1>5. c \in Outstanding
  BY <1>1, <1>2 DEF Outstanding
<1>6. ASSUME NEW p \in Pointstamp, p[1] \in Source
      PROVE  caps'[w][p] = caps[w][p] + d[p]
  <2>1. p \in Source \X Time /\ caps \in [Worker -> [Source \X Time -> Nat]]
    BY <1>6, Pointstamps DEF TypeOK
  <2>2. caps[w][p] \in Nat /\ caps[w][c] \in Nat /\ caps[w][e] \in Nat
    <3> HIDE DEF c, e, d
    <3> QED
      BY <1>2, <2>1
  <2> HIDE DEF c, e, d
  <2> QED
    BY <1>1, <1>2, <1>3, <2>1, <2>2
<1>7. \A v \in Worker \ {w} : caps'[v] = caps[v]
  BY <1>1 DEF TypeOK
<1> HIDE DEF c, e, d
<1>8. ASSUME NEW p \in Pointstamp PROVE Held'[p] = Held[p] + d[p]
  <2>1. d[p] \in Int
    BY <1>3 DEF Batch
  <2>2. Has(w, p)' = Has(w, p) + d[p] /\ \A v \in Worker \ {w} : Has(v, p)' = Has(v, p)
    <3>1. CASE p[1] \in Source
      BY <1>6, <1>7, <3>1, SourceHas
    <3>2. CASE p[1] \in Target
      <4>1. d[p] = 0
        BY <1>2, <1>3, <3>2, GraphAssumption
      <4>2. \A v \in Worker : Has(v, p)' = Has(v, p) /\ Has(v, p) \in Nat
        BY <1>1, <3>2, SourceHas, HasType
      <4> QED
        BY <4>1, <4>2
    <3> QED
      BY <3>1, <3>2, Pointstamps
  <2> QED
    BY <2>1, <2>2, HeldChange
<1>9. ASSUME NEW p \in Pointstamp, d[p] > 0 PROVE Before(c, p)
  <2>1. p = e
    BY <1>3, <1>9
  <2> QED
    BY <1>1, <1>2, <2>1, LeadsToLater DEF Before
<1>10. ASSUME NEW p \in Pointstamp, d[p] # 0 PROVE NodeOf(p[1]) = NodeOf(s)
  BY <1>2, <1>3, <1>10
<1>11. d[c] = -1 /\ \A p \in Pointstamp : d[p] < 0 => p = c
  BY <1>2, <1>3
<1>12. Operates(w, NodeOf(s), d, c)
  BY <1>1, <1>2, <1>3, <1>4, <1>5, <1>6, <1>7, <1>8, <1>9, <1>10, <1>11 DEF Operates
<1> QED
  BY <1>12 DEF c

LEMMA DropOperates ==
  ASSUME TypeOK, NEW w \in Worker, NEW s \in Source, NEW t \in Time, Drop(w, s, t)
  PROVE  \E d : Operates(w, NodeOf(s), d, <<s, t>>)
<1> DEFINE c == <<s, t>>
           d == Change(c, -1)
<1>1. /\ Account(w, NodeOf(s), d)
      /\ caps[w][c] > 0
      /\ caps' = [caps EXCEPT ![w][c] = @ - 1]
      /\ UNCHANGED <<eager, queue, sent, net, known, cursor>>
  BY DEF Drop
<1>2. c \in Pointstamp /\ c[1] \in Source /\ c[1] = s /\ c \in Source \X Time
  BY Pointstamps
<1>3. d \in Batch /\ \A p \in Pointstamp : d[p] = IF p = c THEN -1 ELSE 0
  BY <1>2, ChangeType
<1>4. NodeOf(s) \in Node
  BY GraphAssumption DEF Port
<1>5. c \in Outstanding
  BY <1>1, <1>2 DEF Outstanding
<1> HIDE DEF c, d
<1>6. ASSUME NEW p \in Pointstamp, p[1] \in Source
      PROVE  caps'[w][p] = caps[w][p] + d[p]
  <2>1. p \in Source \X Time /\ caps \in [Worker -> [Source \X Time -> Nat]]
    BY <1>6, Pointstamps DEF TypeOK
  <2>2. caps[w][p] \in Nat /\ caps[w][c] \in Nat
    BY <1>2, <2>1
  <2> QED
    BY <1>1, <1>2, <1>3, <2>1, <2>2
<1>7. \A v \in Worker \ {w} : caps'[v] = caps[v]
  BY <1>1 DEF TypeOK
<1>8. ASSUME NEW p \in Pointstamp PROVE Held'[p] = Held[p] + d[p]
  <2>1. d[p] \in Int
    BY <1>3 DEF Batch
  <2>2. Has(w, p)' = Has(w, p) + d[p] /\ \A v \in Worker \ {w} : Has(v, p)' = Has(v, p)
    <3>1. CASE p[1] \in Source
      BY <1>6, <1>7, <3>1, SourceHas
    <3>2. CASE p[1] \in Target
      <4>1. d[p] = 0
        BY <1>2, <1>3, <3>2, GraphAssumption
      <4>2. \A v \in Worker : Has(v, p)' = Has(v, p) /\ Has(v, p) \in Nat
        BY <1>1, <3>2, SourceHas, HasType
      <4> QED
        BY <4>1, <4>2
    <3> QED
      BY <3>1, <3>2, Pointstamps
  <2> QED
    BY <2>1, <2>2, HeldChange
<1>9. /\ d[c] = -1
      /\ \A p \in Pointstamp : ~(d[p] > 0) /\ (d[p] # 0 => p = c /\ NodeOf(p[1]) = NodeOf(s))
  BY <1>2, <1>3
<1>10. \A p \in Pointstamp : d[p] < 0 => d[p] # 0
  OBVIOUS
<1>11. Operates(w, NodeOf(s), d, c)
  BY <1>1, <1>2, <1>3, <1>4, <1>5, <1>6, <1>7, <1>8, <1>9, <1>10 DEF Operates
<1> QED
  BY <1>11 DEF c

-----------------------------------------------------------------------------
(* Initial states *)

LEMMA CountsInit == Init => CountsConserved
<1> SUFFICES ASSUME Init, NEW v \in Worker, NEW p \in Pointstamp
             PROVE  Held[p] = known[v][p] +
                      SumFunction([w \in Worker |-> Sum(net[w][v])[p] + Unsent(w)[p]])
  BY DEF CountsConserved
<1>1. TypeOK
  BY TypeInit
<1>2. ASSUME NEW w \in Worker PROVE Sum(net[w][v])[p] = 0 /\ Unsent(w)[p] = 0
  <2>1. << >> \in Seq(Batch) /\ Len(<< >>) = 0
    OBVIOUS
  <2>2. Sum(<< >>) = Zero
    BY <2>1, SumAfterEnds
  <2>3. Unreported(w)[p] = 0
    <3> DEFINE f == [n \in InputNode |-> pending[w][n][p]]
    <3>1. \A n \in InputNode : f[n] = 0
      BY DEF Init, Zero
    <3>2. Unreported(w)[p] = SumOver(f, InputNode)
      BY DEF Unreported, SumOver
    <3> HIDE DEF f
    <3> QED
      BY <3>1, <3>2, SumZero, Finite
  <2>4. net[w][v] = << >> /\ local[w] = Zero
    BY DEF Init
  <2> QED
    BY <2>2, <2>3, <2>4 DEF Unsent, Plus, Zero
<1>3. SumFunction([w \in Worker |-> Sum(net[w][v])[p] + Unsent(w)[p]]) = 0
  <2> DEFINE f == [w \in Worker |-> Sum(net[w][v])[p] + Unsent(w)[p]]
  <2>1. \A w \in Worker : f[w] = 0
    BY <1>2
  <2>2. SumFunction(f) = SumOver(f, Worker)
    BY DEF SumOver
  <2> HIDE DEF f
  <2>3. SumFunction(f) = 0
    BY <2>1, <2>2, SumZero, Finite
  <2> QED
    BY <2>3 DEF f
<1>4. Held[p] = InitialCount[p] /\ InitialCount[p] \in Int
  <2> DEFINE f == [w \in Worker |-> Has(w, p)]
  <2>1. Held[p] = SumOver(f, Worker)
    BY HeldMeans
  <2>2. CASE p \in Reserving \X {Minimum}
    <3>1. p[1] \in Source /\ p \in Source \X Time
      BY <2>2, GraphAssumption
    <3>2. \A w \in Worker : f[w] = 1
      BY <2>2, <3>1 DEF Init, Has
    <3> HIDE DEF f
    <3>3. SumOver(f, Worker) = Cardinality(Worker) /\ Cardinality(Worker) \in Nat
      BY <3>2, SumOnes, Finite, FS_CardinalityType
    <3> QED
      BY <2>1, <2>2, <3>3 DEF InitialCount
  <2>3. CASE p \notin Reserving \X {Minimum}
    <3>1. \A w \in Worker : Has(w, p) = 0
      BY <2>3, Pointstamps DEF Init, Has
    <3>2. \A w \in Worker : f[w] = 0
      BY <3>1
    <3> HIDE DEF f
    <3>3. SumOver(f, Worker) = 0
      BY <3>2, SumZero, Finite
    <3> QED
      BY <2>1, <2>3, <3>3 DEF InitialCount
  <2> QED
    BY <2>2, <2>3
<1>5. known[v][p] = InitialCount[p]
  BY DEF Init
<1> QED
  BY <1>3, <1>4, <1>5

LEMMA InvariantInit == Init => IInv
<1> SUFFICES ASSUME Init PROVE IInv
  OBVIOUS
<1>1. TypeOK /\ CountsConserved
  BY TypeInit, CountsInit
<1>2. /\ \A w \in Worker, n \in InputNode, p \in Pointstamp : pending[w][n][p] = 0
      /\ \A w \in Worker, p \in Pointstamp : local[w][p] = 0
  BY DEF Init, Zero
<1>3. \A w, v \in Worker : net[w][v] = << >>
  BY DEF Init
<1>4. PendingOwned
  BY <1>2, Pointstamps DEF PendingOwned
<1>5. \A a, B : (\A p \in Pointstamp : a[p] = 0) => Backed(a, B)
  BY DEF Backed
<1>6. PendingBacked /\ LocalBacked
  BY <1>2, <1>5 DEF PendingBacked, LocalBacked
<1>7. NetBacked
  BY <1>3 DEF NetBacked
<1> QED
  BY <1>1, <1>4, <1>6, <1>7 DEF IInv

-----------------------------------------------------------------------------
(* What each worker has yet to report or send *)

LEMMA UnreportedMeans ==
  \A w : Unreported(w) = Total(pending[w]) /\ Unreported(w)' = Total(pending'[w])
BY DEF Unreported, Total

LEMMA Types ==
  TypeOK =>
    \A w \in Worker :
      /\ Unreported(w) \in Batch /\ Unsent(w) \in Batch /\ Caps(w) \in Batch
      /\ \A n \in InputNode : OwnCaps(w, n) \in Batch
      /\ \A v \in Worker, k \in Nat : After(w, v, k) \in Batch
<1> SUFFICES ASSUME TypeOK, NEW w \in Worker
             PROVE  /\ Unreported(w) \in Batch /\ Unsent(w) \in Batch /\ Caps(w) \in Batch
                    /\ \A n \in InputNode : OwnCaps(w, n) \in Batch
                    /\ \A v \in Worker, k \in Nat : After(w, v, k) \in Batch
  OBVIOUS
<1>1. Unreported(w) \in Batch
  <2>1. pending[w] \in [InputNode -> Batch]
    BY DEF TypeOK
  <2> QED
    BY <2>1, UnreportedMeans, TotalType
<1>2. Unsent(w) \in Batch
  BY <1>1, PlusType DEF Unsent, TypeOK
<1>3. Caps(w) \in Batch /\ \A n \in InputNode : OwnCaps(w, n) \in Batch
  <2>1. \A p \in Pointstamp : p[1] \in Source => caps[w][p] \in Nat
    BY Pointstamps DEF TypeOK
  <2> QED
    BY <2>1 DEF Caps, OwnCaps, Batch
<1>4. \A v \in Worker, k \in Nat : After(w, v, k) \in Batch
  BY <1>2, SumAfterType, PlusType DEF After, TypeOK
<1> QED
  BY <1>1, <1>2, <1>3, <1>4

LEMMA TypesNext ==
  TypeOK' =>
    (\A w \in Worker :
      /\ Unreported(w) \in Batch /\ Unsent(w) \in Batch /\ Caps(w) \in Batch
      /\ \A n \in InputNode : OwnCaps(w, n) \in Batch
      /\ \A v \in Worker, k \in Nat : After(w, v, k) \in Batch)'
BY Types, PTL

-----------------------------------------------------------------------------
(* Operations keep the invariant *)

LEMMA OperationChanges ==
  ASSUME TypeOK, NEW w \in Worker, NEW n, NEW d, NEW c, Operates(w, n, d, c)
  PROVE  /\ n \in InputNode =>
              /\ pending'[w][n] = Plus(pending[w][n], d)
              /\ \A m \in InputNode \ {n} : pending'[w][m] = pending[w][m]
              /\ local'[w] = local[w]
              /\ Unreported(w)' = Plus(Unreported(w), d)
         /\ n \notin InputNode =>
              /\ pending'[w] = pending[w]
              /\ local'[w] = Plus(local[w], d)
              /\ Unreported(w)' = Unreported(w)
         /\ \A p \in Pointstamp : Unsent(w)'[p] = Unsent(w)[p] + d[p]
         /\ \A v \in Worker \ {w} :
              /\ pending'[v] = pending[v] /\ local'[v] = local[v] /\ caps'[v] = caps[v]
              /\ Unreported(v)' = Unreported(v) /\ Unsent(v)' = Unsent(v)
<1>1. d \in Batch /\ Account(w, n, d) /\ \A v \in Worker \ {w} : caps'[v] = caps[v]
  BY DEF Operates
<1>2. Unreported(w) \in Batch /\ local[w] \in Batch
  BY Types DEF TypeOK
<1>3. /\ pending[w] \in [InputNode -> Batch]
      /\ pending \in [Worker -> [InputNode -> Batch]] /\ local \in [Worker -> Batch]
  BY DEF TypeOK
<1>4. ASSUME n \in InputNode
      PROVE  /\ pending'[w][n] = Plus(pending[w][n], d)
             /\ \A m \in InputNode \ {n} : pending'[w][m] = pending[w][m]
             /\ local' = local
             /\ Unreported(w)' = Plus(Unreported(w), d)
             /\ \A v \in Worker \ {w} : pending'[v] = pending[v]
  <2>1. local' = local /\ pending' = [pending EXCEPT ![w][n] = Plus(@, d)]
    BY <1>1, <1>4 DEF Account
  <2>2. pending'[w] = [pending[w] EXCEPT ![n] = Plus(@, d)]
    BY <1>3, <2>1
  <2>3. Total(pending'[w]) = Plus(Total(pending[w]), d)
    <3> DEFINE q == pending[w]
    <3>1. q \in [InputNode -> Batch] /\ pending'[w] = [q EXCEPT ![n] = Plus(@, d)]
      BY <1>3, <2>2
    <3> HIDE DEF q
    <3>2. Total([q EXCEPT ![n] = Plus(@, d)]) = Plus(Total(q), d)
      BY <1>1, <1>4, <3>1, TotalChange
    <3>3. Total(pending'[w]) = Plus(Total(q), d)
      BY <3>1, <3>2
    <3> QED
      BY <3>3 DEF q
  <2> QED
    BY <1>3, <1>4, <2>1, <2>2, <2>3, UnreportedMeans
<1>5. ASSUME n \notin InputNode
      PROVE  /\ pending' = pending
             /\ local'[w] = Plus(local[w], d)
             /\ \A v \in Worker \ {w} : local'[v] = local[v]
  <2>1. pending' = pending /\ local' = [local EXCEPT ![w] = Plus(@, d)]
    BY <1>1, <1>5 DEF Account
  <2> QED
    BY <1>3, <2>1
<1>6. ASSUME n \notin InputNode PROVE Unreported(w)' = Unreported(w)
  BY <1>5, <1>6, UnreportedMeans
<1>7. ASSUME NEW v \in Worker \ {w}
      PROVE  /\ pending'[v] = pending[v] /\ local'[v] = local[v]
             /\ Unreported(v)' = Unreported(v)
  BY <1>4, <1>5, UnreportedMeans
<1>8. ASSUME NEW v \in Worker \ {w} PROVE Unsent(v)' = Unsent(v)
  BY <1>7 DEF Unsent
<1>9. ASSUME NEW p \in Pointstamp PROVE Unsent(w)'[p] = Unsent(w)[p] + d[p]
  <2>1. /\ Unsent(w)[p] = local[w][p] + Unreported(w)[p]
        /\ Unsent(w)'[p] = local'[w][p] + Unreported(w)'[p]
    BY DEF Unsent, Plus
  <2>2. local[w][p] \in Int /\ Unreported(w)[p] \in Int /\ d[p] \in Int
    BY <1>1, <1>2 DEF Batch
  <2>3. \A a : Plus(a, d)[p] = a[p] + d[p]
    BY DEF Plus
  <2>4. CASE n \in InputNode
    <3>1. local'[w][p] = local[w][p] /\ Unreported(w)'[p] = Unreported(w)[p] + d[p]
      BY <1>4, <2>3, <2>4
    <3> QED
      BY <2>1, <2>2, <3>1
  <2>5. CASE n \notin InputNode
    <3>1. local'[w][p] = local[w][p] + d[p] /\ Unreported(w)'[p] = Unreported(w)[p]
      BY <1>5, <1>6, <2>3, <2>5
    <3> QED
      BY <2>1, <2>2, <3>1
  <2> QED
    BY <2>4, <2>5
<1> QED
  BY <1>1, <1>4, <1>5, <1>6, <1>7, <1>8, <1>9

\* What a worker has yet to tell changes by what it changes.
LEMMA OperationConserves ==
  ASSUME TypeOK, CountsConserved, NEW w \in Worker, NEW n, NEW d, NEW c,
         Operates(w, n, d, c)
  PROVE  CountsConserved'
<1> SUFFICES ASSUME NEW v \in Worker, NEW p \in Pointstamp
             PROVE  Held'[p] = known'[v][p] +
                      SumFunction([u \in Worker |-> Sum(net'[u][v])[p] + Unsent(u)'[p]])
  BY DEF CountsConserved
<1> DEFINE f == [u \in Worker |-> Sum(net[u][v])[p] + Unsent(u)[p]]
           g == [u \in Worker |-> Sum(net'[u][v])[p] + Unsent(u)'[p]]
<1>1. /\ net' = net /\ known' = known
      /\ Held'[p] = Held[p] + d[p] /\ d[p] \in Int
  BY DEF Operates, Batch
<1>2. \A u \in Worker : Sum(net[u][v])[p] \in Int /\ Unsent(u)[p] \in Int
  <2>1. \A u \in Worker : net[u][v] \in Seq(Batch) /\ Unsent(u) \in Batch
    BY Types DEF TypeOK
  <2>2. \A u \in Worker : Sum(net[u][v]) \in Batch
    BY <2>1, SumAfterEnds, SumAfterType
  <2> QED
    BY <2>1, <2>2 DEF Batch
<1>3. \A u \in Worker : f[u] \in Int
  BY <1>2
<1>4. g[w] = f[w] + d[p]
  <2>1. Unsent(w)'[p] = Unsent(w)[p] + d[p]
    BY OperationChanges
  <2> QED
    BY <1>1, <1>2, <2>1
<1>5. \A u \in Worker \ {w} : g[u] = f[u]
  BY <1>1, OperationChanges
<1>6. Held[p] = known[v][p] + SumFunction(f)
  BY DEF CountsConserved
<1>7. SumOver(f, Worker) = SumFunction(f) /\ SumOver(g, Worker) = SumFunction(g)
  BY DEF SumOver
<1>8. known[v][p] \in Int
  BY DEF TypeOK, Batch
<1> HIDE DEF f, g
<1>9. SumOver(g, Worker) = SumOver(f, Worker) + d[p] /\ SumOver(f, Worker) \in Int
  BY <1>1, <1>3, <1>4, <1>5, SumChangeOne, SumInt, Finite
<1>10. Held'[p] = known'[v][p] + SumFunction(g)
  BY <1>1, <1>6, <1>7, <1>8, <1>9
<1> QED
  BY <1>10 DEF g

\* Capabilities and what is yet to be told of them change alike.
LEMMA OperationKeeps ==
  ASSUME TypeOK, TypeOK', NEW w \in Worker, NEW n, NEW d, NEW c, Operates(w, n, d, c),
         NEW u \in Worker, NEW v \in Worker, NEW k \in Nat,
         NEW q \in Pointstamp, q[1] \in Source
  PROVE  Minus(Caps(u)', After(u, v, k)')[q] = Minus(Caps(u), After(u, v, k))[q]
<1>1. /\ Minus(Caps(u), After(u, v, k))[q]
           = caps[u][q] - (SumAfter(net[u][v], k)[q] + Unsent(u)[q])
      /\ Minus(Caps(u)', After(u, v, k)')[q]
           = caps'[u][q] - (SumAfter(net'[u][v], k)[q] + Unsent(u)'[q])
  BY DEF Minus, After, Plus, Caps
<1>2. net' = net
  BY DEF Operates
<1>3. CASE u # w
  <2>1. Unsent(u)' = Unsent(u) /\ caps'[u] = caps[u]
    BY <1>3, OperationChanges
  <2> QED
    BY <1>1, <1>2, <2>1
<1>4. CASE u = w
  <2>1. Unsent(u)'[q] = Unsent(u)[q] + d[q] /\ caps'[u][q] = caps[u][q] + d[q]
    BY <1>4, OperationChanges DEF Operates
  <2>2. /\ d[q] \in Int /\ Unsent(u)[q] \in Int /\ caps[u][q] \in Int
        /\ SumAfter(net[u][v], k)[q] \in Int
    <3>1. net[u][v] \in Seq(Batch) /\ q \in Source \X Time
      BY Pointstamps DEF TypeOK
    <3>2. SumAfter(net[u][v], k) \in Batch /\ Unsent(u) \in Batch /\ d \in Batch
      BY <3>1, SumAfterType, Types DEF Operates
    <3> QED
      BY <3>1, <3>2 DEF Batch, TypeOK
  <2> QED
    BY <1>1, <1>2, <2>1, <2>2
<1> QED
  BY <1>3, <1>4

LEMMA OperationOwned ==
  ASSUME TypeOK, PendingOwned, NEW w \in Worker, NEW n, NEW d, NEW c, Operates(w, n, d, c)
  PROVE  PendingOwned'
<1> SUFFICES ASSUME NEW v \in Worker, NEW m \in InputNode, NEW p \in Source \X Time,
                    pending'[v][m][p] # 0
             PROVE  NodeOf(p[1]) = m
  BY DEF PendingOwned
<1>1. CASE pending'[v][m] = pending[v][m]
  BY <1>1 DEF PendingOwned
<1>2. CASE pending'[v][m] # pending[v][m]
  <2>1. v = w /\ m = n
    BY <1>2, OperationChanges
  <2>2. pending'[w][n][p] = pending[w][n][p] + d[p]
    <3>1. n \in InputNode /\ p \in Pointstamp
      BY <2>1, Pointstamps
    <3>2. pending'[w][n] = Plus(pending[w][n], d)
      BY <3>1, OperationChanges
    <3> QED
      BY <3>1, <3>2 DEF Plus
  <2>3. p \in Pointstamp /\ p[1] \in Source /\ d[p] \in Int /\ pending[w][n][p] \in Int
    BY <2>1, Pointstamps DEF Operates, Batch, TypeOK
  <2>4. CASE d[p] = 0
    BY <2>1, <2>2, <2>3, <2>4 DEF PendingOwned
  <2>5. CASE d[p] # 0
    BY <2>1, <2>3, <2>5 DEF Operates
  <2> QED
    BY <2>4, <2>5
<1> QED
  BY <1>1, <1>2

LEMMA OperationPendingBacked ==
  ASSUME TypeOK, TypeOK', PendingBacked,
         NEW w \in Worker, NEW n, NEW d, NEW c, Operates(w, n, d, c)
  PROVE  PendingBacked'
<1> SUFFICES ASSUME NEW v \in Worker, NEW m \in InputNode
             PROVE  Backed(pending'[v][m], OwnCaps(v, m)')
  BY DEF PendingBacked, Backed
<1> DEFINE D == pending[v][m]
           B == OwnCaps(v, m)
           E == pending'[v][m]
           C == OwnCaps(v, m)'
<1>1. D \in Batch /\ B \in Batch /\ E \in Batch /\ C \in Batch
  BY Types, TypesNext DEF TypeOK
<1>2. Backed(D, B)
  BY DEF PendingBacked
<1>3. \A p \in Pointstamp :
        /\ B[p] = IF p[1] \in Source /\ NodeOf(p[1]) = m THEN caps[v][p] ELSE 0
        /\ C[p] = IF p[1] \in Source /\ NodeOf(p[1]) = m THEN caps'[v][p] ELSE 0
  BY DEF OwnCaps
<1>4. CASE v = w /\ m = n
  <2>1. \A p \in Pointstamp : E[p] = D[p] + d[p]
    <3>1. n \in InputNode
      BY <1>4
    <3>2. pending'[w][n] = Plus(pending[w][n], d)
      BY <3>1, OperationChanges
    <3> QED
      BY <1>4, <3>2 DEF Plus
  <2>2. /\ c \in Pointstamp
        /\ \A p \in Pointstamp :
             /\ d[p] \in Int
             /\ p[1] \in Source => caps'[w][p] = caps[w][p] + d[p]
             /\ d[p] > 0 => Before(c, p)
             /\ d[p] < 0 => p = c
        /\ \/ d[c] = -1
           \/ d[c] = 0 /\ c[1] \in Source /\ NodeOf(c[1]) = n /\ caps[w][c] > 0
    BY DEF Operates, Batch
  <2>3. ASSUME NEW p \in Pointstamp
        PROVE  \/ C[p] = B[p] + d[p]
               \/ C[p] = B[p] /\ (d[p] = 0 \/ p[1] \notin Source \/ NodeOf(p[1]) # n)
    BY <1>3, <1>4, <2>2
  <2>4. ASSUME NEW p \in Pointstamp, p[1] \in Source PROVE C[p] = B[p] + d[p]
    <3>1. d[p] # 0 => NodeOf(p[1]) = n
      BY <2>4 DEF Operates
    <3>2. B[p] \in Int /\ d[p] \in Int
      BY <1>1, <2>2 DEF Batch
    <3> HIDE DEF B, C
    <3> QED
      BY <2>3, <2>4, <3>1, <3>2
  <2>5. \A p \in Pointstamp : Before(c, p) => p # c
    BY DEF Before
  <2>6. \A p \in Pointstamp : D[p] \in Int /\ B[p] \in Int
    BY <1>1 DEF Batch
  <2>7. d[c] = 0 /\ c[1] \in Source /\ NodeOf(c[1]) = n /\ caps[w][c] > 0 => B[c] > 0
    BY <1>3, <1>4, <2>2
  <2> HIDE DEF B, C, D, E
  <2>8. \A p \in Pointstamp :
          /\ Before(c, p) => E[p] >= D[p] /\ (p[1] \in Source => C[p] >= B[p])
          /\ ~Before(c, p) /\ p # c => E[p] = D[p] /\ (p[1] \in Source => C[p] = B[p])
    BY <2>1, <2>2, <2>4, <2>5, <2>6
  <2>9. \/ E[c] = D[c] - 1
        \/ E[c] = D[c] /\ c[1] \in Source /\ B[c] > 0 /\ C[c] = B[c]
    BY <2>1, <2>2, <2>4, <2>6, <2>7
  <2>10. c \in Pointstamp
    BY <2>2
  <2>11. Backed(E, C)
    BY <1>1, <1>2, <2>8, <2>9, <2>10, BackedOperation
  <2> QED
    BY <2>11 DEF E, C
<1>5. CASE ~(v = w /\ m = n)
  <2>1. E = D
    BY <1>5, OperationChanges
  <2>2. ASSUME NEW q \in Pointstamp, q[1] \in Source PROVE C[q] = B[q]
    <3>1. CASE v # w
      BY <1>3, <3>1, OperationChanges
    <3>2. CASE v = w /\ m # n
      <4>1. NodeOf(q[1]) = m => caps'[w][q] = caps[w][q] + d[q] /\ d[q] = 0
        BY <2>2, <3>2 DEF Operates
      <4>2. caps[w][q] \in Int
        BY <2>2, Pointstamps DEF TypeOK
      <4> QED
        BY <1>3, <3>2, <4>1, <4>2
    <3> QED
      BY <1>5, <3>1, <3>2
  <2> HIDE DEF B, C, D, E
  <2>3. Backed(D, C)
    BY <1>2, <2>2, BackedMore
  <2> QED
    BY <2>1, <2>3 DEF E, C
<1> QED
  BY <1>4, <1>5

LEMMA OperationLocalBacked ==
  ASSUME TypeOK, TypeOK', PendingOwned, LocalBacked,
         NEW w \in Worker, NEW n, NEW d, NEW c, Operates(w, n, d, c)
  PROVE  LocalBacked'
<1> SUFFICES ASSUME NEW v \in Worker
             PROVE  Backed(local'[v], Minus(Caps(v)', Unreported(v)'))
  BY DEF LocalBacked, Backed, Minus
<1> DEFINE D == local[v]
           B == Minus(Caps(v), Unreported(v))
           E == local'[v]
           C == Minus(Caps(v)', Unreported(v)')
<1>1. D \in Batch /\ B \in Batch /\ E \in Batch /\ C \in Batch
  <2>1. /\ Caps(v) \in Batch /\ Unreported(v) \in Batch
        /\ Caps(v)' \in Batch /\ Unreported(v)' \in Batch
    BY Types, TypesNext
  <2> QED
    BY <2>1, PlusType DEF TypeOK
<1>2. Backed(D, B)
  BY DEF LocalBacked
<1>3. \A p \in Pointstamp :
        p[1] \in Source => /\ B[p] = caps[v][p] - Unreported(v)[p]
                           /\ C[p] = caps'[v][p] - Unreported(v)'[p]
  BY DEF Minus, Caps
<1>4. /\ c \in Pointstamp
      /\ \A p \in Pointstamp :
           /\ d[p] \in Int
           /\ p[1] \in Source => caps'[w][p] = caps[w][p] + d[p]
           /\ d[p] > 0 => Before(c, p)
           /\ d[p] < 0 => p = c
      /\ \/ d[c] = -1
         \/ d[c] = 0 /\ c[1] \in Source /\ NodeOf(c[1]) = n /\ caps[w][c] > 0
  BY DEF Operates, Batch
<1>5. \A p \in Pointstamp :
        /\ p[1] \in Source => caps[v][p] \in Int
        /\ Unreported(v)[p] \in Int /\ D[p] \in Int /\ B[p] \in Int
  <2>1. Unreported(v) \in Batch
    BY Types
  <2> QED
    BY <1>1, <2>1, Pointstamps DEF Batch, TypeOK
<1>6. CASE v # w \/ n \in InputNode
  <2>1. E = D
    BY <1>6, OperationChanges
  <2>2. ASSUME NEW q \in Pointstamp, q[1] \in Source PROVE C[q] = B[q]
    <3>1. CASE v # w
      BY <1>3, <2>2, <3>1, OperationChanges
    <3>2. CASE v = w /\ n \in InputNode
      <4>1. Unreported(v)'[q] = Unreported(v)[q] + d[q]
        <5>1. Unreported(v)' = Plus(Unreported(v), d)
          BY <3>2, OperationChanges
        <5> QED
          BY <5>1 DEF Plus
      <4>2. caps'[v][q] = caps[v][q] + d[q] /\ caps[v][q] \in Int /\ Unreported(v)[q] \in Int
        BY <1>4, <1>5, <2>2, <3>2
      <4>3. B[q] = caps[v][q] - Unreported(v)[q] /\ C[q] = caps'[v][q] - Unreported(v)'[q]
        BY <1>3, <2>2
      <4> HIDE DEF B, C
      <4> QED
        BY <1>4, <4>1, <4>2, <4>3
    <3> QED
      BY <1>6, <3>1, <3>2
  <2> HIDE DEF B, C, D, E
  <2>3. Backed(D, C)
    BY <1>2, <2>2, BackedMore
  <2> QED
    BY <2>1, <2>3 DEF E, C
<1>7. CASE v = w /\ n \notin InputNode
  <2>1. /\ \A p \in Pointstamp : E[p] = D[p] + d[p]
        /\ Unreported(v)' = Unreported(v)
    <3>1. local'[w] = Plus(local[w], d) /\ Unreported(w)' = Unreported(w)
      BY <1>7, OperationChanges
    <3> QED
      BY <1>7, <3>1 DEF Plus
  <2>2. ASSUME NEW p \in Pointstamp, p[1] \in Source PROVE C[p] = B[p] + d[p]
    <3>1. /\ B[p] = caps[v][p] - Unreported(v)[p]
          /\ C[p] = (caps[v][p] + d[p]) - Unreported(v)[p]
      BY <1>3, <1>4, <1>7, <2>1, <2>2
    <3>2. caps[v][p] \in Int /\ Unreported(v)[p] \in Int /\ d[p] \in Int
      BY <1>4, <1>5, <2>2
    <3> HIDE DEF B, C
    <3> QED
      BY <3>1, <3>2
  <2>3. ASSUME c[1] \in Source, NodeOf(c[1]) = n PROVE Unreported(v)[c] = 0
    <3> DEFINE f == [m \in InputNode |-> pending[v][m][c]]
    <3>1. c \in Source \X Time
      BY <1>4, <2>3, Pointstamps
    <3>2. \A m \in InputNode : f[m] = 0
      BY <1>7, <2>3, <3>1 DEF PendingOwned
    <3>3. Unreported(v)[c] = SumOver(f, InputNode)
      BY <1>4 DEF Unreported, SumOver
    <3> HIDE DEF f
    <3> QED
      BY <3>2, <3>3, SumZero, Finite
  <2>4. d[c] = 0 /\ c[1] \in Source /\ NodeOf(c[1]) = n /\ caps[w][c] > 0 => B[c] > 0
    <3>1. c[1] \in Source => B[c] = caps[v][c] - Unreported(v)[c] /\ caps[v][c] \in Int
      BY <1>3, <1>4, <1>5
    <3> HIDE DEF B
    <3> QED
      BY <1>7, <2>3, <3>1
  <2>5. \A p \in Pointstamp : Before(c, p) => p # c
    BY DEF Before
  <2> HIDE DEF B, C, D, E
  <2>6. \A p \in Pointstamp :
          /\ Before(c, p) => E[p] >= D[p] /\ (p[1] \in Source => C[p] >= B[p])
          /\ ~Before(c, p) /\ p # c => E[p] = D[p] /\ (p[1] \in Source => C[p] = B[p])
    BY <1>4, <1>5, <2>1, <2>2, <2>5
  <2>7. \/ E[c] = D[c] - 1
        \/ E[c] = D[c] /\ c[1] \in Source /\ B[c] > 0 /\ C[c] = B[c]
    BY <1>4, <1>5, <2>1, <2>2, <2>4
  <2>8. c \in Pointstamp
    BY <1>4
  <2>9. Backed(E, C)
    BY <1>1, <1>2, <2>6, <2>7, <2>8, BackedOperation
  <2> QED
    BY <2>9 DEF E, C
<1> QED
  BY <1>6, <1>7

LEMMA OperationNetBacked ==
  ASSUME TypeOK, TypeOK', NetBacked,
         NEW w \in Worker, NEW n, NEW d, NEW c, Operates(w, n, d, c)
  PROVE  NetBacked'
<1> SUFFICES ASSUME NEW u \in Worker, NEW v \in Worker, NEW k \in 1 .. Len(net'[u][v])
             PROVE  Backed(net'[u][v][k], Minus(Caps(u)', After(u, v, k)'))
  BY DEF NetBacked, Backed, Minus
<1>1. net' = net
  BY DEF Operates
<1> DEFINE B == Minus(Caps(u), After(u, v, k))
           C == Minus(Caps(u)', After(u, v, k)')
<1>2. Backed(net[u][v][k], B) /\ k \in Nat
  BY <1>1 DEF NetBacked
<1>3. \A q \in Pointstamp : q[1] \in Source => C[q] = B[q]
  BY <1>2, OperationKeeps
<1> HIDE DEF B, C
<1>4. Backed(net[u][v][k], C)
  BY <1>2, <1>3, BackedMore
<1> QED
  BY <1>1, <1>4 DEF C

LEMMA OperationInvariant ==
  ASSUME IInv, TypeOK', NEW w \in Worker, NEW n, NEW d, NEW c, Operates(w, n, d, c)
  PROVE  IInv'
BY OperationConserves, OperationOwned, OperationPendingBacked, OperationLocalBacked,
   OperationNetBacked
   DEF IInv

-----------------------------------------------------------------------------
(* Schedule calls keep the invariant *)

LEMMA KeptInvariant ==
  ASSUME IInv, TypeOK', UNCHANGED <<caps, queue, pending, local, net, known>>
  PROVE  IInv'
<1>1. Held' = Held /\ \A w : Unsent(w)' = Unsent(w) /\ Unreported(w)' = Unreported(w)
  BY DEF Held, Unsent, Unreported
<1>2. \A w : Caps(w)' = Caps(w) /\ \A n : OwnCaps(w, n)' = OwnCaps(w, n)
  BY DEF Caps, OwnCaps
<1>3. \A w, v, k : After(w, v, k)' = After(w, v, k)
  BY <1>1 DEF After
<1>4. CountsConserved'
  BY <1>1 DEF CountsConserved, IInv
<1>5. PendingOwned' /\ PendingBacked' /\ LocalBacked'
  BY <1>1, <1>2 DEF IInv, PendingOwned, PendingBacked, LocalBacked, Backed, Minus
<1>6. NetBacked'
  BY <1>2, <1>3 DEF IInv, NetBacked, Backed, Minus
<1> QED
  BY <1>4, <1>5, <1>6 DEF IInv

LEMMA TotalClear ==
  ASSUME NEW q \in [InputNode -> Batch], NEW n \in InputNode, NEW p \in Pointstamp
  PROVE  Total([q EXCEPT ![n] = Zero])[p] = Total(q)[p] - q[n][p]
<1> DEFINE r == [q EXCEPT ![n] = Zero]
           f == [i \in InputNode |-> q[i][p]]
           g == [i \in InputNode |-> r[i][p]]
<1>1. \A i \in InputNode : f[i] \in Int
  BY DEF Batch
<1>2. g[n] = 0 /\ f[n] = q[n][p] /\ q[n][p] \in Int
  BY DEF Batch, Zero
<1>3. \A i \in InputNode \ {n} : g[i] = f[i]
  OBVIOUS
<1>4. Total(q)[p] = SumOver(f, InputNode) /\ Total(r)[p] = SumOver(g, InputNode)
  BY DEF SumOver, Total
<1>5. -q[n][p] \in Int /\ g[n] = f[n] + (-q[n][p])
  BY <1>2
<1> HIDE DEF f, g, r
<1>6. SumOver(g, InputNode) = SumOver(f, InputNode) + (-q[n][p])
  BY <1>1, <1>3, <1>5, SumChangeOne, Finite
<1>7. SumOver(f, InputNode) \in Int
  BY <1>1, SumInt, Finite
<1>8. Total(r)[p] = Total(q)[p] - q[n][p]
  BY <1>2, <1>4, <1>6, <1>7
<1> QED
  BY <1>8 DEF r

\* An input operator reports what its handle gathered: it moves from the one account to
\* the other.
LEMMA ReportChanges ==
  ASSUME TypeOK, NEW w \in Worker, NEW n \in InputNode,
         local' = [local EXCEPT ![w] = Plus(@, pending[w][n])],
         pending' = [pending EXCEPT ![w][n] = Zero]
  PROVE  /\ local'[w] = Plus(local[w], pending[w][n])
         /\ pending'[w][n] = Zero
         /\ \A v \in Worker, m \in InputNode :
              v # w \/ m # n => pending'[v][m] = pending[v][m]
         /\ \A v \in Worker \ {w} :
              local'[v] = local[v] /\ Unreported(v)' = Unreported(v)
         /\ \A p \in Pointstamp : Unreported(w)'[p] = Unreported(w)[p] - pending[w][n][p]
         /\ \A v \in Worker, p \in Pointstamp : Unsent(v)'[p] = Unsent(v)[p]
<1>1. /\ pending \in [Worker -> [InputNode -> Batch]] /\ local \in [Worker -> Batch]
      /\ pending[w] \in [InputNode -> Batch]
  BY DEF TypeOK
<1>2. local'[w] = Plus(local[w], pending[w][n]) /\ pending'[w] = [pending[w] EXCEPT ![n] = Zero]
  BY <1>1
<1>3. pending'[w][n] = Zero /\ \A m \in InputNode \ {n} : pending'[w][m] = pending[w][m]
  BY <1>1, <1>2
<1>4. \A v \in Worker \ {w} : local'[v] = local[v] /\ pending'[v] = pending[v]
  BY <1>1
<1>5. ASSUME NEW v \in Worker \ {w} PROVE Unreported(v)' = Unreported(v)
  BY <1>4, UnreportedMeans
<1>6. ASSUME NEW p \in Pointstamp
      PROVE  Unreported(w)'[p] = Unreported(w)[p] - pending[w][n][p]
  <2> DEFINE q == pending[w]
  <2>1. q \in [InputNode -> Batch] /\ pending'[w] = [q EXCEPT ![n] = Zero]
    BY <1>1, <1>2
  <2>2. Unreported(w) = Total(q)
    BY UnreportedMeans
  <2> HIDE DEF q
  <2>3. Total([q EXCEPT ![n] = Zero])[p] = Total(q)[p] - q[n][p]
    BY <2>1, TotalClear
  <2>4. Unreported(w)'[p] = Unreported(w)[p] - q[n][p]
    BY <2>1, <2>2, <2>3, UnreportedMeans
  <2> QED
    BY <2>4 DEF q
<1>7. ASSUME NEW v \in Worker, NEW p \in Pointstamp PROVE Unsent(v)'[p] = Unsent(v)[p]
  <2>1. CASE v # w
    BY <1>4, <1>5, <2>1 DEF Unsent
  <2>2. CASE v = w
    <3>1. /\ Unsent(w)[p] = local[w][p] + Unreported(w)[p]
          /\ Unsent(w)'[p] = local'[w][p] + Unreported(w)'[p]
          /\ local'[w][p] = local[w][p] + pending[w][n][p]
      BY <1>2 DEF Unsent, Plus
    <3>2. local[w][p] \in Int /\ Unreported(w)[p] \in Int /\ pending[w][n][p] \in Int
      <4>1. local[w] \in Batch /\ Unreported(w) \in Batch /\ pending[w][n] \in Batch
        BY <1>1, Types
      <4> QED
        BY <4>1 DEF Batch
    <3> QED
      BY <1>6, <2>2, <3>1, <3>2
  <2> QED
    BY <2>1, <2>2
<1> QED
  BY <1>2, <1>3, <1>4, <1>5, <1>6, <1>7

LEMMA ReportLocalBacked ==
  ASSUME IInv, TypeOK', NEW w \in Worker, NEW n \in InputNode,
         local' = [local EXCEPT ![w] = Plus(@, pending[w][n])],
         pending' = [pending EXCEPT ![w][n] = Zero],
         caps' = caps
  PROVE  LocalBacked'
<1> USE DEF IInv
<1> SUFFICES ASSUME NEW v \in Worker
             PROVE  Backed(local'[v], Minus(Caps(v)', Unreported(v)'))
  BY DEF LocalBacked, Backed, Minus
<1>1. CASE v # w
  <2>1. local'[v] = local[v] /\ Unreported(v)' = Unreported(v) /\ Caps(v)' = Caps(v)
    BY <1>1, ReportChanges DEF Caps
  <2> QED
    BY <2>1 DEF LocalBacked
<1>2. CASE v = w
  <2> DEFINE D == local[w]
             E == pending[w][n]
             F == local'[w]
             B == Minus(Caps(w), Unreported(w))
             C == OwnCaps(w, n)
             H == Minus(Caps(w)', Unreported(w)')
  <2>1. D \in Batch /\ E \in Batch /\ F \in Batch /\ B \in Batch /\ C \in Batch /\ H \in Batch
    <3>1. /\ Caps(w) \in Batch /\ Unreported(w) \in Batch
          /\ Caps(w)' \in Batch /\ Unreported(w)' \in Batch
          /\ OwnCaps(w, n) \in Batch
      BY Types, TypesNext
    <3> QED
      BY <3>1, PlusType DEF TypeOK
  <2>2. Backed(D, B) /\ Backed(E, C)
    BY DEF LocalBacked, PendingBacked
  <2>3. \A p \in Pointstamp : F[p] = D[p] + E[p]
    <3>1. local'[w] = Plus(local[w], pending[w][n])
      BY ReportChanges
    <3> QED
      BY <3>1 DEF Plus
  <2>4. ASSUME NEW q \in Pointstamp, q[1] \in Source, D[q] = 0, E[q] = 0,
               B[q] > 0 \/ C[q] > 0
        PROVE  H[q] > 0
    <3>1. Unreported(w)'[q] = Unreported(w)[q] - pending[w][n][q]
      BY ReportChanges
    <3>2. /\ Unreported(w)[q] \in Int /\ caps[w][q] \in Int
          /\ q \in Source \X Time
      <4>1. Unreported(w) \in Batch
        BY Types
      <4> QED
        BY <2>4, <4>1, Pointstamps DEF Batch, TypeOK
    <3>3. /\ B[q] = caps[w][q] - Unreported(w)[q]
          /\ H[q] = caps[w][q] - Unreported(w)'[q]
          /\ C[q] = IF NodeOf(q[1]) = n THEN caps[w][q] ELSE 0
      BY <2>4 DEF Minus, Caps, OwnCaps
    <3>4. H[q] = B[q]
      <4> HIDE DEF B, H
      <4> QED
        BY <2>4, <3>1, <3>2, <3>3
    <3>5. CASE B[q] > 0
      <4> HIDE DEF B, H
      <4> QED
        BY <3>4, <3>5
    <3>6. CASE C[q] > 0
      <4>1. NodeOf(q[1]) = n /\ caps[w][q] > 0
        <5> HIDE DEF C
        <5> QED
          BY <3>3, <3>6
      <4>2. Unreported(w)[q] = 0
        <5> DEFINE f == [m \in InputNode |-> pending[w][m][q]]
        <5>1. \A m \in InputNode : f[m] = 0
          BY <2>4, <3>2, <4>1 DEF PendingOwned
        <5>2. Unreported(w)[q] = SumOver(f, InputNode)
          BY DEF Unreported, SumOver
        <5> HIDE DEF f
        <5> QED
          BY <5>1, <5>2, SumZero, Finite
      <4> HIDE DEF B, H
      <4> QED
        BY <3>2, <3>3, <3>4, <4>1, <4>2
    <3> QED
      BY <2>4, <3>5, <3>6
  <2> HIDE DEF B, C, D, E, F, H
  <2>5. Backed(F, H)
    BY <2>1, <2>2, <2>3, <2>4, BackedBoth
  <2> QED
    BY <1>2, <2>5 DEF F, H
<1> QED
  BY <1>1, <1>2

LEMMA ReportInvariant ==
  ASSUME IInv, TypeOK', NEW w \in Worker, NEW n \in InputNode,
         local' = [local EXCEPT ![w] = Plus(@, pending[w][n])],
         pending' = [pending EXCEPT ![w][n] = Zero],
         UNCHANGED <<caps, queue, net, known>>
  PROVE  IInv'
<1> USE DEF IInv
<1>1. \A v \in Worker, p \in Pointstamp : Unsent(v)'[p] = Unsent(v)[p]
  BY ReportChanges
<1>2. CountsConserved'
  <2> SUFFICES ASSUME NEW v \in Worker, NEW p \in Pointstamp
               PROVE  Held'[p] = known'[v][p] +
                        SumFunction([u \in Worker |-> Sum(net'[u][v])[p] + Unsent(u)'[p]])
    BY DEF CountsConserved
  <2>1. Held' = Held
    BY DEF Held
  <2>2. [u \in Worker |-> Sum(net'[u][v])[p] + Unsent(u)'[p]]
          = [u \in Worker |-> Sum(net[u][v])[p] + Unsent(u)[p]]
    BY <1>1
  <2>3. Held[p] = known[v][p] +
          SumFunction([u \in Worker |-> Sum(net[u][v])[p] + Unsent(u)[p]])
    BY DEF CountsConserved
  <2> QED
    BY <2>1, <2>2, <2>3
<1>3. PendingOwned'
  <2> SUFFICES ASSUME NEW v \in Worker, NEW m \in InputNode, NEW p \in Source \X Time,
                      pending'[v][m][p] # 0
               PROVE  NodeOf(p[1]) = m
    BY DEF PendingOwned
  <2>1. \A x \in Pointstamp : Zero[x] = 0
    BY DEF Zero
  <2>2. pending'[v][m] = pending[v][m]
    BY <2>1, ReportChanges, Pointstamps
  <2> QED
    BY <2>2 DEF PendingOwned
<1>4. PendingBacked'
  <2> SUFFICES ASSUME NEW v \in Worker, NEW m \in InputNode
               PROVE  Backed(pending'[v][m], OwnCaps(v, m)')
    BY DEF PendingBacked, Backed
  <2>1. OwnCaps(v, m)' = OwnCaps(v, m)
    BY DEF OwnCaps
  <2>2. Backed(pending[v][m], OwnCaps(v, m)) /\ Backed(Zero, OwnCaps(v, m))
    BY DEF PendingBacked, Backed, Zero
  <2>3. pending'[v][m] = pending[v][m] \/ pending'[v][m] = Zero
    BY ReportChanges
  <2> QED
    BY <2>1, <2>2, <2>3
<1>5. LocalBacked'
  BY ReportLocalBacked
<1>6. NetBacked'
  <2> SUFFICES ASSUME NEW u \in Worker, NEW v \in Worker, NEW k \in 1 .. Len(net'[u][v])
               PROVE  Backed(net'[u][v][k], Minus(Caps(u)', After(u, v, k)'))
    BY DEF NetBacked, Backed, Minus
  <2>1. Minus(Caps(u)', After(u, v, k)') = Minus(Caps(u), After(u, v, k))
    <3>1. Caps(u)' = Caps(u)
      BY DEF Caps
    <3>2. \A q \in Pointstamp : After(u, v, k)'[q] = After(u, v, k)[q]
      BY <1>1 DEF After, Plus
    <3> QED
      BY <3>1, <3>2 DEF Minus
  <2> QED
    BY <2>1 DEF NetBacked
<1> QED
  BY <1>2, <1>3, <1>4, <1>5, <1>6

LEMMA ActivateInvariant ==
  ASSUME IInv, TypeOK', NEW w \in Worker, NEW n \in Node, ActivateChild(w, n)
  PROVE  IInv'
<1>1. CASE n \in InputNode
  BY <1>1, ReportInvariant DEF ActivateChild
<1>2. CASE n \notin InputNode
  BY <1>2, KeptInvariant DEF ActivateChild
<1> QED
  BY <1>1, <1>2

\* A batch leaves: what it says moves from what is yet to be sent to what is on its way.
LEMMA SendChanges ==
  ASSUME TypeOK, NEW w \in Worker,
         net' = [net EXCEPT ![w] = [v \in Worker |-> Append(@[v], local[w])]],
         local' = [local EXCEPT ![w] = Zero],
         pending' = pending
  PROVE  /\ local'[w] = Zero
         /\ \A v \in Worker : net'[w][v] = Append(net[w][v], local[w])
         /\ \A u \in Worker : Unreported(u)' = Unreported(u)
         /\ \A u \in Worker \ {w} :
              net'[u] = net[u] /\ local'[u] = local[u] /\ Unsent(u)' = Unsent(u)
         /\ \A v \in Worker, k \in Nat, p \in Pointstamp :
              k <= Len(net[w][v]) => After(w, v, k)'[p] = After(w, v, k)[p]
         /\ \A v \in Worker, k \in Nat, p \in Pointstamp :
              k = Len(net[w][v]) + 1 => After(w, v, k)'[p] = Unreported(w)[p]
<1>1. local'[w] = Zero /\ \A u \in Worker \ {w} : net'[u] = net[u] /\ local'[u] = local[u]
  BY DEF TypeOK
<1>2. \A v \in Worker : net'[w][v] = Append(net[w][v], local[w])
  BY DEF TypeOK
<1>3. \A u \in Worker : Unreported(u)' = Unreported(u)
  BY DEF Unreported
<1>4. \A u \in Worker \ {w} : Unsent(u)' = Unsent(u)
  BY <1>1, <1>3 DEF Unsent
<1>5. local[w] \in Batch /\ Unreported(w) \in Batch /\ \A v \in Worker : net[w][v] \in Seq(Batch)
  BY Types DEF TypeOK
<1>6. ASSUME NEW p \in Pointstamp
      PROVE  Unsent(w)'[p] = Unreported(w)[p] /\ Unsent(w)[p] = local[w][p] + Unreported(w)[p]
  <2>1. Unsent(w)'[p] = local'[w][p] + Unreported(w)'[p]
    BY DEF Unsent, Plus
  <2>2. Zero[p] = 0 /\ Unreported(w)[p] \in Int
    BY <1>5 DEF Zero, Batch
  <2> QED
    BY <1>1, <1>3, <2>1, <2>2 DEF Unsent, Plus
<1>7. ASSUME NEW v \in Worker, NEW k \in Nat, NEW p \in Pointstamp, k <= Len(net[w][v])
      PROVE  After(w, v, k)'[p] = After(w, v, k)[p]
  <2>1. /\ After(w, v, k)'[p] = SumAfter(net'[w][v], k)[p] + Unsent(w)'[p]
        /\ After(w, v, k)[p] = SumAfter(net[w][v], k)[p] + Unsent(w)[p]
    BY DEF After, Plus
  <2>2. SumAfter(net'[w][v], k) = Plus(SumAfter(net[w][v], k), local[w])
    BY <1>2, <1>5, <1>7, SumAfterAppend
  <2>3. SumAfter(net'[w][v], k)[p] = SumAfter(net[w][v], k)[p] + local[w][p]
    BY <2>2 DEF Plus
  <2>4. SumAfter(net[w][v], k)[p] \in Int /\ local[w][p] \in Int /\ Unreported(w)[p] \in Int
    <3>1. SumAfter(net[w][v], k) \in Batch
      BY <1>5, SumAfterType
    <3> QED
      BY <1>5, <3>1 DEF Batch
  <2> QED
    BY <1>6, <2>1, <2>3, <2>4
<1>8. ASSUME NEW v \in Worker, NEW k \in Nat, NEW p \in Pointstamp, k = Len(net[w][v]) + 1
      PROVE  After(w, v, k)'[p] = Unreported(w)[p]
  <2>1. net'[w][v] \in Seq(Batch) /\ Len(net'[w][v]) = k
    BY <1>2, <1>5, <1>8
  <2>2. SumAfter(net'[w][v], k) = Zero
    BY <2>1, SumAfterEnds
  <2>3. After(w, v, k)'[p] = SumAfter(net'[w][v], k)[p] + Unsent(w)'[p]
    BY DEF After, Plus
  <2>4. Zero[p] = 0 /\ Unreported(w)[p] \in Int
    BY <1>5 DEF Zero, Batch
  <2> QED
    BY <1>6, <2>2, <2>3, <2>4
<1> QED
  BY <1>1, <1>2, <1>3, <1>4, <1>7, <1>8

LEMMA SendInvariant ==
  ASSUME IInv, TypeOK', NEW w \in Worker,
         net' = [net EXCEPT ![w] = [v \in Worker |-> Append(@[v], local[w])]],
         local' = [local EXCEPT ![w] = Zero],
         UNCHANGED <<caps, queue, pending, known>>
  PROVE  IInv'
<1> USE DEF IInv
<1>1. \A u \in Worker : Caps(u)' = Caps(u) /\ \A m : OwnCaps(u, m)' = OwnCaps(u, m)
  BY DEF Caps, OwnCaps
<1>2. \A v \in Worker, k \in Nat, p \in Pointstamp :
        k <= Len(net[w][v]) => After(w, v, k)'[p] = After(w, v, k)[p]
  BY SendChanges
<1>3. \A v \in Worker, k \in Nat, p \in Pointstamp :
        k = Len(net[w][v]) + 1 => After(w, v, k)'[p] = Unreported(w)[p]
  BY SendChanges
<1>4. \A v \in Worker : /\ net[w][v] \in Seq(Batch) /\ Len(net[w][v]) \in Nat
                        /\ net'[w][v] = Append(net[w][v], local[w])
  <2>1. \A v \in Worker : net'[w][v] = Append(net[w][v], local[w])
    BY SendChanges
  <2>2. \A v \in Worker : net[w][v] \in Seq(Batch)
    BY DEF TypeOK
  <2> QED
    BY <2>1, <2>2
<1>5. CountsConserved'
  <2> SUFFICES ASSUME NEW v \in Worker, NEW p \in Pointstamp
               PROVE  Held'[p] = known'[v][p] +
                        SumFunction([u \in Worker |-> Sum(net'[u][v])[p] + Unsent(u)'[p]])
    BY DEF CountsConserved
  <2>1. \A u \in Worker \ {w} : net'[u] = net[u] /\ Unsent(u)' = Unsent(u)
    BY SendChanges
  <2>2. Held' = Held
    BY DEF Held
  <2>3. ASSUME NEW u \in Worker
        PROVE  Sum(net'[u][v])[p] + Unsent(u)'[p] = Sum(net[u][v])[p] + Unsent(u)[p]
    <3>1. CASE u # w
      BY <2>1, <3>1
    <3>2. CASE u = w
      <4>1. net[w][v] \in Seq(Batch) /\ net'[w][v] \in Seq(Batch)
        BY DEF TypeOK
      <4>2. After(w, v, 0)'[p] = After(w, v, 0)[p]
        BY <1>2, <1>4
      <4>3. /\ After(w, v, 0)'[p] = SumAfter(net'[w][v], 0)[p] + Unsent(w)'[p]
            /\ After(w, v, 0)[p] = SumAfter(net[w][v], 0)[p] + Unsent(w)[p]
        BY DEF After, Plus
      <4> QED
        BY <3>2, <4>1, <4>2, <4>3, SumAfterEnds
    <3> QED
      BY <3>1, <3>2
  <2>4. [u \in Worker |-> Sum(net'[u][v])[p] + Unsent(u)'[p]]
          = [u \in Worker |-> Sum(net[u][v])[p] + Unsent(u)[p]]
    BY <2>3
  <2>5. Held[p] = known[v][p] +
          SumFunction([u \in Worker |-> Sum(net[u][v])[p] + Unsent(u)[p]])
    BY DEF CountsConserved
  <2> QED
    BY <2>2, <2>4, <2>5
<1>6. PendingOwned' /\ PendingBacked'
  BY <1>1 DEF PendingOwned, PendingBacked
<1>7. LocalBacked'
  <2> SUFFICES ASSUME NEW u \in Worker
               PROVE  Backed(local'[u], Minus(Caps(u)', Unreported(u)'))
    BY DEF LocalBacked, Backed, Minus
  <2>1. Backed(Zero, Minus(Caps(u), Unreported(u)))
    BY DEF Backed, Zero
  <2>2. local'[u] = local[u] \/ local'[u] = Zero
    BY SendChanges
  <2>3. Unreported(u)' = Unreported(u)
    BY SendChanges
  <2> QED
    BY <1>1, <2>1, <2>2, <2>3 DEF LocalBacked
<1>8. NetBacked'
  <2> SUFFICES ASSUME NEW u \in Worker, NEW v \in Worker, NEW k \in 1 .. Len(net'[u][v])
               PROVE  Backed(net'[u][v][k], Minus(Caps(u)', After(u, v, k)'))
    BY DEF NetBacked, Backed, Minus
  <2>1. CASE u # w
    <3>1. net'[u] = net[u] /\ Unsent(u)' = Unsent(u)
      BY <2>1, SendChanges
    <3>2. After(u, v, k)' = After(u, v, k)
      BY <3>1 DEF After
    <3> QED
      BY <1>1, <3>1, <3>2 DEF NetBacked
  <2>2. CASE u = w
    <3>1. /\ net[w][v] \in Seq(Batch) /\ net'[w][v] = Append(net[w][v], local[w])
          /\ Len(net[w][v]) \in Nat
      BY <1>4
    <3>2. k \in Nat /\ (k \in 1 .. Len(net[w][v]) \/ k = Len(net[w][v]) + 1)
      BY <2>2, <3>1
    <3>3. CASE k \in 1 .. Len(net[w][v])
      <4>1. \A q \in Pointstamp : After(w, v, k)'[q] = After(w, v, k)[q]
        BY <1>2, <3>2, <3>3
      <4>2. Minus(Caps(w)', After(w, v, k)') = Minus(Caps(w), After(w, v, k))
        BY <1>1, <4>1 DEF Minus
      <4>3. net'[w][v][k] = net[w][v][k]
        BY <3>1, <3>3
      <4>4. Backed(net[w][v][k], Minus(Caps(w), After(w, v, k)))
        BY <3>3 DEF NetBacked
      <4> QED
        BY <2>2, <4>2, <4>3, <4>4
    <3>4. CASE k = Len(net[w][v]) + 1
      <4>1. \A q \in Pointstamp : After(w, v, k)'[q] = Unreported(w)[q]
        BY <1>3, <3>2, <3>4
      <4>2. Minus(Caps(w)', After(w, v, k)') = Minus(Caps(w), Unreported(w))
        BY <1>1, <4>1 DEF Minus
      <4>3. net'[w][v][k] = local[w]
        BY <3>1, <3>4
      <4> QED
        BY <2>2, <4>2, <4>3 DEF LocalBacked
    <3> QED
      BY <3>2, <3>3, <3>4
  <2> QED
    BY <2>1, <2>2
<1> QED
  BY <1>5, <1>6, <1>7, <1>8

LEMMA EndInvariant ==
  ASSUME IInv, TypeOK', NEW w \in Worker, EndSchedule(w)
  PROVE  IInv'
<1>1. UNCHANGED <<caps, queue, pending, known>>
  BY DEF EndSchedule
<1>2. CASE MustSend(w) /\ local[w] # Zero
  <2>1. /\ net' = [net EXCEPT ![w] = [v \in Worker |-> Append(@[v], local[w])]]
        /\ local' = [local EXCEPT ![w] = Zero]
    BY <1>2 DEF EndSchedule, SendProgress, Broadcast
  <2> QED
    BY <1>1, <2>1, SendInvariant
<1>3. CASE ~(MustSend(w) /\ local[w] # Zero)
  <2>1. net' = net /\ local' = local
    BY <1>3 DEF EndSchedule, SendProgress, Broadcast, IInv, TypeOK
  <2> QED
    BY <1>1, <2>1, KeptInvariant
<1> QED
  BY <1>2, <1>3

\* Batches arrive: those taken move from what is on its way to what the tracker knows.
LEMMA BeginChanges ==
  ASSUME TypeOK, NEW w \in Worker, NEW take \in Takes(w), BeginSchedule(w, take)
  PROVE  /\ \A u \in Worker, v \in Worker \ {w} : net'[u][v] = net[u][v]
         /\ \A u \in Worker :
              /\ take[u] \in Nat /\ net[u][w] \in Seq(Batch) /\ net'[u][w] \in Seq(Batch)
              /\ take[u] <= Len(net[u][w]) /\ Len(net'[u][w]) = Len(net[u][w]) - take[u]
              /\ \A k \in 1 .. Len(net'[u][w]) : net'[u][w][k] = net[u][w][take[u] + k]
         /\ \A u \in Worker : \A k \in 0 .. Len(net'[u][w]) :
              SumAfter(net'[u][w], k) = SumAfter(net[u][w], take[u] + k)
         /\ \A u \in Worker :
              Sum(net[u][w]) = Plus(Sum(SubSeq(net[u][w], 1, take[u])), Sum(net'[u][w]))
<1>1. net' = [v \in Worker |-> [net[v] EXCEPT ![w] = SubSeq(@, take[v] + 1, Len(@))]]
  BY DEF BeginSchedule
<1>2. ASSUME NEW u \in Worker
      PROVE  /\ take[u] \in 0 .. Len(net[u][w])
             /\ net[u][w] \in Seq(Batch) /\ Len(net[u][w]) \in Nat
             /\ net'[u][w] = SubSeq(net[u][w], take[u] + 1, Len(net[u][w]))
             /\ \A v \in Worker \ {w} : net'[u][v] = net[u][v]
  <2>1. take[u] \in 0 .. Len(net[u][w])
    BY TakeType
  <2>2. net[u] \in [Worker -> Seq(Batch)]
    BY DEF TypeOK
  <2>3. net[u][w] \in Seq(Batch) /\ Len(net[u][w]) \in Nat
    BY <2>2
  <2>4. net'[u] = [net[u] EXCEPT ![w] = SubSeq(@, take[u] + 1, Len(@))]
    BY <1>1
  <2>5. /\ net'[u][w] = SubSeq(net[u][w], take[u] + 1, Len(net[u][w]))
        /\ \A v \in Worker \ {w} : net'[u][v] = net[u][v]
    BY <2>2, <2>4
  <2> QED
    BY <2>1, <2>3, <2>5
<1>3. ASSUME NEW u \in Worker
      PROVE  /\ take[u] \in Nat /\ net'[u][w] \in Seq(Batch)
             /\ take[u] <= Len(net[u][w]) /\ Len(net'[u][w]) = Len(net[u][w]) - take[u]
             /\ \A k \in 1 .. Len(net'[u][w]) : net'[u][w][k] = net[u][w][take[u] + k]
  <2> DEFINE s == net[u][w]
             n == take[u]
  <2>1. s \in Seq(Batch) /\ n \in 0 .. Len(s) /\ net'[u][w] = SubSeq(s, n + 1, Len(s))
    BY <1>2
  <2> HIDE DEF s, n
  <2>2. /\ n \in Nat /\ n <= Len(s)
        /\ SubSeq(s, n + 1, Len(s)) \in Seq(Batch)
        /\ Len(SubSeq(s, n + 1, Len(s))) = Len(s) - n
        /\ \A k \in 1 .. Len(s) - n : SubSeq(s, n + 1, Len(s))[k] = s[n + k]
    BY <2>1
  <2>3. /\ n \in Nat /\ net'[u][w] \in Seq(Batch)
        /\ n <= Len(s) /\ Len(net'[u][w]) = Len(s) - n
        /\ \A k \in 1 .. Len(net'[u][w]) : net'[u][w][k] = s[n + k]
    BY <2>1, <2>2
  <2> QED
    BY <2>3 DEF s, n
<1>4. ASSUME NEW u \in Worker
      PROVE  /\ \A k \in 0 .. Len(net'[u][w]) :
                  SumAfter(net'[u][w], k) = SumAfter(net[u][w], take[u] + k)
             /\ Sum(net[u][w]) = Plus(Sum(SubSeq(net[u][w], 1, take[u])), Sum(net'[u][w]))
  <2> DEFINE s == net[u][w]
             n == take[u]
             t == net'[u][w]
  <2>1. /\ s \in Seq(Batch) /\ n \in 0 .. Len(s) /\ t = SubSeq(s, n + 1, Len(s))
        /\ t \in Seq(Batch) /\ Len(t) = Len(s) - n
    BY <1>2, <1>3
  <2> HIDE DEF s, n, t
  <2>2. \A j \in 0 .. Len(s) - n : SumAfter(t, j) = SumAfter(s, n + j)
    BY <2>1, SumAfterTake
  <2>3. Sum(s) = Plus(Sum(SubSeq(s, 1, n)), SumAfter(s, n))
    BY <2>1, SumAfterTake
  <2>4. SumAfter(s, n) = Sum(t)
    <3>1. 0 \in 0 .. Len(s) - n /\ n + 0 = n
      BY <2>1
    <3>2. SumAfter(t, 0) = SumAfter(s, n)
      BY <2>2, <3>1
    <3> QED
      BY <2>1, <3>2, SumAfterEnds
  <2>5. /\ \A k \in 0 .. Len(t) : SumAfter(t, k) = SumAfter(s, n + k)
        /\ Sum(s) = Plus(Sum(SubSeq(s, 1, n)), Sum(t))
    BY <2>1, <2>2, <2>3, <2>4
  <2> QED
    BY <2>5 DEF s, n, t
<1> QED
  BY <1>2, <1>3, <1>4

LEMMA BeginConserves ==
  ASSUME TypeOK, CountsConserved, NEW w \in Worker, NEW take \in Takes(w),
         BeginSchedule(w, take)
  PROVE  CountsConserved'
<1> SUFFICES ASSUME NEW v \in Worker, NEW p \in Pointstamp
             PROVE  Held'[p] = known'[v][p] +
                      SumFunction([u \in Worker |-> Sum(net'[u][v])[p] + Unsent(u)'[p]])
  BY DEF CountsConserved
<1>1. Held' = Held /\ \A u \in Worker : Unsent(u)' = Unsent(u)
  BY DEF Held, Unsent, Unreported, BeginSchedule
<1>2. Held[p] = known[v][p] +
        SumFunction([u \in Worker |-> Sum(net[u][v])[p] + Unsent(u)[p]])
  BY DEF CountsConserved
<1>3. CASE v # w
  <2>1. known'[v] = known[v]
    BY <1>3 DEF BeginSchedule, TypeOK
  <2>2. \A u \in Worker : net'[u][v] = net[u][v]
    BY <1>3, BeginChanges
  <2>3. [u \in Worker |-> Sum(net'[u][v])[p] + Unsent(u)'[p]]
          = [u \in Worker |-> Sum(net[u][v])[p] + Unsent(u)[p]]
    BY <1>1, <2>2
  <2> QED
    BY <1>1, <1>2, <2>1, <2>3
<1>4. CASE v = w
  <2> DEFINE seen(u) == SubSeq(net[u][w], 1, take[u])
             f == [u \in Worker |-> Sum(net[u][w])[p] + Unsent(u)[p]]
             g == [u \in Worker |-> Sum(net'[u][w])[p] + Unsent(u)'[p]]
             h == [u \in Worker |-> Sum(seen(u))[p]]
  <2>1. known'[w][p] = known[w][p] + SumFunction(h)
    BY DEF BeginSchedule, TypeOK
  <2>2. ASSUME NEW u \in Worker PROVE f[u] = h[u] + g[u] /\ h[u] \in Int /\ g[u] \in Int
    <3>1. Sum(net[u][w]) = Plus(Sum(seen(u)), Sum(net'[u][w]))
      BY BeginChanges
    <3>2. Sum(net[u][w])[p] = Sum(seen(u))[p] + Sum(net'[u][w])[p]
      BY <3>1 DEF Plus
    <3>3. seen(u) \in Seq(Batch) /\ net'[u][w] \in Seq(Batch)
      <4>1. net[u][w] \in Seq(Batch) /\ take[u] \in Nat /\ take[u] <= Len(net[u][w])
        BY BeginChanges
      <4> QED
        BY <4>1, BeginChanges
    <3> HIDE DEF seen
    <3>4. Sum(seen(u)) \in Batch /\ Sum(net'[u][w]) \in Batch /\ Unsent(u) \in Batch
      <4>1. \A s \in Seq(Batch) : Sum(s) \in Batch
        BY SumAfterEnds, SumAfterType
      <4> QED
        BY <3>3, <4>1, Types
    <3>5. Sum(seen(u))[p] \in Int /\ Sum(net'[u][w])[p] \in Int /\ Unsent(u)[p] \in Int
      BY <3>4 DEF Batch
    <3>6. Unsent(u)'[p] = Unsent(u)[p]
      BY <1>1
    <3> QED
      BY <3>2, <3>5, <3>6
  <2>3. Held[p] = known[w][p] + SumFunction(f) /\ known[w][p] \in Int
    BY <1>2, <1>4 DEF TypeOK, Batch
  <2>4. /\ SumFunction(f) = SumOver(f, Worker) /\ SumFunction(g) = SumOver(g, Worker)
        /\ SumFunction(h) = SumOver(h, Worker)
    BY DEF SumOver
  <2> HIDE DEF f, g, h
  <2>5. SumOver(f, Worker) = SumOver(h, Worker) + SumOver(g, Worker)
    BY <2>2, SumPlus, Finite
  <2>6. SumOver(h, Worker) \in Int /\ SumOver(g, Worker) \in Int
    BY <2>2, SumInt, Finite
  <2>7. Held'[p] = known'[w][p] + SumFunction(g)
    BY <1>1, <2>1, <2>3, <2>4, <2>5, <2>6
  <2> QED
    BY <1>4, <2>7 DEF g
<1> QED
  BY <1>3, <1>4

LEMMA BeginInvariant ==
  ASSUME IInv, TypeOK', NEW w \in Worker, NEW take \in Takes(w), BeginSchedule(w, take)
  PROVE  IInv'
<1> USE DEF IInv
<1>1. UNCHANGED <<caps, pending, local>>
  BY DEF BeginSchedule
<1>2. \A u : /\ Unsent(u)' = Unsent(u) /\ Unreported(u)' = Unreported(u) /\ Caps(u)' = Caps(u)
             /\ \A m : OwnCaps(u, m)' = OwnCaps(u, m)
  BY <1>1 DEF Unsent, Unreported, Caps, OwnCaps
<1>3. CountsConserved'
  BY BeginConserves
<1>4. PendingOwned' /\ PendingBacked' /\ LocalBacked'
  BY <1>1, <1>2 DEF PendingOwned, PendingBacked, LocalBacked, Backed, Minus
<1>5. NetBacked'
  <2> SUFFICES ASSUME NEW u \in Worker, NEW v \in Worker, NEW k \in 1 .. Len(net'[u][v])
               PROVE  Backed(net'[u][v][k], Minus(Caps(u)', After(u, v, k)'))
    BY DEF NetBacked, Backed, Minus
  <2>1. CASE v # w
    <3>1. net'[u][v] = net[u][v]
      BY <2>1, BeginChanges
    <3>2. After(u, v, k)' = After(u, v, k)
      BY <1>2, <3>1 DEF After
    <3> QED
      BY <1>2, <3>1, <3>2 DEF NetBacked
  <2>2. CASE v = w
    <3> DEFINE j == take[u] + k
    <3>1. /\ take[u] \in Nat /\ net[u][w] \in Seq(Batch) /\ net'[u][w] \in Seq(Batch)
          /\ take[u] <= Len(net[u][w]) /\ Len(net'[u][w]) = Len(net[u][w]) - take[u]
      BY BeginChanges
    <3>2. net'[u][w][k] = net[u][w][j] /\ SumAfter(net'[u][w], k) = SumAfter(net[u][w], j)
      <4>1. k \in 1 .. Len(net'[u][w]) /\ k \in 0 .. Len(net'[u][w])
        BY <2>2, <3>1
      <4> QED
        BY <4>1, BeginChanges
    <3>3. j \in 1 .. Len(net[u][w])
      BY <2>2, <3>1
    <3> HIDE DEF j
    <3>4. After(u, w, k)' = After(u, w, j)
      BY <1>2, <3>2 DEF After
    <3>5. Backed(net[u][w][j], Minus(Caps(u), After(u, w, j)))
      BY <3>3 DEF NetBacked
    <3> QED
      BY <1>2, <2>2, <3>2, <3>4, <3>5
  <2> QED
    BY <2>1, <2>2
<1> QED
  BY <1>3, <1>4, <1>5

LEMMA InvariantNext ==
  ASSUME IInv, [Next]_vars
  PROVE  IInv'
<1>1. TypeOK'
  BY TypeNext DEF IInv
<1>2. CASE UNCHANGED vars
  BY <1>1, <1>2, KeptInvariant DEF vars
<1>3. ASSUME NEW w \in Worker, NEW s \in Source, NEW t \in Time, SendRecord(w, s, t)
      PROVE  IInv'
  <2>1. PICK d : Operates(w, NodeOf(s), d, <<s, t>>)
    BY <1>3, SendOperates DEF IInv
  <2> QED
    BY <1>1, <2>1, OperationInvariant
<1>4. ASSUME NEW w \in Worker, NEW s \in Source, NEW t \in Time, Drop(w, s, t)
      PROVE  IInv'
  <2>1. PICK d : Operates(w, NodeOf(s), d, <<s, t>>)
    BY <1>4, DropOperates DEF IInv
  <2> QED
    BY <1>1, <2>1, OperationInvariant
<1>5. ASSUME NEW w \in Worker, NEW s \in Source, NEW t \in Time, NEW later \in Time,
             Downgrade(w, s, t, later)
      PROVE  IInv'
  <2>1. PICK d : Operates(w, NodeOf(s), d, <<s, t>>)
    BY <1>5, DowngradeOperates DEF IInv
  <2> QED
    BY <1>1, <2>1, OperationInvariant
<1>6. ASSUME NEW w \in Worker, NEW g \in Target, NEW t \in Time, ReceiveRecord(w, g, t)
      PROVE  IInv'
  <2>1. PICK d : Operates(w, NodeOf(g), d, <<g, t>>)
    BY <1>6, ReceiveOperates DEF IInv
  <2> QED
    BY <1>1, <2>1, OperationInvariant
<1>7. ASSUME NEW w \in Worker, NEW take \in Takes(w), BeginSchedule(w, take) PROVE IInv'
  BY <1>1, <1>7, BeginInvariant
<1>8. ASSUME NEW w \in Worker, NEW n \in Node, ActivateChild(w, n) PROVE IInv'
  BY <1>1, <1>8, ActivateInvariant
<1>9. ASSUME NEW w \in Worker, EndSchedule(w) PROVE IInv'
  BY <1>1, <1>9, EndInvariant
<1> QED
  BY <1>2, <1>3, <1>4, <1>5, <1>6, <1>7, <1>8, <1>9 DEF Next

\* The inductive invariant: every count is told once (CountsConserved), and whatever a
\* batch, a worker's local changes or an input handle's pending ones add is backed by
\* something earlier that they take away or their worker holds.
THEOREM Invariance == Spec => []IInv
BY InvariantInit, InvariantNext, PTL DEF Spec

\* Nothing is lost and nothing counted twice between the workers (Consistent): for each
\* of them, what its tracker knows, what is on its way to it and what any worker has yet
\* to broadcast always add up to the capabilities and records that exist.
THEOREM NothingLost == Spec => []Consistent
<1>1. IInv => Consistent
  BY DEF IInv, Consistent
<1> QED
  BY <1>1, Invariance, PTL

-----------------------------------------------------------------------------
(* What a tracker has yet to learn is backed too *)

LEMMA AfterStep ==
  ASSUME TypeOK, NEW w \in Worker, NEW v \in Worker, NEW k \in Nat, k < Len(net[w][v]),
         NEW p \in Pointstamp
  PROVE  After(w, v, k)[p] = net[w][v][k + 1][p] + After(w, v, k + 1)[p]
<1> DEFINE s == net[w][v]
           j == k + 1
<1>1. s \in Seq(Batch) /\ j \in 1 .. Len(s) /\ j - 1 = k /\ j \in Nat
  BY DEF TypeOK
<1>2. /\ After(w, v, k)[p] = SumAfter(s, k)[p] + Unsent(w)[p]
      /\ After(w, v, j)[p] = SumAfter(s, j)[p] + Unsent(w)[p]
  BY DEF After, Plus
<1> HIDE DEF s, j
<1>3. SumAfter(s, k) = Plus(s[j], SumAfter(s, j))
  BY <1>1, SumAfterStep
<1>4. SumAfter(s, k)[p] = s[j][p] + SumAfter(s, j)[p]
  BY <1>3 DEF Plus
<1>5. s[j][p] \in Int /\ SumAfter(s, j)[p] \in Int /\ Unsent(w)[p] \in Int
  <2>1. s[j] \in Batch /\ SumAfter(s, j) \in Batch /\ Unsent(w) \in Batch
    BY <1>1, SumAfterType, Types
  <2> QED
    BY <2>1 DEF Batch
<1>6. After(w, v, k)[p] = s[j][p] + After(w, v, j)[p]
  BY <1>2, <1>4, <1>5
<1> QED
  BY <1>6 DEF s, j

\* Any stretch of the batches on their way.
LEMMA StretchBacked ==
  ASSUME IInv, NEW w \in Worker, NEW v \in Worker, NEW i \in 0 .. Len(net[w][v])
  PROVE  \A k \in i .. Len(net[w][v]) :
           Backed(Minus(After(w, v, i), After(w, v, k)), Minus(Caps(w), After(w, v, k)))
<1> DEFINE N == Len(net[w][v])
           D(k) == Minus(After(w, v, i), After(w, v, k))
           B(k) == Minus(Caps(w), After(w, v, k))
           Good == {k \in Nat : Backed(D(k), B(k))}
<1>1. N \in Nat /\ i \in Nat /\ i <= N
  BY DEF IInv, TypeOK
<1>2. \A k \in Nat : After(w, v, k) \in Batch /\ D(k) \in Batch /\ B(k) \in Batch
  BY <1>1, Types, PlusType DEF IInv
<1>3. i \in Good
  <2>1. \A p \in Pointstamp : D(i)[p] = 0
    <3>1. \A p \in Pointstamp : After(w, v, i)[p] \in Int
      BY <1>1, <1>2 DEF Batch
    <3> QED
      BY <3>1 DEF Minus
  <2> HIDE DEF D, B
  <2> QED
    BY <1>1, <2>1 DEF Backed
<1>4. ASSUME NEW k \in i .. N, k \in Good, k < N PROVE k + 1 \in Good
  <2>1. k \in Nat /\ k + 1 \in Nat /\ k + 1 \in 1 .. N
    BY <1>1, <1>4
  <2> DEFINE E == net[w][v][k + 1]
  <2>2. E \in Batch /\ Backed(E, B(k + 1))
    BY <2>1 DEF IInv, NetBacked, TypeOK
  <2>3. ASSUME NEW p \in Pointstamp
        PROVE  /\ D(k + 1)[p] = D(k)[p] + E[p]
               /\ E[p] = 0 => B(k)[p] = B(k + 1)[p]
    <3> DEFINE a == After(w, v, i)[p]
               b == After(w, v, k)[p]
               c == After(w, v, k + 1)[p]
               e == E[p]
               h == Caps(w)[p]
    <3>1. b = e + c
      BY <1>4, <2>1, AfterStep DEF IInv
    <3>2. a \in Int /\ b \in Int /\ c \in Int /\ e \in Int /\ h \in Int
      BY <1>1, <1>2, <2>1, <2>2, Types DEF Batch, IInv
    <3>3. /\ D(k + 1)[p] = a - c /\ D(k)[p] = a - b
          /\ B(k)[p] = h - b /\ B(k + 1)[p] = h - c
      BY DEF Minus
    <3> HIDE DEF a, b, c, e, h, D, B, E
    <3>4. a - c = (a - b) + e /\ (e = 0 => h - b = h - c)
      BY <3>1, <3>2
    <3> QED
      BY <3>3, <3>4 DEF e
  <2>4. /\ D(k) \in Batch /\ D(k + 1) \in Batch /\ B(k) \in Batch /\ B(k + 1) \in Batch
        /\ Backed(D(k), B(k))
    BY <1>2, <1>4, <2>1
  <2> DEFINE D1 == D(k)
             B1 == B(k)
             D2 == D(k + 1)
             B2 == B(k + 1)
  <2>5. /\ D1 \in Batch /\ D2 \in Batch /\ B1 \in Batch /\ B2 \in Batch /\ E \in Batch
        /\ Backed(D1, B1) /\ Backed(E, B2)
        /\ \A p \in Pointstamp : D2[p] = D1[p] + E[p]
        /\ \A p \in Pointstamp : E[p] = 0 => B1[p] = B2[p]
    BY <2>2, <2>3, <2>4
  <2> HIDE DEF D1, D2, B1, B2, E
  <2>6. Backed(D2, B2)
    BY <2>5, BackedBoth
  <2> QED
    BY <2>1, <2>6 DEF D2, B2
<1> HIDE DEF Good
<1>5. i .. N \subseteq Good
  BY <1>1, <1>3, <1>4, Upwards
<1> QED
  BY <1>5 DEF Good

\* All that is on its way or unsent, by what the worker holds.
LEMMA AfterBacked ==
  ASSUME IInv, NEW w \in Worker, NEW v \in Worker, NEW k \in 0 .. Len(net[w][v])
  PROVE  Backed(After(w, v, k), Caps(w))
<1> USE DEF IInv
<1> DEFINE A == After(w, v, k)
           L == local[w]
           R == Unreported(w)
           U == Unsent(w)
           H == Caps(w)
<1>1. /\ A \in Batch /\ L \in Batch /\ R \in Batch /\ U \in Batch /\ H \in Batch
      /\ Minus(A, U) \in Batch /\ Minus(H, U) \in Batch
      /\ Minus(A, R) \in Batch /\ Minus(H, R) \in Batch
  <2>1. A \in Batch /\ L \in Batch /\ R \in Batch /\ U \in Batch /\ H \in Batch
    <3>1. k \in Nat /\ L \in Batch
      BY DEF TypeOK
    <3> QED
      BY <3>1, Types
  <2> QED
    BY <2>1, PlusType
<1>2. Backed(Minus(A, U), Minus(H, U))
  <2> DEFINE n == Len(net[w][v])
  <2>1. net[w][v] \in Seq(Batch) /\ n \in Nat /\ k <= n
    BY DEF TypeOK
  <2>2. After(w, v, n) = U
    <3>1. SumAfter(net[w][v], n) = Zero
      BY <2>1, SumAfterEnds
    <3>2. Plus(Zero, U) = U
      <4> HIDE DEF U
      <4> QED
        BY <1>1 DEF Plus, Zero, Batch
    <3> QED
      BY <3>1, <3>2 DEF After
  <2>3. n \in k .. n
    BY <2>1
  <2>4. Backed(Minus(After(w, v, k), After(w, v, n)), Minus(Caps(w), After(w, v, n)))
    BY <2>3, StretchBacked
  <2> QED
    BY <2>2, <2>4
<1>3. Backed(L, Minus(H, R))
  BY DEF LocalBacked
<1>4. Backed(R, H)
  <2> DEFINE f == pending[w]
  <2>1. \A n \in InputNode : f[n] \in Batch /\ Backed(f[n], H)
    <3> SUFFICES ASSUME NEW n \in InputNode PROVE f[n] \in Batch /\ Backed(f[n], H)
      OBVIOUS
    <3>1. f[n] \in Batch /\ Backed(f[n], OwnCaps(w, n))
      BY DEF TypeOK, PendingBacked
    <3>2. \A q \in Pointstamp : q[1] \in Source /\ OwnCaps(w, n)[q] > 0 => H[q] > 0
      BY DEF OwnCaps, Caps
    <3> HIDE DEF f, H
    <3>3. Backed(f[n], H)
      BY <3>1, <3>2, BackedMore
    <3> QED
      BY <3>1, <3>3
  <2>2. R = [p \in Pointstamp |-> SumFunction([n \in InputNode |-> f[n][p]])]
    BY DEF Unreported
  <2> HIDE DEF f, H, R
  <2> QED
    BY <1>1, <2>1, <2>2, BackedSum, Finite
<1>5. \A p \in Pointstamp :
        /\ A[p] \in Int /\ L[p] \in Int /\ R[p] \in Int /\ H[p] \in Int
        /\ U[p] = L[p] + R[p]
        /\ Minus(A, U)[p] = A[p] - U[p] /\ Minus(H, U)[p] = H[p] - U[p]
        /\ Minus(A, R)[p] = A[p] - R[p] /\ Minus(H, R)[p] = H[p] - R[p]
  BY <1>1 DEF Batch, Minus, Unsent, Plus
<1> HIDE DEF A, L, R, U, H
<1>6. Backed(Minus(A, R), Minus(H, R))
  <2>1. \A p \in Pointstamp : Minus(A, R)[p] = Minus(A, U)[p] + L[p]
    BY <1>5
  <2>2. \A q \in Pointstamp : L[q] = 0 => Minus(H, U)[q] = Minus(H, R)[q]
    BY <1>5
  <2> DEFINE D == Minus(A, U)
             B == Minus(H, U)
             F == Minus(A, R)
             C == Minus(H, R)
  <2>3. /\ D \in Batch /\ L \in Batch /\ B \in Batch /\ C \in Batch /\ F \in Batch
        /\ Backed(D, B) /\ Backed(L, C)
        /\ \A p \in Pointstamp : F[p] = D[p] + L[p]
        /\ \A q \in Pointstamp : L[q] = 0 => B[q] = C[q]
    BY <1>1, <1>2, <1>3, <2>1, <2>2
  <2> HIDE DEF D, B, F, C
  <2>4. Backed(F, C)
    BY <2>3, BackedBoth
  <2> QED
    BY <2>4 DEF F, C
<1>7. Backed(A, H)
  <2>1. \A p \in Pointstamp : A[p] = Minus(A, R)[p] + R[p]
    BY <1>5
  <2>2. \A q \in Pointstamp : R[q] = 0 => Minus(H, R)[q] = H[q]
    BY <1>5
  <2> DEFINE D == Minus(A, R)
             B == Minus(H, R)
  <2>3. /\ D \in Batch /\ B \in Batch /\ Backed(D, B)
        /\ \A p \in Pointstamp : A[p] = D[p] + R[p]
        /\ \A q \in Pointstamp : R[q] = 0 => B[q] = H[q]
    BY <1>1, <1>6, <2>1, <2>2
  <2> HIDE DEF D, B
  <2>4. A \in Batch /\ R \in Batch /\ H \in Batch
    BY <1>1
  <2>5. \A q \in Pointstamp :
          q[1] \in Source /\ D[q] = 0 /\ R[q] = 0 /\ (B[q] > 0 \/ H[q] > 0) => H[q] > 0
    BY <2>3
  <2> QED
    BY <1>4, <2>3, <2>4, <2>5, BackedBoth
<1> QED
  BY <1>7 DEF A, H

-----------------------------------------------------------------------------
(* A frontier never passes what could still happen *)

LEMMA OpenMeans == \A p : p \in Open <=> \E q \in Outstanding : LeadsTo(q, p)
<1>1. \A p : p \in Open <=> \E c \in CouldResultIn : c[1] \in Outstanding /\ p \in c[2]
  BY DEF Open
<1> QED
  BY <1>1 DEF LeadsTo

LEMMA PassedMeans ==
  \A w, p : p \in Passed(w) <=>
              p \in Pointstamp /\ \A q : LeadsTo(q, p) => ~(known[w][q] > 0)
<1>1. \A w, p : p \in Passed(w) <=>
        p \in Pointstamp /\ ~\E c \in CouldResultIn : known[w][c[1]] > 0 /\ p \in c[2]
  BY DEF Passed
<1> QED
  BY <1>1 DEF LeadsTo

\* The counts, with what is on its way and unsent together.
LEMMA CountsMean ==
  ASSUME TypeOK, CountsConserved, NEW v \in Worker, NEW p \in Pointstamp
  PROVE  Held[p] = known[v][p] + SumOver([w \in Worker |-> After(w, v, 0)[p]], Worker)
<1>1. \A w \in Worker : After(w, v, 0)[p] = Sum(net[w][v])[p] + Unsent(w)[p]
  <2> SUFFICES ASSUME NEW w \in Worker
               PROVE  After(w, v, 0)[p] = Sum(net[w][v])[p] + Unsent(w)[p]
    OBVIOUS
  <2>1. net[w][v] \in Seq(Batch)
    BY DEF TypeOK
  <2>2. SumAfter(net[w][v], 0) = Sum(net[w][v])
    BY <2>1, SumAfterEnds
  <2> QED
    BY <2>2 DEF After, Plus
<1>2. [w \in Worker |-> After(w, v, 0)[p]] = [w \in Worker |-> Sum(net[w][v])[p] + Unsent(w)[p]]
  BY <1>1
<1>3. SumOver([w \in Worker |-> After(w, v, 0)[p]], Worker)
        = SumFunction([w \in Worker |-> After(w, v, 0)[p]])
  BY DEF SumOver
<1> QED
  BY <1>2, <1>3 DEF CountsConserved

\* No value of a function whose sum is not negative is negative unless another is
\* positive.
LEMMA SomePositive ==
  ASSUME NEW S, IsFiniteSet(S), NEW f, \A x \in S : f[x] \in Int,
         SumOver(f, S) >= 0, NEW a \in S, f[a] < 0
  PROVE  \E x \in S : f[x] > 0
<1> SUFFICES ASSUME \A x \in S : f[x] <= 0 PROVE FALSE
  OBVIOUS
<1>1. SumOver(f, S) = f[a] + SumOver(f, S \ {a})
  BY SumRemove
<1>2. IsFiniteSet(S \ {a})
  BY FS_Subset
<1>3. SumOver(f, S \ {a}) <= 0 /\ SumOver(f, S \ {a}) \in Int
  BY <1>2, SumNonPositive, SumInt
<1> QED
  BY <1>1, <1>3

\* At all that leads to a pointstamp worker w's frontiers have passed, nothing is held,
\* on its way to w, or unsent.
LEMMA PassedQuiet ==
  ASSUME IInv, NEW w \in Worker, NEW p \in Passed(w)
  PROVE  \A x \in Pointstamp :
           LeadsTo(x, p) => Held[x] = 0 /\ \A u \in Worker : After(u, w, 0)[x] = 0
<1> USE DEF IInv
<1> DEFINE S == {x \in Pointstamp :
                   /\ LeadsTo(x, p)
                   /\ Held[x] > 0 \/ \E u \in Worker : After(u, w, 0)[x] > 0}
<1>1. \A x \in Pointstamp : LeadsTo(x, p) => known[w][x] \in Int /\ known[w][x] <= 0
  BY PassedMeans DEF TypeOK, Batch
<1>2. \A x \in Pointstamp : Held[x] \in Nat /\ \A u \in Worker : After(u, w, 0)[x] \in Int
  <2>1. \A u \in Worker : After(u, w, 0) \in Batch
    BY Types
  <2> QED
    BY <2>1, HeldOutstanding DEF Batch
<1>3. ASSUME NEW x \in Pointstamp, LeadsTo(x, p), NEW u \in Worker, After(u, w, 0)[x] # 0
      PROVE  x \in S
  <2> DEFINE f == [v \in Worker |-> After(v, w, 0)[x]]
  <2>1. SUFFICES ASSUME f[u] < 0 PROVE \E v \in Worker : f[v] > 0
    BY <1>2, <1>3
  <2>2. \A v \in Worker : f[v] \in Int
    BY <1>2
  <2>3. Held[x] = known[w][x] + SumOver(f, Worker)
    BY CountsMean
  <2> HIDE DEF f
  <2>4. SumOver(f, Worker) \in Int
    BY <2>2, SumInt, Finite
  <2>5. SumOver(f, Worker) >= 0
    BY <1>1, <1>2, <1>3, <2>3, <2>4
  <2> QED
    BY <2>1, <2>2, <2>5, SomePositive, Finite
<1>4. S = {}
  <2> SUFFICES ASSUME S # {} PROVE FALSE
    OBVIOUS
  <2>1. PICK m \in S : \A q \in S : ~Before(q, m)
    BY Earliest
  <2>2. ASSUME NEW u \in Worker, After(u, w, 0)[m] > 0 PROVE FALSE
    <3>1. net[u][w] \in Seq(Batch) /\ 0 \in 0 .. Len(net[u][w])
      BY DEF TypeOK
    <3>2. Backed(After(u, w, 0), Caps(u))
      BY <3>1, AfterBacked
    <3>3. PICK q \in Pointstamp :
            /\ Before(q, m)
            /\ After(u, w, 0)[q] < 0 \/ (q[1] \in Source /\ Caps(u)[q] > 0)
      BY <2>1, <2>2, <3>2 DEF Backed
    <3>4. LeadsTo(q, p)
      BY <2>1, <3>3, LeadsToTransitive DEF Before
    <3>5. CASE After(u, w, 0)[q] < 0
      BY <1>3, <2>1, <3>3, <3>4, <3>5
    <3>6. CASE q[1] \in Source /\ Caps(u)[q] > 0
      <4>1. Has(u, q) > 0
        BY <3>6 DEF Has, Caps
      <4>2. Held[q] > 0
        BY <4>1, HeldOutstanding
      <4> QED
        BY <2>1, <3>3, <3>4, <4>2
    <3> QED
      BY <3>3, <3>5, <3>6
  <2>3. Held[m] <= 0
    <3> DEFINE f == [v \in Worker |-> After(v, w, 0)[m]]
    <3>1. \A v \in Worker : f[v] \in Int /\ f[v] <= 0
      BY <1>2, <2>1, <2>2
    <3>2. Held[m] = known[w][m] + SumOver(f, Worker)
      BY <2>1, CountsMean
    <3> HIDE DEF f
    <3>3. SumOver(f, Worker) <= 0 /\ SumOver(f, Worker) \in Int
      BY <3>1, SumNonPositive, SumInt, Finite
    <3> QED
      BY <1>1, <2>1, <3>2, <3>3
  <2> QED
    BY <1>2, <2>1, <2>2, <2>3
<1>5. ASSUME NEW x \in Pointstamp, LeadsTo(x, p)
      PROVE  Held[x] = 0 /\ \A u \in Worker : After(u, w, 0)[x] = 0
  <2>1. ~(Held[x] > 0) /\ \A u \in Worker : ~(After(u, w, 0)[x] # 0)
    <3>1. x \notin S
      BY <1>4
    <3>2. ~(Held[x] > 0)
      BY <1>5, <3>1
    <3> HIDE DEF S
    <3> QED
      BY <1>3, <1>5, <3>1, <3>2
  <2> QED
    BY <1>2, <2>1
<1> QED
  BY <1>5

LEMMA SafeState == IInv => FrontiersSafe
<1> SUFFICES ASSUME IInv, NEW w \in Worker, NEW p \in Open, p \in Passed(w) PROVE FALSE
  BY DEF FrontiersSafe
<1>1. PICK q \in Outstanding : LeadsTo(q, p)
  BY OpenMeans
<1>2. q \in Pointstamp
  BY DEF Outstanding
<1>3. Held[q] = 0
  BY <1>1, <1>2, PassedQuiet
<1>4. Held[q] > 0
  BY <1>1, <1>2, HeldOutstanding DEF IInv
<1> QED
  BY <1>3, <1>4

\* The promise of a frontier (FrontiersSafe): no worker's frontier at any port passes a
\* time at which a record or a capability anywhere could still produce something, however
\* the batches of the workers interleave on their way and records overtake them.
THEOREM Safety == Spec => []FrontiersSafe
BY Invariance, SafeState, PTL

-----------------------------------------------------------------------------
(* The protocol implements ProgressSpec *)

\* Nor would what leads there be touched by a part of what is on its way: if it took
\* something away it would also add something earlier, and so on.
LEMMA PassedStaysQuiet ==
  ASSUME IInv, NEW w \in Worker, NEW p \in Passed(w),
         NEW u \in Worker, NEW k \in 0 .. Len(net[u][w])
  PROVE  \A x \in Pointstamp : LeadsTo(x, p) => After(u, w, k)[x] = 0
<1> USE DEF IInv
<1> DEFINE A == After(u, w, 0)
           K == After(u, w, k)
           H == Caps(u)
           S == {x \in Pointstamp : LeadsTo(x, p) /\ K[x] # 0}
<1>1. net[u][w] \in Seq(Batch) /\ k \in Nat /\ 0 \in 0 .. Len(net[u][w])
      /\ k \in 0 .. Len(net[u][w])
  BY DEF TypeOK
<1>2. \A x \in Pointstamp : A[x] \in Int /\ K[x] \in Int /\ H[x] \in Int
  <2>1. A \in Batch /\ K \in Batch /\ H \in Batch
    BY <1>1, Types
  <2> QED
    BY <2>1 DEF Batch
<1>3. ASSUME NEW x \in Pointstamp, LeadsTo(x, p)
      PROVE  A[x] = 0 /\ (x[1] \in Source => H[x] = 0)
  <2>1. Held[x] = 0 /\ A[x] = 0
    BY <1>3, PassedQuiet
  <2>2. ~(Has(u, x) > 0) /\ Has(u, x) \in Nat
    BY <2>1, HeldOutstanding, HasType
  <2> QED
    BY <2>1, <2>2 DEF Has, Caps
<1>4. Backed(K, H)
  BY AfterBacked
<1>5. Backed(Minus(A, K), Minus(H, K))
  BY <1>1, StretchBacked
<1>6. S = {}
  <2> SUFFICES ASSUME S # {} PROVE FALSE
    OBVIOUS
  <2>1. PICK m \in S : \A q \in S : ~Before(q, m)
    BY Earliest
  <2>2. ASSUME NEW q \in Pointstamp, Before(q, m)
        PROVE  A[q] = 0 /\ K[q] = 0 /\ (q[1] \in Source => H[q] = 0)
    <3>1. LeadsTo(q, p)
      BY <2>1, <2>2, LeadsToTransitive DEF Before
    <3>2. q \notin S
      BY <2>1, <2>2
    <3> QED
      BY <1>3, <3>1, <3>2
  <2>3. A[m] = 0 /\ K[m] \in Int /\ K[m] # 0 /\ m \in Pointstamp
    BY <1>2, <1>3, <2>1
  <2>4. ~(K[m] > 0)
    <3> HIDE DEF A, K, H
    <3> QED
      BY <1>4, <2>2, <2>3 DEF Backed
  <2>5. ~(Minus(A, K)[m] > 0)
    <3>1. \A q \in Pointstamp :
            Minus(A, K)[q] = A[q] - K[q] /\ Minus(H, K)[q] = H[q] - K[q]
      BY DEF Minus
    <3> HIDE DEF A, K, H
    <3>2. ASSUME NEW q \in Pointstamp, Before(q, m)
          PROVE  ~(Minus(A, K)[q] < 0) /\ (q[1] \in Source => ~(Minus(H, K)[q] > 0))
      BY <2>2, <3>1, <3>2
    <3> QED
      BY <1>5, <2>3, <3>2 DEF Backed
  <2>6. Minus(A, K)[m] = A[m] - K[m]
    BY <2>3 DEF Minus
  <2> HIDE DEF A, K
  <2> QED
    BY <2>3, <2>4, <2>5, <2>6
<1> QED
  BY <1>6

\* Whichever of the batches waiting a worker takes, its frontiers stay passed.

LEMMA PassedMeansNext ==
  (\A w, p : p \in Passed(w) <=>
               p \in Pointstamp /\ \A q : LeadsTo(q, p) => ~(known[w][q] > 0))'
BY PassedMeans, PTL

LEMMA CountsMeanNext ==
  TypeOK' /\ CountsConserved' =>
    (\A v \in Worker, p \in Pointstamp :
       Held[p] = known[v][p] + SumOver([w \in Worker |-> After(w, v, 0)[p]], Worker))'
<1>1. TypeOK /\ CountsConserved =>
        \A v \in Worker, p \in Pointstamp :
          Held[p] = known[v][p] + SumOver([w \in Worker |-> After(w, v, 0)[p]], Worker)
  BY CountsMean
<1> QED
  BY <1>1, PTL

LEMMA OutstandingMeans ==
  /\ TypeOK => \A p \in Pointstamp : p \in Outstanding <=> Held[p] > 0
  /\ TypeOK' => (\A p \in Pointstamp : p \in Outstanding <=> Held[p] > 0)'
<1>1. TypeOK => \A p \in Pointstamp : p \in Outstanding <=> Held[p] > 0
  BY HeldOutstanding
<1> QED
  BY <1>1, PTL

\* Whichever of the batches waiting a worker takes, its frontiers stay passed.
LEMMA PassedMonotone ==
  ASSUME IInv, IInv', NEW w \in Worker, NEW take \in Takes(w), BeginSchedule(w, take)
  PROVE  Passed(w) \subseteq Passed(w)'
<1> USE DEF IInv
<1> SUFFICES ASSUME NEW p \in Passed(w), NEW x \in Pointstamp, LeadsTo(x, p)
             PROVE  known'[w][x] = 0
  <2>1. \A p : p \in Passed(w)' <=>
                 p \in Pointstamp /\ \A q : LeadsTo(q, p) => ~(known'[w][q] > 0)
    BY PassedMeansNext
  <2>2. \A p \in Passed(w) : p \in Pointstamp
    BY PassedMeans
  <2> QED
    BY <2>1, <2>2, LeadsToMeans
<1> DEFINE f == [u \in Worker |-> After(u, w, 0)'[x]]
<1>1. ASSUME NEW u \in Worker PROVE f[u] = 0
  <2>1. /\ take[u] \in Nat /\ take[u] <= Len(net[u][w]) /\ net[u][w] \in Seq(Batch)
        /\ net'[u][w] \in Seq(Batch)
    BY BeginChanges
  <2>2. SumAfter(net'[u][w], 0) = SumAfter(net[u][w], take[u])
    <3>1. \A k \in 0 .. Len(net'[u][w]) :
            SumAfter(net'[u][w], k) = SumAfter(net[u][w], take[u] + k)
      BY BeginChanges
    <3>2. 0 \in 0 .. Len(net'[u][w]) /\ take[u] + 0 = take[u]
      BY <2>1
    <3> QED
      BY <3>1, <3>2
  <2>3. Unsent(u)' = Unsent(u)
    BY DEF Unsent, Unreported, BeginSchedule
  <2>4. After(u, w, 0)'[x] = After(u, w, take[u])[x]
    BY <2>2, <2>3 DEF After
  <2>5. take[u] \in 0 .. Len(net[u][w])
    BY <2>1
  <2> QED
    BY <2>4, <2>5, PassedStaysQuiet
<1>2. Held'[x] = known'[w][x] + SumOver(f, Worker)
  BY CountsMeanNext
<1>3. Held'[x] = 0
  <2>1. Held' = Held
    BY DEF Held, BeginSchedule
  <2> QED
    BY <2>1, PassedQuiet
<1>4. known'[w][x] \in Int
  BY DEF TypeOK, Batch
<1> HIDE DEF f
<1>5. SumOver(f, Worker) = 0
  BY <1>1, SumZero, Finite
<1> QED
  BY <1>2, <1>3, <1>4, <1>5

\* An operation opens nothing that was closed.
LEMMA OperationCloses ==
  ASSUME TypeOK, TypeOK', NEW w \in Worker, NEW n, NEW d, NEW c, Operates(w, n, d, c)
  PROVE  Open' \subseteq Open
<1>1. \A p : p \in Open' <=> \E q \in Outstanding' : LeadsTo(q, p)
  <2>1. (\A p : p \in Open <=> \E q \in Outstanding : LeadsTo(q, p))'
    BY OpenMeans, PTL
  <2> QED
    BY <2>1
<1> SUFFICES ASSUME NEW p, NEW q \in Outstanding', LeadsTo(q, p)
             PROVE  \E r \in Outstanding : LeadsTo(r, p)
  BY <1>1, OpenMeans
<1>2. q \in Pointstamp /\ Held'[q] > 0
  BY LeadsToMeans, OutstandingMeans
<1>3. Held'[q] = Held[q] + d[q] /\ d[q] \in Int /\ Held[q] \in Nat
  BY <1>2, HeldOutstanding DEF Operates, Batch
<1>4. CASE d[q] > 0
  <2>1. LeadsTo(c, q) /\ c \in Outstanding
    BY <1>2, <1>4 DEF Operates, Before
  <2> QED
    BY <2>1, LeadsToTransitive
<1>5. CASE ~(d[q] > 0)
  <2>1. Held[q] > 0
    BY <1>2, <1>3, <1>5
  <2> QED
    BY <1>2, <2>1, OutstandingMeans
<1> QED
  BY <1>4, <1>5

LEMMA PromiseInit == Init => Promise!Init
<1> SUFFICES ASSUME Init PROVE Promise!Init
  OBVIOUS
<1>1. FrontiersSafe
  BY InvariantInit, SafeState
<1>2. Promise!Future(Outstanding) = Open
  BY DEF Promise!Future, Open
<1>3. Outstanding \in SUBSET Pointstamp
  BY DEF Outstanding
<1>4. \A w \in Worker : Passed(w) \subseteq Pointstamp /\ Open \cap Passed(w) = {}
  BY <1>1 DEF Passed, FrontiersSafe
<1> QED
  BY <1>2, <1>3, <1>4 DEF Promise!Init

LEMMA OperationWorks ==
  ASSUME TypeOK, TypeOK', NEW w \in Worker, NEW n, NEW d, NEW c, Operates(w, n, d, c)
  PROVE  Promise!Next
<1>1. Promise!Future(Outstanding) = Open /\ Promise!Future(Outstanding') = Open'
  BY DEF Promise!Future, Open
<1>2. Open' \subseteq Open
  BY OperationCloses
<1>3. Outstanding' \in SUBSET Pointstamp
  BY DEF Outstanding
<1>4. [v \in Worker |-> Passed(v)]' = [v \in Worker |-> Passed(v)]
  BY DEF Passed, Operates
<1> QED
  BY <1>1, <1>2, <1>3, <1>4 DEF Promise!Next, Promise!Work

LEMMA BeginObserves ==
  ASSUME IInv, IInv', NEW w \in Worker, NEW take \in Takes(w), BeginSchedule(w, take)
  PROVE  Promise!Next
<1>1. Outstanding' = Outstanding /\ Open' = Open
  BY DEF Outstanding, Open, BeginSchedule
<1>2. Promise!Future(Outstanding) = Open
  BY DEF Promise!Future, Open
<1>3. \A v \in Worker \ {w} : Passed(v)' = Passed(v)
  BY DEF Passed, BeginSchedule, IInv, TypeOK
<1>4. Passed(w) \subseteq Passed(w)'
  BY PassedMonotone
<1>5. \A v \in Worker : Passed(v)' \subseteq Pointstamp
  BY DEF Passed
<1>6. Passed(w)' \cap Open = {}
  <2>1. FrontiersSafe'
    BY SafeState, PTL
  <2> QED
    BY <1>1, <2>1 DEF FrontiersSafe
<1>7. Promise!Observe(w)
  BY <1>1, <1>2, <1>3, <1>4, <1>5, <1>6 DEF Promise!Observe
<1> QED
  BY <1>7 DEF Promise!Next

LEMMA PromiseStutters ==
  ASSUME UNCHANGED <<caps, queue, known>>
  PROVE  UNCHANGED Promise!vars
BY DEF Promise!vars, Outstanding, Passed

LEMMA PromiseNext ==
  ASSUME IInv, IInv', [Next]_vars
  PROVE  [Promise!Next]_(Promise!vars)
<1> USE DEF IInv
<1>1. CASE UNCHANGED vars
  BY <1>1, PromiseStutters DEF vars
<1>2. ASSUME NEW w \in Worker, NEW s \in Source, NEW t \in Time, SendRecord(w, s, t)
      PROVE  Promise!Next
  BY <1>2, SendOperates, OperationWorks
<1>3. ASSUME NEW w \in Worker, NEW s \in Source, NEW t \in Time, Drop(w, s, t)
      PROVE  Promise!Next
  BY <1>3, DropOperates, OperationWorks
<1>4. ASSUME NEW w \in Worker, NEW s \in Source, NEW t \in Time, NEW later \in Time,
             Downgrade(w, s, t, later)
      PROVE  Promise!Next
  BY <1>4, DowngradeOperates, OperationWorks
<1>5. ASSUME NEW w \in Worker, NEW g \in Target, NEW t \in Time, ReceiveRecord(w, g, t)
      PROVE  Promise!Next
  BY <1>5, ReceiveOperates, OperationWorks
<1>6. ASSUME NEW w \in Worker, NEW take \in Takes(w), BeginSchedule(w, take)
      PROVE  Promise!Next
  BY <1>6, BeginObserves
<1>7. ASSUME NEW w \in Worker, NEW n \in Node, ActivateChild(w, n)
      PROVE  UNCHANGED Promise!vars
  BY <1>7, PromiseStutters DEF ActivateChild
<1>8. ASSUME NEW w \in Worker, EndSchedule(w) PROVE UNCHANGED Promise!vars
  BY <1>8, PromiseStutters DEF EndSchedule
<1> QED
  BY <1>1, <1>2, <1>3, <1>4, <1>5, <1>6, <1>7, <1>8 DEF Next

\* The protocol implements the promise (ImplementsPromise): to an observer of the whole
\* computation, operators only replace what is outstanding by what it could result in,
\* and each worker's tracker only ever learns, for good, that something which nothing
\* outstanding could still result in is passed.
THEOREM Refinement == Spec => ImplementsPromise
<1>1. Init => Promise!Init
  BY PromiseInit
<1>2. IInv /\ IInv' /\ [Next]_vars => [Promise!Next]_(Promise!vars)
  BY PromiseNext
<1> QED
  BY <1>1, <1>2, Invariance, PTL DEF Spec, ImplementsPromise, Promise!Spec

===============================================================================
