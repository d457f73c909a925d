--------------------------- MODULE CompletionProofs ---------------------------
(***************************************************************************)
(* What the accounting of completion guarantees, for any number of         *)
(* children and any graph, in the layouts the formula of `build' fits,     *)
(* those with three ghosts: theorems of AnySpec.                           *)
(***************************************************************************)
EXTENDS MCComponents, FiniteSetTheorems, TLAPS

IncompleteChildren(f) == {n \in CO!Child : f[n]}

\* Nothing runs once the dataflow has been dropped.
StoppedOnceDropped == co_dropped => ~co_scheduling

IInv ==
  /\ CO!TypeOK
  /\ CO!CountsIncomplete
  /\ StoppedOnceDropped
  /\ CO!DroppedOnlyWhenComplete

-----------------------------------------------------------------------------
\* The two instances of FiniteSets agree.
LEMMA SameCardinality == \A S : CO!Cardinality(S) = Cardinality(S)
BY DEF CO!Cardinality, Cardinality

\* incomplete_count, in the terms of the lemmas below.
LEMMA CountIs == CO!CountsIncomplete <=> co_incomplete_count = Cardinality(IncompleteChildren(co_incomplete))
BY SameCardinality DEF CO!CountsIncomplete, IncompleteChildren

\* There are as many children as the formula takes: finite sets and their sizes.
LEMMA ChildrenFinite ==
  /\ IsFiniteSet(CO!Child) /\ Cardinality(CO!Child) = Children
  /\ \A f : IsFiniteSet(IncompleteChildren(f))
            /\ Cardinality(IncompleteChildren(f)) \in 0 .. Children
<1>1. IsFiniteSet(CO!Child) /\ Cardinality(CO!Child) = Children
  BY CompletionAssumption, FS_Interval DEF CO!LayoutAssumption, CO!Child
<1>2. ASSUME NEW f
      PROVE  /\ IsFiniteSet(IncompleteChildren(f))
             /\ Cardinality(IncompleteChildren(f)) \in 0 .. Children
  <2>1. IncompleteChildren(f) \subseteq CO!Child
    BY DEF IncompleteChildren
  <2>2. /\ IsFiniteSet(IncompleteChildren(f))
        /\ Cardinality(IncompleteChildren(f)) <= Cardinality(CO!Child)
    BY <1>1, <2>1, FS_Subset
  <2>3. Cardinality(IncompleteChildren(f)) \in Nat
    BY <2>2, FS_CardinalityType
  <2> QED
    BY <1>1, <2>2, <2>3, CompletionAssumption DEF CO!LayoutAssumption
<1> QED
  BY <1>1, <1>2

\* The size of the set of incomplete children follows one child's new answer.
LEMMA OneAnswer ==
  ASSUME NEW f \in [CO!Child -> BOOLEAN], NEW n \in CO!Child, NEW answer \in BOOLEAN
  PROVE  Cardinality(IncompleteChildren([f EXCEPT ![n] = answer])) =
           Cardinality(IncompleteChildren(f)) +
             (IF answer = f[n] THEN 0 ELSE IF answer THEN 1 ELSE -1)
<1> DEFINE S == IncompleteChildren(f)
           T == IncompleteChildren([f EXCEPT ![n] = answer])
<1>1. IsFiniteSet(S) /\ Cardinality(S) \in Int
  BY ChildrenFinite
<1>2. CASE answer = f[n]
  <2>1. T = S
    BY <1>2 DEF IncompleteChildren
  <2> QED
    BY <1>1, <1>2, <2>1
<1>3. CASE answer # f[n] /\ answer
  <2>1. T = S \cup {n} /\ n \notin S
    BY <1>3 DEF IncompleteChildren
  <2>2. Cardinality(T) = Cardinality(S) + 1
    BY <1>1, <2>1, FS_AddElement
  <2> QED
    BY <1>3, <2>2
<1>4. CASE answer # f[n] /\ ~answer
  <2>1. T = S \ {n} /\ n \in S
    BY <1>4 DEF IncompleteChildren
  <2>2. Cardinality(T) = Cardinality(S) - 1
    BY <1>1, <2>1, FS_RemoveElement
  <2> QED
    BY <1>1, <1>4, <2>2
<1> QED
  BY <1>2, <1>3, <1>4

-----------------------------------------------------------------------------
\* `incomplete.len() - 4' is the number of children that are not ghosts when there are
\* three ghosts.
LEMMA InitIInv ==
  ASSUME Cardinality(Ghost) = 3
  PROVE  CO!Init => IInv
<1> SUFFICES ASSUME CO!Init PROVE IInv
  OBVIOUS
<1>1. IncompleteChildren(co_incomplete) = CO!Child \ Ghost
  BY DEF IncompleteChildren, CO!Init
<1>2. Cardinality(CO!Child \ Ghost) = Children - 3 /\ Children >= 3
  <2>1. CO!Child \cap Ghost = Ghost
    BY CompletionAssumption DEF CO!LayoutAssumption
  <2>2. IsFiniteSet(Ghost) /\ Cardinality(Ghost) <= Children
    BY ChildrenFinite, CompletionAssumption, FS_Subset DEF CO!LayoutAssumption
  <2>3. Cardinality(CO!Child \ Ghost) = Cardinality(CO!Child) - Cardinality(CO!Child \cap Ghost)
    BY ChildrenFinite, FS_Difference
  <2> QED
    BY <2>1, <2>2, <2>3, ChildrenFinite, CompletionAssumption DEF CO!LayoutAssumption
<1>3. CO!InitialIncompleteCount = Children - 3
  BY <1>2, CompletionAssumption DEF CO!LayoutAssumption, CO!InitialIncompleteCount
<1>4. CO!CountsIncomplete
  BY <1>1, <1>2, <1>3, CountIs DEF CO!Init
<1>5. CO!TypeOK
  <2>1. co_incomplete \in [CO!Child -> BOOLEAN]
    BY DEF CO!Init
  <2>2. co_incomplete_count \in 0 .. UsizeModulus - 1
    BY <1>2, <1>3, CompletionAssumption DEF CO!LayoutAssumption, CO!Init
  <2>3. /\ co_fresh \subseteq CO!Child /\ co_operator \subseteq CO!Child /\ co_activations \subseteq CO!Child
        /\ co_temp_active \subseteq CO!Child /\ co_scheduling \in BOOLEAN
        /\ co_drained \subseteq CO!Tracked /\ co_dropped \in BOOLEAN
    BY DEF CO!Init
  <2> QED
    BY <2>1, <2>2, <2>3 DEF CO!TypeOK
<1>6. StoppedOnceDropped /\ CO!DroppedOnlyWhenComplete
  BY DEF StoppedOnceDropped, CO!DroppedOnlyWhenComplete, CO!Init
<1> QED
  BY <1>4, <1>5, <1>6 DEF IInv

\* One answer changes the count as it changes the set.
LEMMA ActivateChildCounts ==
  ASSUME IInv, NEW n \in CO!Child, NEW answer \in BOOLEAN, CO!ActivateChild(n, answer)
  PROVE  CO!CountsIncomplete' /\ co_incomplete_count' \in 0 .. UsizeModulus - 1
<1> DEFINE before == Cardinality(IncompleteChildren(co_incomplete))
           after  == Cardinality(IncompleteChildren(co_incomplete'))
<1>1. /\ co_incomplete \in [CO!Child -> BOOLEAN]
      /\ co_incomplete' = [co_incomplete EXCEPT ![n] = answer]
      /\ co_incomplete_count' = CO!Recount(n, answer)
  BY DEF IInv, CO!TypeOK, CO!ActivateChild
<1>2. co_incomplete_count = before
  BY CountIs DEF IInv
<1>3. after = before + (IF answer = co_incomplete[n] THEN 0 ELSE IF answer THEN 1 ELSE -1)
  BY <1>1, OneAnswer
<1>4. before \in 0 .. Children /\ after \in 0 .. Children
  BY ChildrenFinite
<1>5. co_incomplete_count' = after
  <2>1. \A k \in 0 .. Children : k % UsizeModulus = k
    BY CompletionAssumption DEF CO!LayoutAssumption
  <2> HIDE DEF before, after
  <2>3. CASE answer = co_incomplete[n]
    BY <1>1, <1>2, <1>3, <1>4, <2>3 DEF CO!Recount
  <2>4. CASE answer # co_incomplete[n] /\ answer
    BY <1>1, <1>2, <1>3, <1>4, <2>1, <2>4 DEF CO!Recount
  <2>5. CASE answer # co_incomplete[n] /\ ~answer
    BY <1>1, <1>2, <1>3, <1>4, <2>1, <2>5 DEF CO!Recount
  <2> QED
    BY <2>3, <2>4, <2>5
<1> QED
  <2>1. CO!CountsIncomplete' <=> co_incomplete_count' = after
    BY SameCardinality DEF CO!CountsIncomplete, IncompleteChildren
  <2> HIDE DEF before, after
  <2> QED
    BY <1>4, <1>5, <2>1, CompletionAssumption DEF CO!LayoutAssumption

\* Every step keeps the invariant, whatever the layout.
LEMMA NextIInv == IInv /\ [CO!Next]_co_vars => IInv'
<1> SUFFICES ASSUME IInv, [CO!Next]_co_vars PROVE IInv'
  OBVIOUS
<1> USE DEF IInv
<1>1. ASSUME NEW n \in CO!Child, CO!Activate(n) PROVE IInv'
  BY <1>1 DEF CO!Activate, CO!TypeOK, CO!CountsIncomplete, StoppedOnceDropped,
              CO!DroppedOnlyWhenComplete
<1>2. ASSUME NEW gone \in SUBSET (CO!Tracked \ co_drained), CO!BeginSchedule(gone) PROVE IInv'
  <2>1. CO!TypeOK'
    BY <1>2, CompletionAssumption DEF CO!LayoutAssumption, CO!BeginSchedule, CO!TypeOK
  <2> QED
    BY <1>2, <2>1 DEF CO!BeginSchedule, CO!CountsIncomplete, StoppedOnceDropped,
                      CO!DroppedOnlyWhenComplete
<1>3. ASSUME NEW n \in CO!Child, NEW answer \in BOOLEAN, CO!ActivateChild(n, answer) PROVE IInv'
  <2>1. CO!CountsIncomplete' /\ co_incomplete_count' \in 0 .. UsizeModulus - 1
    BY <1>3, ActivateChildCounts
  <2>2. CO!TypeOK'
    BY <1>3, <2>1 DEF CO!ActivateChild, CO!TypeOK
  <2>3. ~co_dropped' /\ StoppedOnceDropped' /\ CO!DroppedOnlyWhenComplete'
    BY <1>3 DEF CO!ActivateChild, StoppedOnceDropped, CO!DroppedOnlyWhenComplete
  <2> QED
    BY <2>1, <2>2, <2>3
<1>4. ASSUME CO!EndSchedule PROVE IInv'
  <2>1. CO!TypeOK' /\ CO!CountsIncomplete' /\ StoppedOnceDropped'
    BY <1>4 DEF CO!EndSchedule, CO!TypeOK, CO!CountsIncomplete, StoppedOnceDropped
  <2>2. ASSUME co_dropped' PROVE \A n \in CO!Child : ~co_incomplete'[n]
    <3>1. ~ co_incomplete_count > 0
      BY <1>4, <2>2 DEF CO!EndSchedule
    <3>2. co_incomplete_count \in Nat
      BY CompletionAssumption DEF CO!LayoutAssumption, CO!TypeOK
    <3>3. Cardinality(IncompleteChildren(co_incomplete)) = 0
      BY <3>1, <3>2, CountIs
    <3>4. IncompleteChildren(co_incomplete) = {}
      BY <3>3, ChildrenFinite, FS_EmptySet
    <3> QED
      BY <1>4, <3>4 DEF CO!EndSchedule, IncompleteChildren
  <2>3. co_dropped' => CO!Tracked \subseteq co_drained'
    BY <1>4 DEF CO!EndSchedule
  <2> QED
    BY <2>1, <2>2, <2>3 DEF CO!DroppedOnlyWhenComplete
<1>5. CASE UNCHANGED co_vars
  BY <1>5 DEF co_vars, CO!TypeOK, CO!CountsIncomplete, StoppedOnceDropped, CO!DroppedOnlyWhenComplete
<1> QED
  BY <1>1, <1>2, <1>3, <1>4, <1>5 DEF CO!Next

\* With three ghosts the accounting invariant holds throughout.
THEOREM Invariance ==
  ASSUME Cardinality(Ghost) = 3
  PROVE  AnySpec => []IInv
<1>1. AnyInit => IInv
  BY InitIInv DEF AnyInit
<1>2. IInv /\ [AnyNext]_any_vars => IInv'
  <2>1. [AnyNext]_any_vars => [CO!Next]_co_vars
    BY DEF AnyNext, any_vars, co_vars
  <2> QED
    BY <2>1, NextIInv
<1> QED
  BY <1>1, <1>2, PTL DEF AnySpec

\* incomplete_count is "the number of incomplete children", however many children there
\* are and whatever they answer, provided three of them are ghosts.
THEOREM CountCorrect ==
  ASSUME Cardinality(Ghost) = 3
  PROVE  AnySpec => []CountsIncomplete
<1>1. IInv => CountsIncomplete
  BY DEF IInv, CountsIncomplete
<1> QED
  BY <1>1, Invariance, PTL

\* The worker never drops a dataflow with three ghosts while a child says it is
\* incomplete or the tracker still holds something.
THEOREM DropCorrect ==
  ASSUME Cardinality(Ghost) = 3
  PROVE  AnySpec => []DroppedOnlyWhenComplete
<1>1. IInv => DroppedOnlyWhenComplete
  BY DEF IInv, DroppedOnlyWhenComplete
<1> QED
  BY <1>1, Invariance, PTL

=============================================================================
