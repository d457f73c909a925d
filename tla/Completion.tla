------------------------------ MODULE Completion ------------------------------
(***************************************************************************)
(* When a dataflow is over (progress/subgraph.rs: build, schedule,         *)
(* activate_child, shut_down; worker.rs: Worker::step).  The root scope    *)
(* counts the children that say they are incomplete; a schedule call that  *)
(* finds none counted and nothing tracked makes the worker drop the        *)
(* dataflow.  The count starts from a formula written for one program: the *)
(* seven children input, filter, map, aggregate, FPGA wrapper, inspect and *)
(* probe, of which the ghosts filter, map and aggregate are not counted.   *)
(*                                                                         *)
(* What the tracker sees is represented by the children it has `drained':  *)
(* no implications at their inputs, no pointstamps at their outputs.       *)
(***************************************************************************)
EXTENDS Integers, FiniteSets

CONSTANTS
  Children,        \* the number of children, child zero apart
  Ghost,           \* those added by add_child_no_path, whose FPGA stands in for them
  Wrapper,         \* those that drive ghosts, which the tracker does not know
  InputOperator,   \* those driven by an input handle, scheduled when it is used
  Notified,        \* those with `notify', scheduled when their frontiers change
  Rescheduling,    \* those whose logic may return true (build_reschedule)
  Upstream(_),     \* the children that feed a child
  UsizeModulus     \* incomplete_count is a usize

Child == 1 .. Children

LayoutAssumption ==
  /\ Children \in Nat
  /\ \A S \in {Ghost, Wrapper, InputOperator, Notified, Rescheduling} : S \subseteq Child
  /\ UsizeModulus \in Nat /\ UsizeModulus > Children
  /\ \A n \in Child : Upstream(n) \subseteq Child

Tracked == Child \ Wrapper

VARIABLES
  incomplete,        \* incomplete[n]: what child n last answered
  incomplete_count,
  fresh,             \* the children not scheduled yet, which hold their initial
                     \* capabilities
  operator,          \* the children whose operator is still there
  activations,       \* the children to be scheduled by the next call
  temp_active,       \* the children still to be scheduled by this call
  scheduling,        \* inside Subgraph::schedule
  drained,           \* the children the tracker has nothing for
  dropped            \* the worker has dropped the dataflow

vars == <<incomplete, incomplete_count, fresh, operator, activations, temp_active,
          scheduling, drained, dropped>>

-----------------------------------------------------------------------------
\* build: `let incomplete_count = incomplete.len() - 4', child zero included.
InitialIncompleteCount == (Children + 1 - 4) % UsizeModulus

Init ==
  /\ incomplete = [n \in Child |-> n \notin Ghost]
  /\ incomplete_count = InitialIncompleteCount
  /\ fresh = Child \ Ghost
  /\ operator = Child
  /\ activations = Child \ (InputOperator \cup Ghost)
  /\ temp_active = {}
  /\ scheduling = FALSE
  /\ drained = {}
  /\ dropped = FALSE

\* An input handle, an activator or a channel activates a child.
Activate(n) ==
  /\ ~dropped
  /\ activations' = activations \cup {n}
  /\ UNCHANGED <<incomplete, incomplete_count, fresh, operator, temp_active, scheduling,
                 drained, dropped>>

\* The tracker learns that `gone' hold nothing more and nothing can reach them; their
\* frontiers change, so those that are notified are scheduled with those activated.
BeginSchedule(gone) ==
  /\ ~scheduling /\ ~dropped
  /\ \A n \in gone : Upstream(n) \subseteq drained \cup gone
  /\ gone \cap fresh = {}
  /\ drained' = drained \cup gone
  /\ temp_active' = activations \cup (gone \cap Notified)
  /\ activations' = {}
  /\ scheduling' = TRUE
  /\ UNCHANGED <<incomplete, incomplete_count, fresh, operator, dropped>>

\* The answers child n may give: a closed operator is complete, and so are inputs,
\* ghosts and all the operators built by `build'.
Answers(n) == IF n \in operator \cap Rescheduling THEN BOOLEAN ELSE {FALSE}

MutantRecount(n, answer) ==
  IF answer THEN (incomplete_count + 1) % UsizeModulus
  ELSE (incomplete_count - 1) % UsizeModulus

\* Only a change of the answer is counted.
Recount(n, answer) ==
  IF answer = incomplete[n] THEN incomplete_count
  ELSE IF answer THEN (incomplete_count + 1) % UsizeModulus
  ELSE (incomplete_count - 1) % UsizeModulus

\* activate_child, for the least index left.
ActivateChild(n, answer) ==
  /\ scheduling
  /\ n \in temp_active /\ \A m \in temp_active : n <= m
  /\ answer \in Answers(n)
  /\ temp_active' = temp_active \ {n}
  /\ fresh' = fresh \ {n}
  /\ incomplete' = [incomplete EXCEPT ![n] = answer]
  /\ incomplete_count' = Recount(n, answer)
  /\ operator' = IF ~answer /\ n \notin Wrapper /\ n \in drained
                 THEN operator \ {n} ELSE operator
  /\ UNCHANGED <<activations, scheduling, drained, dropped>>

MutantEndSchedule ==
  /\ scheduling /\ temp_active = {}
  /\ scheduling' = FALSE
  /\ dropped' = ~(drained # Tracked)
  /\ UNCHANGED <<incomplete, incomplete_count, fresh, operator, activations, temp_active,
                 drained>>

\* The end of schedule, `incomplete || tracking', and what the worker makes of it.
EndSchedule ==
  /\ scheduling /\ temp_active = {}
  /\ scheduling' = FALSE
  /\ dropped' = ~(incomplete_count > 0 \/ ~ Tracked \subseteq drained)
  /\ UNCHANGED <<incomplete, incomplete_count, fresh, operator, activations, temp_active,
                 drained>>

Next ==
  \/ \E n \in Child : Activate(n)
  \/ \E gone \in SUBSET (Tracked \ drained) : BeginSchedule(gone)
  \/ \E n \in Child, answer \in BOOLEAN : ActivateChild(n, answer)
  \/ EndSchedule

Spec == Init /\ [][Next]_vars

-----------------------------------------------------------------------------
TypeOK ==
  /\ incomplete \in [Child -> BOOLEAN]
  /\ incomplete_count \in 0 .. UsizeModulus - 1
  /\ fresh \subseteq Child
  /\ operator \subseteq Child
  /\ activations \subseteq Child
  /\ temp_active \subseteq Child
  /\ scheduling \in BOOLEAN
  /\ drained \subseteq Tracked
  /\ dropped \in BOOLEAN

\* Subgraph.incomplete_count is "the number of incomplete children", in the layout it
\* is written for, over any sequence of answers.
CountsIncomplete ==
  incomplete_count = Cardinality({n \in Child : incomplete[n]})

\* "A subgraph is incomplete if any child is incomplete, or there are outstanding
\* messages": the worker never drops a dataflow while a child says it is incomplete or
\* the tracker still holds something.
DroppedOnlyWhenComplete ==
  dropped => /\ \A n \in Child : ~incomplete[n]
             /\ Tracked \subseteq drained

=============================================================================
