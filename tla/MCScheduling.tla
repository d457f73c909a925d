---------------------------- MODULE MCScheduling ----------------------------
(***************************************************************************)
(* Scheduling with an operator 2 that reads what peers send and what 1     *)
(* sends, and sends back to 1, whose index is lower.                       *)
(***************************************************************************)
EXTENDS Scheduling

PairTargetOf(c) == IF c \in {"exchange", "forward"} THEN 2 ELSE IF c = "back" THEN 1 ELSE Scope

PairWakerTarget(a) == 1

PairSourceOf(c) == IF c = "forward" THEN 1 ELSE 2

=============================================================================
