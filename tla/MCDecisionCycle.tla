--------------------------- MODULE MCDecisionCycle ----------------------------
(***************************************************************************)
(* One case with two actions to choose from, and two cases that compete    *)
(* for a budget of one action; the cadence is short enough for several     *)
(* cycles of each.                                                         *)
(***************************************************************************)
EXTENDS DecisionCycle, TLC

CONSTANTS c1, c2, a1, a2

MCActions == Permutations({a1, a2})
=============================================================================
