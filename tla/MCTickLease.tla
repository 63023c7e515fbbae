----------------------------- MODULE MCTickLease ------------------------------
(***************************************************************************)
(* Callers in one process and in two.  The lease is two units long: a tick *)
(* may be within its lease, at its last instant, or past it.               *)
(***************************************************************************)
EXTENDS TickLease, TLC

CONSTANTS t1, t2, p1, p2

MCPlacements ==
  {[t \in Ticker |-> p1], [t \in Ticker |-> IF t = t1 THEN p1 ELSE p2]}
=============================================================================
