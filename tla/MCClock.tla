-------------------------------- MODULE MCClock --------------------------------
(***************************************************************************)
(* A clock on which at most five tasks are scheduled, for three instants:  *)
(* enough for an entry to rise and to sink two levels of the heap.  One    *)
(* advanceTo at a time may be about to return, while others schedule, let  *)
(* the clock run until it is idle, and cancel.                             *)
(***************************************************************************)
EXTENDS VirtualClock
=============================================================================
