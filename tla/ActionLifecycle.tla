--------------------------- MODULE ActionLifecycle ---------------------------
(***************************************************************************)
(* What the outbox and its executors promise together about each intended  *)
(* action, whatever the number of drains: it waits, one worker holds it,   *)
(* and it either goes back to waiting or is closed.  Nothing reopens a     *)
(* closed action, nobody but its holder moves a held one, a worker holds   *)
(* one action at a time, and a worker that dies leaves the action          *)
(* abandoned: held by nobody, for good.                                    *)
(*                                                                         *)
(* A stop closes any number of waiting actions in one statement and a      *)
(* crash takes several workers, so a step moves any number of actions,     *)
(* each along its own life.                                                *)
(***************************************************************************)
CONSTANTS Action, Worker, Nobody

VARIABLES phase, holder

Phase == {"absent", "waiting", "held", "abandoned", "closed"}

Init ==
  /\ phase = [a \in Action |-> "absent"]
  /\ holder = [a \in Action |-> Nobody]

Move(a, from, to, w) ==
  /\ phase[a] = from /\ phase'[a] = to
  /\ holder'[a] = w

Submit(a) == Move(a, "absent", "waiting", Nobody)

Take(a, w) ==
  /\ \A b \in Action : holder[b] # w
  /\ Move(a, "waiting", "held", w)

Return(a) == Move(a, "held", "waiting", Nobody)

Close(a) == Move(a, "held", "closed", Nobody)

Cancel(a) == Move(a, "waiting", "closed", Nobody)

Abandon(a) == Move(a, "held", "abandoned", Nobody)

Stay(a) == phase'[a] = phase[a] /\ holder'[a] = holder[a]

Next ==
  /\ phase' \in [Action -> Phase]
  /\ holder' \in [Action -> Worker \cup {Nobody}]
  /\ \A a \in Action :
       \/ Stay(a) \/ Submit(a) \/ Return(a) \/ Close(a) \/ Cancel(a) \/ Abandon(a)
       \/ \E w \in Worker : Take(a, w)

Spec == Init /\ [][Next]_<<phase, holder>>
=============================================================================
