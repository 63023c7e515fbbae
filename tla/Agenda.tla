-------------------------------- MODULE Agenda --------------------------------
(***************************************************************************)
(* What a virtual clock promises to those who schedule on it               *)
(* (src/core/clock.ts): an instant, and tasks that are due later.  They    *)
(* run one at a time, the earliest first and those of one instant in their *)
(* turn, each at its own instant; and time passes over no task.            *)
(*                                                                         *)
(* VirtualClock implements it with a heap; Scenario runs on it.            *)
(***************************************************************************)
EXTENDS Integers

CONSTANTS
  Instants, Works   \* what may be scheduled, and for when

VARIABLES
  now,
  agenda,           \* the tasks that are due later
  turn              \* of the next task

vars == <<now, agenda, turn>>

Task(at, n, work) == [at |-> at, turn |-> n, work |-> work]

Precedes(t, u) == t.at < u.at \/ (t.at = u.at /\ t.turn < u.turn)

Init == now \in Instants /\ agenda = {} /\ turn = 0

\* Into the past nothing is scheduled: that throws.
Schedule(at, work) ==
  /\ at >= now
  /\ agenda' = agenda \cup {Task(at, turn, work)} /\ turn' = turn + 1
  /\ UNCHANGED now

Cancel(task) == agenda' = agenda \ {task} /\ UNCHANGED <<now, turn>>

Run(task) ==
  /\ \A other \in agenda \ {task} : Precedes(task, other)
  /\ agenda' = agenda \ {task} /\ now' = task.at
  /\ UNCHANGED turn

\* Nothing is to be run until then.
Pass(at) ==
  /\ at >= now /\ \A task \in agenda : task.at > at
  /\ now' = at
  /\ UNCHANGED <<agenda, turn>>

Next ==
  \/ \E at \in Instants : Pass(at) \/ \E work \in Works : Schedule(at, work)
  \/ \E task \in agenda : Cancel(task) \/ Run(task)

Spec == Init /\ [][Next]_vars

=============================================================================
