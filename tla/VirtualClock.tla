----------------------------- MODULE VirtualClock -----------------------------
(***************************************************************************)
(* The virtual clock that a simulation runs on (src/core/clock.ts): an     *)
(* instant, and tasks in a binary heap, the earliest on top and those of   *)
(* one instant in the order in which they were scheduled.  A task that is  *)
(* cancelled stays in the heap, marked, until it comes to the top.         *)
(*                                                                         *)
(* Every call is synchronous but for the drain, which awaits each task: a  *)
(* task, and others meanwhile, may schedule and cancel.  advanceTo awaits  *)
(* the drain in turn and only then takes the time to its target: between   *)
(* the two the next drain may begin, and whatever else runs may call.      *)
(* The loops that sift an entry are taken a swap at a time, with nothing   *)
(* in between.                                                             *)
(*                                                                         *)
(* Index 1 here is index 0 there: i \div 2 is the parent of i.  The number *)
(* of an entry is its seq, which is its id less one.                       *)
(***************************************************************************)
EXTENDS Integers, Sequences

CONSTANTS
  Instants, Works,  \* what may be scheduled, and for when
  None,
  Forever,          \* the horizon of runUntilIdle
  maxSteps,
  MaxTasks,         \* bounds how many tasks are ever scheduled
  MaxReturns        \* bounds how many calls of advanceTo are to return

ASSUME ClockAssumption ==
  /\ Instants \subseteq Int /\ {maxSteps, MaxTasks, MaxReturns} \subseteq Nat
  /\ None \notin Instants /\ Forever \notin Instants /\ None # Forever
  /\ None \notin [at : Instants, seq : Nat, work : Works]

VARIABLES
  current,
  items,      \* the heap
  nextSeq,
  live,       \* the entries that are to run, by id
  cancelled,  \* the numbers of the entries that are marked
  horizon,    \* of the drain that goes on, or None
  fired,      \* tasks it has run, or 0
  returning,  \* the targets of drains that are over, until advanceTo goes on
  pc,         \* what the clock is at: "ready" for the next call
  i,          \* where the entry that is sifted is, or 1
  top,        \* what a drain has popped
  early       \* history: entries alive that were scheduled up to such a target

returns == <<returning, early>>
vars == <<current, items, nextSeq, live, cancelled, horizon, fired, returns, pc, i, top>>

Entries == [at : Instants, seq : Nat, work : Works]

Init ==
  /\ current \in Instants /\ items = <<>> /\ nextSeq = 0 /\ live = {} /\ cancelled = {}
  /\ horizon = None /\ fired = 0 /\ returning = <<>> /\ early = {}
  /\ pc = "ready" /\ i = 1 /\ top = None

-----------------------------------------------------------------------------
(* The heap *)

precedes(a, b) == a.at < b.at \/ (a.at = b.at /\ a.seq < b.seq)

Swapped(j, k) == [items EXCEPT ![j] = items[k], ![k] = items[j]]

\* The entry at j, if there is one, comes before the entry at k.
Before(j, k) == j <= Len(items) /\ precedes(items[j], items[k])

Rises == i > 1 /\ Before(i, i \div 2)

Rise ==
  /\ pc = "up" /\ Rises
  /\ items' = Swapped(i, i \div 2) /\ i' = i \div 2
  /\ UNCHANGED <<current, nextSeq, live, cancelled, horizon, fired, pc, top, returns>>

\* A slip: only the left child is looked at.
SinksLeft(j) == j = 2 * i /\ Before(j, i)

\* Into the place of the smaller child.
SinksTo(j) == j \in {2 * i, 2 * i + 1} /\ Before(j, i) /\ ~Before(4 * i + 1 - j, j)

Sink ==
  /\ pc = "down"
  /\ \E j \in {2 * i, 2 * i + 1} : SinksTo(j) /\ items' = Swapped(i, j) /\ i' = j
  /\ UNCHANGED <<current, nextSeq, live, cancelled, horizon, fired, pc, top, returns>>

\* A pop is over: of a drain, or of a look at what is next.
Returned == IF top = None THEN "peek" ELSE "fire"

Sunk ==
  /\ pc = "down" /\ \A j \in {2 * i, 2 * i + 1} : ~SinksTo(j)
  /\ pc' = Returned /\ i' = 1
  /\ UNCHANGED <<current, items, nextSeq, live, cancelled, horizon, fired, top, returns>>

\* The last entry takes the place of the first.
Pop(by) ==
  /\ pc = by /\ top' = IF by = "drain" THEN Head(items) ELSE None
  /\ IF Len(items) = 1 THEN items' = <<>> /\ pc' = Returned'
     ELSE /\ items' = [SubSeq(items, 1, Len(items) - 1) EXCEPT ![1] = items[Len(items)]]
          /\ pc' = "down"
  /\ i' = 1
  /\ UNCHANGED <<current, nextSeq, live, cancelled, horizon, fired, returns>>

-----------------------------------------------------------------------------
(* Calls: by a task that runs, by others while it does, or between drains *)

MayCall == pc = "ready"

\* Into the past nothing is scheduled: that throws.
InTime(at) == at >= current

\* A drain is over whose advanceTo is yet to take the time there, or past it.
Awaited(at) == \E k \in DOMAIN returning : at <= returning[k]

schedule(at, work) ==
  /\ MayCall /\ InTime(at) /\ nextSeq < MaxTasks
  /\ LET entry == [at |-> at, seq |-> nextSeq, work |-> work]
     IN /\ items' = Append(items, entry)
        /\ early' = IF Awaited(at) THEN early \cup {entry} ELSE early
  /\ nextSeq' = nextSeq + 1
  /\ pc' = "up" /\ i' = Len(items) + 1
  /\ UNCHANGED <<current, live, cancelled, horizon, fired, top, returning>>

Scheduled ==
  /\ pc = "up" /\ ~Rises
  /\ live' = live \cup {items[i]} /\ pc' = "ready" /\ i' = 1
  /\ UNCHANGED <<current, items, nextSeq, cancelled, horizon, fired, top, returns>>

\* A slip: the entry is marked and stays alive.
Kept(entry) == live

Without(entry) == live \ {entry}

cancel(entry) ==
  /\ MayCall /\ entry \in live
  /\ cancelled' = cancelled \cup {entry.seq} /\ live' = Without(entry)
  /\ early' = early \ {entry}
  /\ UNCHANGED <<current, items, nextSeq, horizon, fired, returning, pc, i, top>>

\* Marked entries on top are dropped by the way.
nextAt ==
  /\ MayCall /\ items # <<>> /\ Head(items).seq \in cancelled
  /\ pc' = "peek"
  /\ UNCHANGED <<current, items, nextSeq, live, cancelled, horizon, fired, i, top, returns>>

Dropped == pc = "peek" /\ items # <<>> /\ Head(items).seq \in cancelled /\ Pop("peek")

Peeked ==
  /\ pc = "peek" /\ ~(items # <<>> /\ Head(items).seq \in cancelled)
  /\ pc' = "ready"
  /\ UNCHANGED <<current, items, nextSeq, live, cancelled, horizon, fired, i, top, returns>>

-----------------------------------------------------------------------------
(* The drain; into one that goes on there is no other: that throws *)

Backwards(target) == target # Forever /\ target < current

advanceTo(target) ==
  /\ MayCall /\ horizon = None /\ ~Backwards(target)
  /\ target # Forever => Len(returning) < MaxReturns
  /\ horizon' = target /\ pc' = "drain"
  /\ UNCHANGED <<current, items, nextSeq, live, cancelled, fired, i, top, returns>>

Beyond(at) == horizon # Forever /\ at > horizon

WithinHorizon == items # <<>> /\ ~Beyond(Head(items).at)

PopNext == pc = "drain" /\ WithinHorizon /\ Pop("drain")

\* The drain is over.  What awaits it goes on later, if it is advanceTo;
\* runUntilIdle has nothing left to do.
Drained ==
  /\ pc = "drain" /\ ~WithinHorizon
  /\ horizon' = None /\ fired' = 0 /\ pc' = "ready"
  /\ returning' = IF horizon = Forever THEN returning ELSE Append(returning, horizon)
  /\ UNCHANGED <<current, items, nextSeq, live, cancelled, i, top, early>>

\* Time passes to the target, unless it is there already.  Continuations run in
\* the order in which the drains were over, and never amid a call.
Arrive ==
  /\ pc = "ready" /\ returning # <<>>
  /\ current' = IF Head(returning) > current THEN Head(returning) ELSE current
  /\ returning' = Tail(returning)
  /\ UNCHANGED <<items, nextSeq, live, cancelled, horizon, fired, pc, i, top, early>>

Skip ==
  /\ pc = "fire" /\ top.seq \in cancelled
  /\ top' = None /\ pc' = "drain"
  /\ UNCHANGED <<current, items, nextSeq, live, cancelled, horizon, fired, i, returns>>

\* The task runs, at its instant; past the limit it is dropped, and the drain
\* throws.
Fire ==
  /\ pc = "fire" /\ top.seq \notin cancelled
  /\ live' = live \ {top} /\ current' = top.at
  /\ IF fired + 1 > maxSteps THEN horizon' = None /\ fired' = 0
     ELSE horizon' = horizon /\ fired' = fired + 1
  /\ top' = None /\ pc' = "ready" /\ early' = early \ {top}
  /\ UNCHANGED <<items, nextSeq, cancelled, returning, i>>

\* The task that runs is done.
Settled ==
  /\ pc = "ready" /\ horizon # None
  /\ pc' = "drain"
  /\ UNCHANGED <<current, items, nextSeq, live, cancelled, horizon, fired, i, top, returns>>

\* It throws, and the drain with it.
Thrown ==
  /\ pc = "ready" /\ horizon # None
  /\ horizon' = None /\ fired' = 0
  /\ UNCHANGED <<current, items, nextSeq, live, cancelled, pc, i, top, returns>>

Next ==
  \/ \E at \in Instants, work \in Works : schedule(at, work)
  \/ \E entry \in live : cancel(entry)
  \/ \E target \in Instants \cup {Forever} : advanceTo(target)
  \/ Rise \/ Scheduled \/ Sink \/ Sunk
  \/ nextAt \/ Dropped \/ Peeked
  \/ PopNext \/ Drained \/ Arrive \/ Skip \/ Fire \/ Settled \/ Thrown

Spec == Init /\ [][Next]_vars

-----------------------------------------------------------------------------
(* What must hold *)

Agenda == INSTANCE Agenda WITH
  now <- current,
  agenda <- {[at |-> e.at, turn |-> e.seq, work |-> e.work] : e \in live},
  turn <- IF pc = "up" THEN nextSeq - 1 ELSE nextSeq

\* Time passes over tasks, but only over such as were scheduled between the end
\* of the drain and the return of its advanceTo, which nothing prevents.
PassesOver == Arrive /\ \A e \in live : e.at > current' \/ e \in early

\* The clock keeps the agenda: the tasks that are alive run in the order of
\* their instants, and of their numbers at one instant, whatever is scheduled
\* and cancelled from within a task, between tasks and while advanceTo returns,
\* and whichever drain ends half way; and no task is passed over by the time
\* but those of PassesOver.  A task is on the agenda when its call returns.
ImplementsAgenda == Agenda!Init /\ [][Agenda!Next \/ PassesOver]_(Agenda!vars)

\* What is alive is in the heap, once and unmarked, and nothing else is, so that
\* "pending" counts what is still to run; but for the entry that a call of
\* schedule is about to add, and the one that a drain is about to run.
Queued == {items[j] : j \in DOMAIN items} \cup (IF top = None THEN {} ELSE {top})

PendingIsQueued ==
  /\ live = {e \in Queued : e.seq \notin cancelled /\ ~(pc = "up" /\ e = items[i])}
  /\ \A j, k \in DOMAIN items : items[j].seq = items[k].seq => j = k

\* Nothing that is to run is in the past, but for what was scheduled early.
NothingOverdue == \A e \in live : e.at >= current \/ e \in early

\* Time goes back only to run what was scheduled between the end of a drain and
\* the return of its advanceTo, for an instant before the target.
OnlyForward == [][current' >= current \/ (Fire /\ top \in early)]_vars

=============================================================================
