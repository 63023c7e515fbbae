------------------------- MODULE DecisionCycleProofs --------------------------
(***************************************************************************)
(* Theorems about DecisionCycle, for any cases, actions, budgets, cadences *)
(* and numbers of webhooks, wishes and faults.                             *)
(***************************************************************************)
EXTENDS DecisionCycle, FiniteSetTheorems, TLAPS

-----------------------------------------------------------------------------
(* Types *)

\* What a stage needs is at hand: where a decision or an escalation is
\* written there is one, and what is dispatched has an action.
AtHand ==
  /\ pc \in {"escalate", "persist"} => plan \in Plans
  /\ pc = "dispatch" => todo \subseteq Waiting

\* The hours that the cadences give are in range.
LEMMA HoursInRange ==
  /\ AFTER_EXECUTE \in Later /\ AFTER_WAIT \in Later
  /\ {-1, 0, 1} \subseteq Later /\ Later \subseteq Int
  /\ \A n \in Later : Sooner(n) \in Later
  BY CycleAssumption DEF Later, Sooner

\* What a step writes to a state is a state.
LEMMA SetStateType ==
  ASSUME state \in [Case -> State], over \subseteq Case,
         NEW c \in Case, NEW s \in State, SetState(c, s)
  PROVE  /\ state' \in [Case -> State] /\ over' \subseteq Case
         /\ state'[c] = s /\ \A d \in Case \ {c} : state'[d] = state[d]
         /\ s \notin Terminal => over' = over \ {c}
         /\ over' \subseteq over
  BY DEF SetState

\* A load yields a row.
LEMMA ViewType ==
  ASSUME TypeOK, NEW c \in Case
  PROVE  View(c) \in Row
  BY DEF TypeOK, View, Fresh, Row

\* Whatever is decided has an action or none, and a date in range.
LEMMA OutcomeType ==
  ASSUME NEW c \in Case, NEW o \in Outcomes(c)
  PROVE  o.action \in Action \cup {None} /\ o.wait \in Later
  BY HoursInRange DEF Outcomes

\* Closing rows leaves rows.
LEMMA CloseType ==
  ASSUME rows \subseteq OutboxRows, NEW closed
  PROVE  Close(closed) \subseteq OutboxRows
<1>1. ASSUME NEW r \in rows
      PROVE  (IF r \in closed THEN [r EXCEPT !.open = FALSE] ELSE r) \in OutboxRows
  <2>1. r \in [case : Case, action : Action, age : 0..2, open : BOOLEAN]
    BY DEF OutboxRows
  <2>2. [r EXCEPT !.open = FALSE] \in [case : Case, action : Action, age : 0..2, open : BOOLEAN]
    BY <2>1
  <2>3. QED
    BY <2>1, <2>2 DEF OutboxRows
<1>2. QED
  BY <1>1 DEF Close

LEMMA TypeInit == Init => TypeOK /\ AtHand
  BY HoursInRange, CycleAssumption
  DEF Init, TypeOK, AtHand, State, Live, Terminal, PC, Empty

\* Each step keeps the types.
LEMMA TypeStep ==
  ASSUME TypeOK, AtHand, [Next]_vars
  PROVE  TypeOK' /\ AtHand'
<1> USE DEF TypeOK, AtHand, Waiting, Keep, table, stack, bounds
<1>1. ASSUME StartTick PROVE TypeOK' /\ AtHand'
  BY <1>1 DEF StartTick, PC
<1>2. ASSUME NEW c \in Case, ReadReply(c) PROVE TypeOK' /\ AtHand'
  BY <1>2, HoursInRange DEF ReadReply, PC, Plans, State
<1>3. ASSUME Escalate PROVE TypeOK' /\ AtHand'
  <2>1. plan.case \in Case /\ plan.state \in State
    BY <1>3 DEF Escalate, Plans
  <2>2. QED
    BY <1>3, <2>1, SetStateType DEF Escalate, PC
<1>4. ASSUME InboxRead PROVE TypeOK' /\ AtHand'
  BY <1>4 DEF InboxRead, PC
<1>5. ASSUME SelectDue PROVE TypeOK' /\ AtHand'
  BY <1>5 DEF SelectDue, Due, PC
<1>6. ASSUME Prefetch PROVE TypeOK' /\ AtHand'
  <2>1. \A c \in Case : Fresh(c) \in Row
    BY DEF Fresh, Row
  <2>2. QED
    BY <1>6, <2>1 DEF Prefetch, PC
<1>7. ASSUME NEW c \in Case, Decide(c) PROVE TypeOK' /\ AtHand'
  <2>1. pc' \in {"decide", "persist"} /\ plan' \in Plans \cup {None}
        /\ (pc' = "persist" => plan' \in Plans)
    BY <1>7, ViewType, OutcomeType DEF Decide, Plans, Row
  <2>2. QED
    BY <1>7, <2>1 DEF Decide, PC
<1>8. ASSUME Persist PROVE TypeOK' /\ AtHand'
  <2>1. /\ plan.case \in Case /\ plan.state \in State
        /\ plan.action \in Action \cup {None} /\ plan.wait \in Later
    BY <1>8 DEF Persist, Plans
  <2>2. (IF plan.state = "OPEN" THEN "IN_PROGRESS" ELSE plan.state) \in State
    BY <2>1 DEF State, Live
  <2>3. state' \in [Case -> State] /\ over' \subseteq Case
    BY <1>8, <2>1, <2>2, SetStateType DEF Persist
  <2>4. QED
    BY <1>8, <2>1, <2>3 DEF Persist, PC
<1>9. ASSUME Allocate PROVE TypeOK' /\ AtHand'
  BY <1>9 DEF Allocate, PC
<1>10. ASSUME Release PROVE TypeOK' /\ AtHand'
  BY <1>10 DEF Release, PC, Empty
<1>11. ASSUME NEW c \in Case, Enqueue(c) PROVE TypeOK' /\ AtHand'
  <2>1. rows' \subseteq OutboxRows
    <3>1. CASE HasRow(c, pending[c])
      BY <1>11, <3>1 DEF Enqueue
    <3>2. CASE ~HasRow(c, pending[c])
      <4>1. pending[c] \in Action
        BY <1>11 DEF Enqueue
      <4>2. [case |-> c, action |-> pending[c], age |-> age, open |-> TRUE] \in OutboxRows
        BY <4>1 DEF OutboxRows
      <4>3. QED
        BY <1>11, <3>2, <4>2 DEF Enqueue
    <3>3. QED
      BY <3>1, <3>2
  <2>2. QED
    BY <1>11, <2>1 DEF Enqueue
<1>12. ASSUME NEW c \in Case, DeferForBudget(c) PROVE TypeOK' /\ AtHand'
  BY <1>12, HoursInRange DEF DeferForBudget
<1>13. ASSUME Dispatched PROVE TypeOK' /\ AtHand'
  BY <1>13 DEF Dispatched, PC
<1>14. ASSUME NEW r \in rows, Execute(r) PROVE TypeOK' /\ AtHand'
  <2>1. Close({r}) \subseteq OutboxRows
    BY CloseType
  <2>2. QED
    BY <1>14, <2>1 DEF Execute
<1>15. ASSUME NEW r \in rows, Stop(r) PROVE TypeOK' /\ AtHand'
  <2>1. Close({q \in rows : q.case = r.case}) \subseteq OutboxRows
    BY CloseType
  <2>2. r.case \in Case
    BY DEF OutboxRows
  <2>3. QED
    BY <1>15, <2>1, <2>2 DEF Stop, PC
<1>16. ASSUME RecordStop PROVE TypeOK' /\ AtHand'
  <2>1. PICK c \in todo : SetState(c, IF pc = "recover" THEN "RECOVERED" ELSE "STOPPED")
    BY <1>16 DEF RecordStop
  <2>2. (IF pc = "recover" THEN "RECOVERED" ELSE "STOPPED") \in State
    BY DEF State, Terminal
  <2>3. state' \in [Case -> State] /\ over' \subseteq Case
    BY <2>1, <2>2, SetStateType
  <2>4. QED
    BY <1>16, <2>3 DEF RecordStop, PC
<1>17. ASSUME EndTick PROVE TypeOK' /\ AtHand'
  BY <1>17 DEF EndTick, Leave, PC, Empty
<1>18. ASSUME Throw PROVE TypeOK' /\ AtHand'
  BY <1>18, CycleAssumption DEF Throw, Leave, PC, Empty
<1>19. ASSUME Crash PROVE TypeOK' /\ AtHand'
  BY <1>19, CycleAssumption DEF Crash, Leave, PC, Empty
<1>20. ASSUME NEW c \in Case, Find(c) PROVE TypeOK' /\ AtHand'
  BY <1>20, CycleAssumption DEF Find
<1>21. ASSUME NEW o \in BOOLEAN, Post(o) PROVE TypeOK' /\ AtHand'
  BY <1>21 DEF Post
<1>22. ASSUME Settle PROVE TypeOK' /\ AtHand'
  <2>1. hook.case \in Case
    BY <1>22 DEF Settle
  <2>2. {"RECOVERED", "IN_PROGRESS"} \subseteq State
    BY DEF State, Live, Terminal
  <2>3. state' \in [Case -> State] /\ over' \subseteq Case
    BY <1>22, <2>1, <2>2, SetStateType DEF Settle
  <2>4. QED
    BY <1>22, <2>3 DEF Settle
<1>23. ASSUME NEW c \in Case, Reply(c) PROVE TypeOK' /\ AtHand'
  BY <1>23, CycleAssumption DEF Reply
<1>24. ASSUME NEW c \in Case, Approve(c) PROVE TypeOK' /\ AtHand'
  BY <1>24, HoursInRange, CycleAssumption DEF Approve
<1>25. ASSUME Pass PROVE TypeOK' /\ AtHand'
  <2>1. nextIn' \in [Case -> Later]
    BY <1>25, HoursInRange DEF Pass
  <2>2. plan # None => plan' \in Plans
    BY <1>25, HoursInRange DEF Pass, Plans
  <2>3. rows' \subseteq OutboxRows
    BY <1>25 DEF Pass, OutboxRows
  <2>4. plan' \in Plans \cup {None} /\ (plan \in Plans => plan' \in Plans)
    BY <1>25, <2>2 DEF Pass
  <2>5. QED
    BY <1>25, <2>1, <2>3, <2>4 DEF Pass
<1>26. ASSUME UNCHANGED vars PROVE TypeOK' /\ AtHand'
  BY <1>26 DEF vars
<1>27. QED
  BY <1>1, <1>2, <1>3, <1>4, <1>5, <1>6, <1>7, <1>8, <1>9, <1>10, <1>11, <1>12, <1>13,
     <1>14, <1>15, <1>16, <1>17, <1>18, <1>19, <1>20, <1>21, <1>22, <1>23, <1>24, <1>25,
     <1>26
  DEF Next, Tick

\* Every variable keeps its type: dates stay within the cadence however
\* often they are moved, and no stage finds less than it needs.
THEOREM TypeCorrect == Spec => []TypeOK
<1>1. TypeOK /\ AtHand /\ [Next]_vars => (TypeOK /\ AtHand)'
  BY TypeStep
<1>2. QED
  BY <1>1, TypeInit, PTL DEF Spec

-----------------------------------------------------------------------------
(* What is decided, and on which row *)

\* What makes the three properties inductive: a case that is to be decided
\* was not waiting for a person when it was selected and cannot begin to,
\* and if it is terminal since the prefetch then its prefetched row says so.
OverTerminal == \A c \in over : state[c] \in Terminal

TodoLive ==
  pc \in {"prefetch", "decide", "persist"} =>
    \A c \in todo : state[c] # "AWAITING_HUMAN"

CacheTells ==
  pc \in {"decide", "persist"} => \A c \in todo :
    cache[c] # None =>
      /\ cache[c].state # "AWAITING_HUMAN"
      /\ c \in over => cache[c].state \in Terminal

PlanLive ==
  pc = "persist" =>
    /\ plan.state # "AWAITING_HUMAN" /\ state[plan.case] # "AWAITING_HUMAN"
    /\ plan.case \notin over

CacheReleased == pc \in {"dispatch", "drain", "stop", "recover"} => cache = Empty

CycleSafe == OverTerminal /\ TodoLive /\ CacheTells /\ PlanLive /\ CacheReleased

\* What a step that leaves the tick where it is, and escalates nothing, keeps.
LEMMA Elsewhere ==
  ASSUME CycleSafe, OverTerminal', over' \subseteq over,
         UNCHANGED <<pc, todo, cache>>,
         plan' = plan \/ (plan'.case = plan.case /\ plan'.state = plan.state),
         \A c \in Case : state[c] # "AWAITING_HUMAN" => state'[c] # "AWAITING_HUMAN",
         TypeOK, AtHand
  PROVE  CycleSafe'
  BY DEF CycleSafe, TodoLive, CacheTells, PlanLive, CacheReleased, TypeOK, AtHand, Plans

LEMMA SafeStep ==
  ASSUME TypeOK, AtHand, CycleSafe, [Next]_vars
  PROVE  CycleSafe'
<1> USE DEF CycleSafe, OverTerminal, TodoLive, CacheTells, PlanLive, CacheReleased,
            Keep, table, stack
<1>1. ASSUME StartTick PROVE CycleSafe'
  BY <1>1 DEF StartTick
<1>2. ASSUME NEW c \in Case, ReadReply(c) PROVE CycleSafe'
  BY <1>2 DEF ReadReply
<1>3. ASSUME Escalate PROVE CycleSafe'
  <2>1. plan.case \in Case /\ plan.state \in State
    BY <1>3 DEF Escalate, AtHand, Plans
  <2>2. OverTerminal'
    BY <1>3, <2>1, SetStateType DEF Escalate, TypeOK, SetState
  <2>3. QED
    BY <1>3, <2>2 DEF Escalate
<1>4. ASSUME InboxRead PROVE CycleSafe'
  BY <1>4 DEF InboxRead
<1>5. ASSUME SelectDue PROVE CycleSafe'
  BY <1>5 DEF SelectDue, Due, Live
<1>6. ASSUME Prefetch PROVE CycleSafe'
  BY <1>6 DEF Prefetch, Fresh, TypeOK
<1>7. ASSUME NEW c \in Case, Decide(c) PROVE CycleSafe'
  <2>1. View(c).state # "AWAITING_HUMAN" /\ (c \in over => View(c).state \in Terminal)
    BY <1>7 DEF Decide, View, Fresh
  <2>2. CASE View(c).state \in Terminal
    BY <1>7, <2>2 DEF Decide
  <2>3. CASE View(c).state \notin Terminal
    <3>1. pc' = "persist" /\ plan'.case = c /\ plan'.state = View(c).state
      BY <1>7, <2>3 DEF Decide
    <3>2. PlanLive'
      BY <1>7, <2>1, <2>3, <3>1 DEF Decide
    <3>3. QED
      BY <1>7, <3>1, <3>2 DEF Decide
  <2>4. QED
    BY <2>2, <2>3
<1>8. ASSUME Persist PROVE CycleSafe'
  <2>1. plan.case \in Case /\ plan.state \in State
    BY <1>8 DEF Persist, AtHand, Plans
  <2> DEFINE s == IF plan.state = "OPEN" THEN "IN_PROGRESS" ELSE plan.state
  <2>2. s \in State /\ s # "AWAITING_HUMAN"
    BY <1>8, <2>1 DEF Persist, State, Live
  <2>3. /\ state'[plan.case] = s /\ over' \subseteq over
        /\ \A d \in Case \ {plan.case} : state'[d] = state[d]
        /\ s \notin Terminal => over' = over \ {plan.case}
    BY <1>8, <2>1, <2>2, SetStateType DEF Persist, TypeOK
  <2>4. OverTerminal'
    BY <2>3 DEF TypeOK
  <2>5. TodoLive'
    BY <1>8, <2>2, <2>3 DEF Persist, TypeOK
  <2>6. CacheTells'
    BY <1>8, <2>3 DEF Persist
  <2>7. QED
    BY <1>8, <2>4, <2>5, <2>6 DEF Persist
<1>9. ASSUME Allocate PROVE CycleSafe'
  BY <1>9 DEF Allocate
<1>10. ASSUME Release PROVE CycleSafe'
  BY <1>10 DEF Release, Empty
<1>11. ASSUME NEW c \in Case, Enqueue(c) PROVE CycleSafe'
  BY <1>11 DEF Enqueue, Empty
<1>12. ASSUME NEW c \in Case, DeferForBudget(c) PROVE CycleSafe'
  BY <1>12 DEF DeferForBudget, Empty
<1>13. ASSUME Dispatched PROVE CycleSafe'
  BY <1>13 DEF Dispatched, Empty
<1>14. ASSUME NEW r \in rows, Execute(r) PROVE CycleSafe'
  BY <1>14 DEF Execute, Empty
<1>15. ASSUME NEW r \in rows, Stop(r) PROVE CycleSafe'
  BY <1>15 DEF Stop, Empty
<1>16. ASSUME RecordStop PROVE CycleSafe'
  <2>1. PICK c \in todo : SetState(c, IF pc = "recover" THEN "RECOVERED" ELSE "STOPPED")
    BY <1>16 DEF RecordStop
  <2>2. OverTerminal'
    BY <2>1 DEF SetState, Terminal, TypeOK
  <2>3. QED
    BY <1>16, <2>2 DEF RecordStop, Empty
<1>17. ASSUME EndTick PROVE CycleSafe'
  BY <1>17 DEF EndTick, Leave
<1>18. ASSUME Throw PROVE CycleSafe'
  BY <1>18 DEF Throw, Leave
<1>19. ASSUME Crash PROVE CycleSafe'
  BY <1>19 DEF Crash, Leave
<1>20. ASSUME NEW c \in Case, Find(c) PROVE CycleSafe'
  BY <1>20, Elsewhere DEF Find
<1>21. ASSUME NEW o \in BOOLEAN, Post(o) PROVE CycleSafe'
  BY <1>21, Elsewhere DEF Post
<1>22. ASSUME Settle PROVE CycleSafe'
  <2>1. hook.case \in Case
    BY <1>22 DEF Settle, TypeOK
  <2>2. over' \subseteq over /\ OverTerminal'
    BY <1>22, <2>1 DEF Settle, SetState, Terminal, TypeOK
  <2>3. \A c \in Case : state[c] # "AWAITING_HUMAN" => state'[c] # "AWAITING_HUMAN"
    BY <1>22, <2>1 DEF Settle, SetState, TypeOK
  <2>4. QED
    BY <1>22, <2>2, <2>3, Elsewhere DEF Settle
<1>23. ASSUME NEW c \in Case, Reply(c) PROVE CycleSafe'
  BY <1>23, Elsewhere DEF Reply
<1>24. ASSUME NEW c \in Case, Approve(c) PROVE CycleSafe'
  BY <1>24, Elsewhere DEF Approve
<1>25. ASSUME Pass PROVE CycleSafe'
  <2>1. plan' = plan \/ (plan'.case = plan.case /\ plan'.state = plan.state)
    BY <1>25 DEF Pass, TypeOK, Plans
  <2>2. QED
    BY <1>25, <2>1, Elsewhere DEF Pass
<1>26. ASSUME UNCHANGED vars PROVE CycleSafe'
  BY <1>26, Elsewhere DEF vars
<1>27. QED
  BY <1>1, <1>2, <1>3, <1>4, <1>5, <1>6, <1>7, <1>8, <1>9, <1>10, <1>11, <1>12, <1>13,
     <1>14, <1>15, <1>16, <1>17, <1>18, <1>19, <1>20, <1>21, <1>22, <1>23, <1>24, <1>25,
     <1>26
  DEF Next, Tick

LEMMA Safe == Spec => [](TypeOK /\ CycleSafe)
<1>1. Init => CycleSafe
  BY DEF Init, CycleSafe, OverTerminal, TodoLive, CacheTells, PlanLive, CacheReleased
<1>2. TypeOK /\ AtHand /\ CycleSafe /\ [Next]_vars => (TypeOK /\ AtHand /\ CycleSafe)'
  BY TypeStep, SafeStep
<1>3. QED
  BY <1>1, <1>2, TypeInit, PTL DEF Spec

\* A case that is terminal since the prefetch is not decided, whatever an
\* exception has left in the cache and whatever settles meanwhile.
THEOREM TerminalIsSpared == Spec => []DecidesOnlyLive
<1>1. CycleSafe => DecidesOnlyLive
  BY DEF CycleSafe, PlanLive, DecidesOnlyLive
<1>2. QED
  BY <1>1, Safe, PTL

\* A case that waits for a person is not decided, in any cycle.
THEOREM HumanIsWaitedFor == Spec => []NotDecidedWhileHuman
<1>1. CycleSafe => NotDecidedWhileHuman
  BY DEF CycleSafe, PlanLive, NotDecidedWhileHuman
<1>2. QED
  BY <1>1, Safe, PTL

\* The gates of a drain load what is in the table.
THEOREM GatesAreFresh == Spec => []GatesSeeTheRow
<1>1. CycleSafe => GatesSeeTheRow
  BY DEF CycleSafe, CacheReleased, GatesSeeTheRow, Empty, View
<1>2. QED
  BY <1>1, Safe, PTL

-----------------------------------------------------------------------------
(* What is decided is dispatched *)

Placed(c) == HasRow(c, pending[c]) \/ nextIn[c] <= 1

\* An action is placed once its turn has come, and stays placed while the
\* drain works, stops cases and the clock goes on.
NoneLost ==
  /\ pc = "dispatch" => \A c \in Waiting \ todo : Placed(c)
  /\ pc \in {"drain", "stop", "recover"} => \A c \in Waiting : Placed(c)

\* A row keeps its key until the tick is over, open or closed.
KeysKept ==
  \A r \in rows : r.age = age =>
    \E s \in rows' : s.case = r.case /\ s.action = r.action /\ s.age = age'

LEMMA StillPlaced ==
  ASSUME KeysKept, NEW c \in Case, UNCHANGED pending, Placed(c),
         nextIn[c] <= 1 => nextIn'[c] <= 1
  PROVE  Placed(c)'
  BY DEF KeysKept, Placed, HasRow

LEMMA CloseKeeps ==
  ASSUME rows \subseteq OutboxRows, NEW closed, rows' = Close(closed), UNCHANGED age
  PROVE  KeysKept
<1> SUFFICES ASSUME NEW r \in rows, r.age = age
             PROVE  \E s \in rows' : s.case = r.case /\ s.action = r.action /\ s.age = age'
  BY DEF KeysKept
<1> DEFINE s == IF r \in closed THEN [r EXCEPT !.open = FALSE] ELSE r
<1>1. s \in rows'
  BY DEF Close
<1>2. s.case = r.case /\ s.action = r.action /\ s.age = r.age
  BY DEF OutboxRows
<1>3. QED
  BY <1>1, <1>2

LEMMA NoneLostStep ==
  ASSUME TypeOK, AtHand, NoneLost, [Next]_vars
  PROVE  NoneLost'
<1> USE DEF Keep, table, stack, bounds
<1>1. CASE pc' \notin {"dispatch", "drain", "stop", "recover"}
  BY <1>1 DEF NoneLost
\* Steps that leave the outbox, the window and what is pending alone.
<1>2. CASE /\ UNCHANGED <<rows, age, pending>>
           /\ \A c \in Case : nextIn[c] <= 1 => nextIn'[c] <= 1
           /\ \/ UNCHANGED <<pc, todo>>
              \/ pc = "dispatch" /\ todo = {} /\ pc' = "drain"
              \/ pc \in {"stop", "recover"} /\ pc' = "drain"
  BY <1>2 DEF NoneLost, Waiting, Placed, HasRow
<1>3. CASE KeysKept /\ UNCHANGED <<pending, nextIn>>
           /\ pc \in {"drain", "stop", "recover"} /\ pc' \in {"drain", "stop", "recover"}
  <2>1. \A c \in Case : pending'[c] # None => Placed(c)'
    BY <1>3, StillPlaced DEF NoneLost, Waiting
  <2>2. QED
    BY <1>3, <2>1 DEF NoneLost, Waiting
<1>4. ASSUME Release PROVE NoneLost'
  BY <1>4 DEF Release, NoneLost, Waiting
<1>5. ASSUME NEW c \in Case, Enqueue(c) PROVE NoneLost'
  <2>1. /\ pc = "dispatch" /\ UNCHANGED <<pc, pending, nextIn, age>>
        /\ c \in todo /\ todo' = todo \ {c} /\ rows \subseteq rows'
    BY <1>5 DEF Enqueue
  <2>2. HasRow(c, pending[c])'
    <3>1. CASE HasRow(c, pending[c])
      BY <1>5, <2>1, <3>1 DEF Enqueue, HasRow
    <3>2. CASE ~HasRow(c, pending[c])
      <4> DEFINE r == [case |-> c, action |-> pending[c], age |-> age, open |-> TRUE]
      <4>1. r \in rows'
        BY <1>5, <3>2 DEF Enqueue
      <4>2. r.case = c /\ r.action = pending[c] /\ r.age = age
        OBVIOUS
      <4>3. QED
        BY <2>1, <4>1, <4>2 DEF HasRow
    <3>3. QED
      BY <3>1, <3>2
  <2>3. KeysKept
    BY <2>1 DEF KeysKept
  <2>4. \A d \in Waiting \ todo : Placed(d)'
    BY <2>1, <2>3, StillPlaced DEF NoneLost, Waiting
  <2>5. QED
    BY <2>1, <2>2, <2>4 DEF NoneLost, Waiting, Placed
<1>6. ASSUME NEW c \in Case, DeferForBudget(c) PROVE NoneLost'
  <2>1. /\ pc = "dispatch" /\ UNCHANGED <<pc, pending, rows, age>>
        /\ c \in todo /\ todo' = todo \ {c}
        /\ nextIn' = [nextIn EXCEPT ![c] = 1 - age]
    BY <1>6 DEF DeferForBudget
  <2>2. nextIn'[c] <= 1 /\ \A d \in Case \ {c} : nextIn'[d] = nextIn[d]
    BY <2>1 DEF TypeOK
  <2>3. QED
    BY <2>1, <2>2 DEF NoneLost, Waiting, Placed, HasRow
<1>7. ASSUME NEW r \in rows, Execute(r) PROVE NoneLost'
  <2>1. KeysKept
    BY <1>7, CloseKeeps DEF Execute, TypeOK
  <2>2. QED
    BY <1>3, <1>7, <2>1 DEF Execute
<1>8. ASSUME NEW r \in rows, Stop(r) PROVE NoneLost'
  <2>1. KeysKept
    BY <1>8, CloseKeeps DEF Stop, TypeOK
  <2>2. QED
    BY <1>3, <1>8, <2>1 DEF Stop
<1>9. ASSUME NEW c \in Case, Approve(c) PROVE NoneLost'
  BY <1>2, <1>9 DEF Approve, TypeOK
<1>10. ASSUME Pass, pc # "idle" PROVE NoneLost'
  <2>1. /\ UNCHANGED <<pc, todo, pending>> /\ age = 0 /\ age' = 1
        /\ nextIn' = [c \in Case |-> Sooner(nextIn[c])]
    BY <1>10 DEF Pass
  <2>2. ASSUME NEW c \in Case, nextIn[c] <= 1 PROVE nextIn'[c] <= 1
    <3>1. nextIn[c] \in Int /\ nextIn'[c] = Sooner(nextIn[c])
      BY <2>1, HoursInRange DEF TypeOK
    <3>2. QED
      BY <2>2, <3>1 DEF Sooner
  <2>3. KeysKept
    <3> SUFFICES ASSUME NEW r \in rows, r.age = age
                 PROVE  \E s \in rows' : s.case = r.case /\ s.action = r.action /\ s.age = age'
      BY DEF KeysKept
    <3> DEFINE s == [r EXCEPT !.age = IF @ = 2 THEN 2 ELSE @ + 1]
    <3>1. s \in rows'
      BY <1>10, <2>1 DEF Pass
    <3>2. s.case = r.case /\ s.action = r.action /\ s.age = 1
      BY <2>1 DEF TypeOK, OutboxRows
    <3>3. QED
      BY <2>1, <3>1, <3>2
  <2>4. \A c \in Case : Placed(c) => Placed(c)'
    BY <2>1, <2>2, <2>3, StillPlaced
  <2>5. QED
    BY <2>1, <2>4 DEF NoneLost, Waiting
<1>11. ASSUME NEW c \in Case, Decide(c) \/ ReadReply(c) PROVE NoneLost'
  BY <1>1, <1>11 DEF Decide, ReadReply
<1>12. ASSUME StartTick \/ Escalate \/ InboxRead \/ SelectDue \/ Prefetch \/ Persist
              \/ Allocate \/ EndTick \/ Throw \/ Crash \/ (Pass /\ pc = "idle")
       PROVE  NoneLost'
  BY <1>1, <1>12 DEF StartTick, Escalate, InboxRead, SelectDue, Prefetch, Persist,
     Allocate, EndTick, Throw, Crash, Leave, Pass
<1>13. ASSUME \/ Dispatched \/ RecordStop \/ Settle \/ UNCHANGED vars
              \/ \E c \in Case : Find(c) \/ Reply(c)
              \/ \E o \in BOOLEAN : Post(o)
       PROVE  NoneLost'
  <2>1. UNCHANGED nextIn
    BY <1>13 DEF Dispatched, RecordStop, Settle, Find, Reply, Post, vars
  <2>2. QED
    BY <1>2, <1>13, <2>1 DEF Dispatched, RecordStop, Settle, Find, Reply, Post, vars
<1>14. QED
  BY <1>4, <1>5, <1>6, <1>7, <1>8, <1>9, <1>10, <1>11, <1>12, <1>13 DEF Next, Tick

\* The budget delays an action and loses none: each that a tick decided has a
\* row of its window, or its case is due again within the hour.
THEOREM NothingIsLost == Spec => []NoActionLost
<1>1. Init => NoneLost
  BY DEF Init, NoneLost
<1>2. TypeOK /\ AtHand /\ NoneLost /\ [Next]_vars => (TypeOK /\ AtHand /\ NoneLost)'
  BY TypeStep, NoneLostStep
<1>3. NoneLost => NoActionLost
  BY DEF NoneLost, NoActionLost, Placed
<1>4. QED
  BY <1>1, <1>2, <1>3, TypeInit, PTL DEF Spec

-----------------------------------------------------------------------------
(* One action for each window *)

RowsOf(c, n) == {r \in rows : r.case = c /\ r.age = n}

Cap(c) == IF approved[c] THEN 2 ELSE 1

\* A case that the tick is about to decide, and one whose action it is about
\* to enqueue.
Selected(c) ==
  /\ pc \in {"prefetch", "decide", "persist"}
  /\ c \in todo \/ (pc = "persist" /\ plan.case = c)

Chosen(c) ==
  \/ pc \in {"decide", "persist", "allocate"} /\ pending[c] # None
  \/ pc = "dispatch" /\ c \in todo \cap admitted

Load(c) == Cardinality(RowsOf(c, age)) + (IF Selected(c) \/ Chosen(c) THEN 1 ELSE 0)

\* What the rows of the window and the tick together may come to, and that a
\* case for which they come to that is not due in the window again.
Spaced(c) ==
  /\ \A n \in 0..1 : /\ IsFiniteSet(RowsOf(c, n))
                     /\ Cardinality(RowsOf(c, n)) <= Cap(c)
  /\ age = 1 => RowsOf(c, 0) = {}
  /\ Load(c) <= Cap(c)
  /\ ~Selected(c) /\ Load(c) = Cap(c) => nextIn[c] >= 1 - age

\* A tick decides a case once, and dates it an hour after its beginning or
\* later before it decides another.
Stages ==
  /\ pc \in {"idle", "inbox", "escalate", "due", "prefetch"} => pending = Empty
  /\ pc = "idle" => age = 0
  /\ pc = "persist" => plan.case \notin todo /\ plan.wait >= 1 - age
  /\ \A c \in Case : Selected(c) => pending[c] = None

LEMMA StagesStep ==
  ASSUME TypeOK, AtHand, Stages, [Next]_vars
  PROVE  Stages'
<1> USE DEF Stages, Selected, Keep, table, stack, bounds
<1>1. ASSUME StartTick \/ InboxRead \/ SelectDue \/ Prefetch PROVE Stages'
  BY <1>1 DEF StartTick, InboxRead, SelectDue, Due, Prefetch, Empty
<1>2. ASSUME NEW c \in Case, ReadReply(c) PROVE Stages'
  BY <1>2 DEF ReadReply
<1>3. ASSUME Escalate PROVE Stages'
  BY <1>3 DEF Escalate
<1>4. ASSUME NEW c \in Case, Decide(c) PROVE Stages'
  <2>1. /\ pc = "decide" /\ c \in todo /\ todo' = todo \ {c} /\ UNCHANGED <<pending, age>>
        /\ \/ pc' = "decide"
           \/ pc' = "persist" /\ plan'.case = c
    BY <1>4 DEF Decide
  <2>2. pc' = "persist" => plan'.wait >= 1 - age
    <3>1. ASSUME NEW o \in Outcomes(c) PROVE o.wait \in Int /\ o.wait >= 1
      BY CycleAssumption DEF Outcomes, Later
    <3> SUFFICES ASSUME pc' = "persist" PROVE plan'.wait >= 1 - age
      OBVIOUS
    <3>2. PICK o \in Outcomes(c) : plan'.wait = o.wait
      BY <1>4, <2>1 DEF Decide
    <3>3. age \in 0..1
      BY DEF TypeOK
    <3>4. o.wait \in Int /\ o.wait >= 1
      BY <3>1
    <3>5. QED
      BY <3>2, <3>3, <3>4
  <2>3. QED
    BY <2>1, <2>2
<1>5. ASSUME Persist PROVE Stages'
  BY <1>5 DEF Persist, TypeOK
<1>6. ASSUME Allocate \/ Release \/ Dispatched \/ RecordStop PROVE Stages'
  BY <1>6 DEF Allocate, Release, Dispatched, RecordStop
<1>7. ASSUME NEW c \in Case, Enqueue(c) \/ DeferForBudget(c) PROVE Stages'
  BY <1>7 DEF Enqueue, DeferForBudget
<1>8. ASSUME NEW r \in rows, Execute(r) \/ Stop(r) PROVE Stages'
  BY <1>8 DEF Execute, Stop
<1>9. ASSUME EndTick \/ Throw \/ Crash PROVE Stages'
  BY <1>9 DEF EndTick, Throw, Crash, Leave
<1>10. ASSUME UNCHANGED stack PROVE Stages'
  BY <1>10
<1>11. ASSUME Pass PROVE Stages'
  <2>1. UNCHANGED <<pc, todo, pending>> /\ age = 0 /\ (pc = "idle" => age' = 0)
        /\ (pc # "idle" => age' = 1)
    BY <1>11 DEF Pass
  <2>2. pc = "persist" => plan'.case = plan.case /\ plan'.wait >= 1 - age'
    <3>1. pc = "persist" => plan \in Plans /\ plan.wait \in Int
      BY HoursInRange DEF AtHand, Plans
    <3>2. pc = "persist" => /\ plan'.case = plan.case
                            /\ plan'.wait \in {plan.wait, Sooner(plan.wait)}
      BY <1>11, <3>1 DEF Pass, Plans
    <3>3. QED
      BY <2>1, <3>1, <3>2 DEF Sooner
  <2>3. QED
    BY <2>1, <2>2
<1>12. ASSUME \/ Settle \/ UNCHANGED vars
              \/ \E c \in Case : Find(c) \/ Reply(c) \/ Approve(c)
              \/ \E o \in BOOLEAN : Post(o)
       PROVE  Stages'
  BY <1>10, <1>12 DEF Settle, Find, Reply, Approve, Post, vars
<1>13. QED
  BY <1>1, <1>2, <1>3, <1>4, <1>5, <1>6, <1>7, <1>8, <1>9, <1>11, <1>12 DEF Next, Tick

\* What maps onto a set counts it.
LEMMA Counted ==
  ASSUME NEW S, IsFiniteSet(S), NEW T, NEW f \in [S -> T], \A t \in T : \E s \in S : f[s] = t
  PROVE  IsFiniteSet(T) /\ Cardinality(T) <= Cardinality(S)
<1>1. f \in Surjection(S, T)
  BY DEF Surjection
<1>2. QED
  BY <1>1, FS_Surjection

LEMMA CountsAreNat ==
  ASSUME NEW S, IsFiniteSet(S)
  PROVE  Cardinality(S) \in Nat /\ (S = {} => Cardinality(S) = 0)
  BY FS_CardinalityType, FS_EmptySet

\* No window of the case gets more rows.
Shrunk(c) ==
  \A n \in 0..1 : /\ IsFiniteSet(RowsOf(c, n)')
                  /\ Cardinality(RowsOf(c, n)') <= Cardinality(RowsOf(c, n))
                  /\ RowsOf(c, n) = {} => RowsOf(c, n)' = {}

LEMMA SameRows ==
  ASSUME NEW c \in Case, Spaced(c), UNCHANGED rows
  PROVE  Shrunk(c)
<1>1. ASSUME NEW n \in 0..1 PROVE RowsOf(c, n)' = RowsOf(c, n) /\ IsFiniteSet(RowsOf(c, n))
  BY DEF RowsOf, Spaced
<1>2. ASSUME NEW n \in 0..1 PROVE Cardinality(RowsOf(c, n)) \in Nat
  BY <1>1, CountsAreNat
<1>3. QED
  BY <1>1, <1>2 DEF Shrunk

\* A row is closed, not doubled.
LEMMA CloseShrinks ==
  ASSUME rows \subseteq OutboxRows, NEW closed, rows' = Close(closed),
         NEW c \in Case, Spaced(c)
  PROVE  Shrunk(c)
<1> SUFFICES ASSUME NEW n \in 0..1
             PROVE  /\ IsFiniteSet(RowsOf(c, n)')
                    /\ Cardinality(RowsOf(c, n)') <= Cardinality(RowsOf(c, n))
                    /\ RowsOf(c, n) = {} => RowsOf(c, n)' = {}
  BY DEF Shrunk
<1> DEFINE g(r) == IF r \in closed THEN [r EXCEPT !.open = FALSE] ELSE r
<1> DEFINE f == [r \in RowsOf(c, n) |-> g(r)]
<1>1. ASSUME NEW r \in rows PROVE g(r).case = r.case /\ g(r).age = r.age
  BY DEF OutboxRows
<1>2. f \in [RowsOf(c, n) -> RowsOf(c, n)']
  <2>1. ASSUME NEW r \in RowsOf(c, n) PROVE g(r) \in RowsOf(c, n)'
    <3>1. r \in rows /\ r.case = c /\ r.age = n
      BY DEF RowsOf
    <3>2. g(r) \in rows'
      BY <3>1 DEF Close
    <3>3. QED
      BY <1>1, <3>1, <3>2 DEF RowsOf
  <2>2. QED
    BY <2>1
<1>3. ASSUME NEW t \in RowsOf(c, n)' PROVE \E r \in RowsOf(c, n) : f[r] = t
  <2>1. t \in rows' /\ t.case = c /\ t.age = n
    BY DEF RowsOf
  <2>2. PICK r \in rows : t = g(r)
    BY <2>1 DEF Close
  <2>3. r \in RowsOf(c, n)
    BY <1>1, <2>1, <2>2 DEF RowsOf
  <2>4. QED
    BY <2>2, <2>3
<1>4. IsFiniteSet(RowsOf(c, n))
  BY DEF Spaced
<1> HIDE DEF f
<1>5. QED
  BY <1>2, <1>3, <1>4, Counted

\* Steps that give the case no row and no new place in the tick.
LEMMA SpacedStays ==
  ASSUME TypeOK, TypeOK', NEW c \in Case, Spaced(c), Shrunk(c),
         UNCHANGED <<age, approved>>,
         (Selected(c) \/ Chosen(c))' => Selected(c) \/ Chosen(c),
         \/ nextIn'[c] >= 1 - age
         \/ nextIn'[c] = nextIn[c] /\ (Selected(c) => (Selected(c)' \/ ~Chosen(c)'))
  PROVE  Spaced(c)'
<1> DEFINE k == Cardinality(RowsOf(c, age))
           l == Cardinality(RowsOf(c, age)')
<1>1. age \in 0..1 /\ IsFiniteSet(RowsOf(c, age)) /\ IsFiniteSet(RowsOf(c, age)')
  BY DEF TypeOK, Spaced, Shrunk
<1>2. k \in Nat /\ l \in Nat /\ l <= k
  BY <1>1, CountsAreNat DEF Shrunk
<1>3. Cap(c)' = Cap(c) /\ Cap(c) \in 1..2
  BY DEF Cap
<1>4. nextIn[c] \in Int /\ nextIn'[c] \in Int
  BY HoursInRange DEF TypeOK
<1>5. Load(c) = k + (IF Selected(c) \/ Chosen(c) THEN 1 ELSE 0)
  BY DEF Load
<1>6. Load(c)' = l + (IF Selected(c)' \/ Chosen(c)' THEN 1 ELSE 0)
  BY DEF Load
<1>7. Load(c)' <= Load(c) /\ Load(c) <= Cap(c)
  BY <1>2, <1>5, <1>6 DEF Spaced
<1>8. ASSUME ~Selected(c)', Load(c)' = Cap(c)' PROVE nextIn'[c] >= 1 - age
  <2>1. CASE nextIn'[c] >= 1 - age
    BY <2>1
  <2>2. CASE nextIn'[c] = nextIn[c] /\ (Selected(c) => (Selected(c)' \/ ~Chosen(c)'))
    <3>1. Load(c) = Cap(c)
      BY <1>2, <1>3, <1>5, <1>6, <1>7, <1>8
    <3>2. ~Selected(c)
      BY <1>2, <1>3, <1>5, <1>6, <1>7, <1>8, <2>2
    <3>3. QED
      BY <2>2, <3>1, <3>2 DEF Spaced
  <2>3. QED
    BY <2>1, <2>2
<1>9. \A n \in 0..1 : IsFiniteSet(RowsOf(c, n)') /\ Cardinality(RowsOf(c, n)') <= Cap(c)'
  <2> SUFFICES ASSUME NEW n \in 0..1
               PROVE  IsFiniteSet(RowsOf(c, n)') /\ Cardinality(RowsOf(c, n)') <= Cap(c)'
    OBVIOUS
  <2>1. Cardinality(RowsOf(c, n)) \in Nat /\ Cardinality(RowsOf(c, n)') \in Nat
    BY CountsAreNat DEF Spaced, Shrunk
  <2>2. Cardinality(RowsOf(c, n)) <= Cap(c) /\ IsFiniteSet(RowsOf(c, n)')
        /\ Cardinality(RowsOf(c, n)') <= Cardinality(RowsOf(c, n))
    BY DEF Spaced, Shrunk
  <2>3. QED
    BY <1>3, <2>1, <2>2
<1>10. age' = 1 => RowsOf(c, 0)' = {}
  BY DEF Spaced, Shrunk
<1>11. Load(c)' <= Cap(c)'
  BY <1>2, <1>3, <1>5, <1>6, <1>7
<1>12. QED
  BY <1>8, <1>9, <1>10, <1>11 DEF Spaced

LEMMA SpacedStep ==
  ASSUME TypeOK, AtHand, Stages, [Next]_vars, TypeOK', NEW c \in Case, Spaced(c)
  PROVE  Spaced(c)'
<1> USE DEF Keep, table, stack, bounds
<1> DEFINE k(n) == Cardinality(RowsOf(c, n))
<1>1. /\ age \in 0..1 /\ k(0) \in Nat /\ k(1) \in Nat /\ k(age) \in Nat /\ Cap(c) \in 1..2
      /\ nextIn \in [Case -> Int] /\ IsFiniteSet(RowsOf(c, 0)) /\ IsFiniteSet(RowsOf(c, age))
  <2>1. age \in 0..1 /\ nextIn \in [Case -> Later] /\ Cap(c) \in 1..2
    BY DEF TypeOK, Cap
  <2>2. IsFiniteSet(RowsOf(c, 0)) /\ IsFiniteSet(RowsOf(c, 1)) /\ IsFiniteSet(RowsOf(c, age))
    BY <2>1 DEF Spaced
  <2>3. k(0) \in Nat /\ k(1) \in Nat /\ k(age) \in Nat
    BY <2>2, CountsAreNat
  <2>4. QED
    BY <2>1, <2>2, <2>3, HoursInRange
<1>2. Load(c) = k(age) + (IF Selected(c) \/ Chosen(c) THEN 1 ELSE 0)
  BY DEF Load
<1>3. UNCHANGED rows => Shrunk(c)
  BY SameRows
\* Steps that neither select a case nor choose an action for it, nor forget it.
<1>4. ASSUME StartTick \/ InboxRead \/ Prefetch \/ Escalate \/ Dispatched \/ RecordStop
             \/ (\E d \in Case : ReadReply(d))
      PROVE  Spaced(c)'
  <2>1. UNCHANGED <<rows, age, approved, nextIn, pending>>
    BY <1>4 DEF StartTick, InboxRead, Prefetch, Escalate, Dispatched, RecordStop, ReadReply
  <2>2. CASE Prefetch
    <3>1. pending[c] = None
      BY <2>2 DEF Prefetch, Stages, Empty
    <3>2. (Selected(c)' <=> Selected(c)) /\ ~Chosen(c)'
      BY <2>2, <3>1 DEF Prefetch, Selected, Chosen
    <3>3. QED
      BY <1>3, <2>1, <3>2, SpacedStays
  <2>3. CASE ~Prefetch
    <3>1. ~Selected(c) /\ ~Selected(c)' /\ ~Chosen(c)'
      BY <1>4, <2>3 DEF StartTick, InboxRead, Escalate, Dispatched, RecordStop, ReadReply,
         Selected, Chosen
    <3>2. QED
      BY <1>3, <2>1, <3>1, SpacedStays
  <2>4. QED
    BY <2>2, <2>3
<1>5. ASSUME SelectDue PROVE Spaced(c)'
  <2>1. /\ UNCHANGED <<rows, age, approved, nextIn, pending>>
        /\ pc = "due" /\ pc' = "prefetch" /\ todo' \subseteq Due
    BY <1>5 DEF SelectDue
  <2>2. ~Selected(c) /\ ~Chosen(c) /\ ~Chosen(c)'
    BY <2>1 DEF Selected, Chosen
  <2>3. CASE c \notin todo'
    <3>1. ~Selected(c)'
      BY <2>1, <2>3 DEF Selected
    <3>2. QED
      BY <1>3, <2>1, <2>2, <3>1, SpacedStays
  <2>4. CASE c \in todo'
    <3>1. nextIn[c] + age <= 0
      BY <2>1, <2>4 DEF Due
    <3>2. Load(c) # Cap(c)
      BY <1>1, <2>2, <3>1 DEF Spaced
    <3>3. k(age) < Cap(c)
      BY <1>1, <1>2, <2>2, <3>2 DEF Spaced
    <3>4. Selected(c)' /\ Load(c)' = k(age) + 1
      BY <2>1, <2>4 DEF Selected, Load, RowsOf
    <3>5. Cap(c)' = Cap(c) /\ \A n \in 0..1 : RowsOf(c, n)' = RowsOf(c, n)
      BY <2>1 DEF Cap, RowsOf
    <3>6. QED
      BY <1>1, <2>1, <3>3, <3>4, <3>5 DEF Spaced
  <2>5. QED
    BY <2>3, <2>4
<1>6. ASSUME NEW d \in Case, Decide(d) PROVE Spaced(c)'
  <2>1. /\ UNCHANGED <<rows, age, approved, nextIn, pending>>
        /\ pc = "decide" /\ d \in todo /\ todo' = todo \ {d}
        /\ \/ pc' = "decide"
           \/ pc' = "persist" /\ plan'.case = d
    BY <1>6 DEF Decide
  <2>2. Selected(c)' => Selected(c)
    BY <2>1 DEF Selected
  <2>3. Chosen(c)' => Chosen(c)
    BY <2>1 DEF Chosen
  <2>4. Selected(c) => ~Chosen(c)'
    BY <2>1, <2>3 DEF Stages, Chosen
  <2>5. QED
    BY <1>3, <2>1, <2>2, <2>3, <2>4, SpacedStays
<1>7. ASSUME Persist PROVE Spaced(c)'
  <2>1. /\ UNCHANGED <<rows, age, approved, todo>> /\ pc = "persist" /\ pc' = "decide"
        /\ nextIn' = [nextIn EXCEPT ![plan.case] = plan.wait]
        /\ pending' = [pending EXCEPT ![plan.case] = plan.action]
    BY <1>7 DEF Persist
  <2>2. CASE c = plan.case
    <3>1. Selected(c) /\ ~Selected(c)' /\ nextIn'[c] >= 1 - age
      BY <2>1, <2>2 DEF Selected, Stages, TypeOK
    <3>2. UNCHANGED rows /\ UNCHANGED <<age, approved>>
      BY <2>1
    <3>3. (Selected(c) \/ Chosen(c))' => Selected(c) \/ Chosen(c)
      BY <3>1
    <3>4. QED
      BY <1>3, <3>1, <3>2, <3>3, SpacedStays
  <2>3. CASE c # plan.case
    <3>1. nextIn'[c] = nextIn[c] /\ pending'[c] = pending[c]
      BY <2>1, <2>3 DEF TypeOK
    <3>2. Selected(c)' <=> Selected(c)
      BY <2>1, <2>3 DEF Selected
    <3>3. Chosen(c)' <=> Chosen(c)
      BY <2>1, <3>1 DEF Chosen
    <3>4. QED
      BY <1>3, <2>1, <3>1, <3>2, <3>3, SpacedStays
  <2>4. QED
    BY <2>2, <2>3
<1>8. ASSUME Allocate \/ Release PROVE Spaced(c)'
  <2>1. UNCHANGED <<rows, age, approved, nextIn, pending>>
    BY <1>8 DEF Allocate, Release
  <2>2. ~Selected(c) /\ ~Selected(c)' /\ (Chosen(c)' => Chosen(c))
    BY <1>8 DEF Allocate, Release, Selected, Chosen, Waiting
  <2>3. QED
    BY <1>3, <2>1, <2>2, SpacedStays
<1>9. ASSUME NEW d \in Case, Enqueue(d) PROVE Spaced(c)'
  <2>1. /\ UNCHANGED <<age, approved, nextIn, pending, pc, admitted>>
        /\ pc = "dispatch" /\ d \in todo /\ d \in admitted /\ todo' = todo \ {d}
        /\ ~Selected(c) /\ ~Selected(c)'
    BY <1>9 DEF Enqueue, Selected
  <2>2. Chosen(c)' <=> Chosen(c) /\ c # d
    BY <2>1 DEF Chosen
  <2> DEFINE r == [case |-> d, action |-> pending[d], age |-> age, open |-> TRUE]
  <2>3. rows' = rows \/ rows' = rows \cup {r}
    BY <1>9 DEF Enqueue
  <2>4. CASE rows' = rows \/ c # d
    <3>1. \A n \in 0..1 : RowsOf(c, n)' = RowsOf(c, n)
      BY <2>3, <2>4 DEF RowsOf
    <3>2. Shrunk(c)
      <4>1. ASSUME NEW n \in 0..1
            PROVE  IsFiniteSet(RowsOf(c, n)) /\ Cardinality(RowsOf(c, n)) \in Nat
        BY CountsAreNat DEF Spaced
      <4>2. QED
        BY <3>1, <4>1 DEF Shrunk
    <3>3. QED
      BY <2>1, <2>2, <3>2, SpacedStays
  <2>5. CASE rows' = rows \cup {r} /\ c = d
    <3>1. Chosen(c) /\ ~Chosen(c)'
      BY <2>1, <2>2, <2>5 DEF Chosen
    <3>2. /\ RowsOf(c, age)' = RowsOf(c, age) \cup {r}
          /\ \A n \in 0..1 \ {age} : RowsOf(c, n)' = RowsOf(c, n)
      BY <2>1, <2>5 DEF RowsOf
    <3>3. IsFiniteSet(RowsOf(c, age)')
          /\ Cardinality(RowsOf(c, age)') \in {k(age), k(age) + 1}
      <4> HIDE DEF r
      <4>1. IsFiniteSet(RowsOf(c, age) \cup {r})
            /\ Cardinality(RowsOf(c, age) \cup {r}) \in {k(age), k(age) + 1}
        BY <1>1, FS_AddElement
      <4>2. QED
        BY <3>2, <4>1
    <3>4. Load(c)' = Cardinality(RowsOf(c, age)') /\ Load(c) = k(age) + 1
      BY <1>1, <1>2, <2>1, <3>1, <3>3 DEF Load
    <3>5. Load(c)' <= Load(c) /\ Cap(c)' = Cap(c)
      BY <1>1, <2>1, <3>3, <3>4 DEF Cap
    <3>6. /\ Load(c)' <= Cap(c)'
          /\ Load(c)' = Cap(c)' => nextIn'[c] >= 1 - age
      BY <1>1, <2>1, <3>3, <3>4, <3>5 DEF Spaced
    <3>7. \A n \in 0..1 : IsFiniteSet(RowsOf(c, n)') /\ Cardinality(RowsOf(c, n)') <= Cap(c)'
      <4> SUFFICES ASSUME NEW n \in 0..1
                   PROVE  IsFiniteSet(RowsOf(c, n)') /\ Cardinality(RowsOf(c, n)') <= Cap(c)'
        OBVIOUS
      <4>1. CASE n = age
        <5>1. RowsOf(c, n)' = RowsOf(c, age)'
          BY <2>1, <4>1 DEF RowsOf
        <5>2. QED
          BY <3>3, <3>4, <3>6, <5>1
      <4>2. CASE n # age
        BY <3>2, <3>5, <4>2 DEF Spaced
      <4>3. QED
        BY <4>1, <4>2
    <3>8. age' = 1 => RowsOf(c, 0)' = {}
      BY <2>1, <3>2 DEF Spaced
    <3>9. QED
      BY <2>1, <3>6, <3>7, <3>8 DEF Spaced
  <2>6. QED
    BY <2>3, <2>4, <2>5
<1>10. ASSUME NEW d \in Case, DeferForBudget(d) PROVE Spaced(c)'
  <2>1. /\ UNCHANGED <<rows, age, approved, pending, pc, admitted>>
        /\ pc = "dispatch" /\ todo' = todo \ {d}
        /\ nextIn' = [nextIn EXCEPT ![d] = 1 - age]
    BY <1>10 DEF DeferForBudget
  <2>2. nextIn'[c] = IF c = d THEN 1 - age ELSE nextIn[c]
    BY <2>1 DEF TypeOK
  <2>3. nextIn'[c] >= 1 - age \/ nextIn'[c] = nextIn[c]
    BY <1>1, <2>2
  <2>4. ~Selected(c) /\ ~Selected(c)' /\ (Chosen(c)' => Chosen(c))
    BY <2>1 DEF Selected, Chosen
  <2>5. QED
    BY <1>3, <2>1, <2>3, <2>4, SpacedStays
<1>11. ASSUME NEW r \in rows, Execute(r) \/ Stop(r) PROVE Spaced(c)'
  <2>1. Shrunk(c)
    BY <1>11, CloseShrinks DEF Execute, Stop, TypeOK
  <2>2. /\ UNCHANGED <<age, approved, nextIn>>
        /\ ~Selected(c) /\ ~Chosen(c) /\ ~Selected(c)' /\ ~Chosen(c)'
    BY <1>11 DEF Execute, Stop, Selected, Chosen
  <2>3. QED
    BY <2>1, <2>2, SpacedStays
\* What a tick was about to do is given up, and its window is past.
<1>12. ASSUME EndTick \/ Throw \/ Crash PROVE Spaced(c)'
  <2>1. UNCHANGED <<rows, approved, nextIn>> /\ pc' = "idle" /\ age' = 0
    BY <1>12 DEF EndTick, Throw, Crash, Leave
  <2>2. ~Selected(c)' /\ ~Chosen(c)' /\ \A n \in 0..1 : RowsOf(c, n)' = RowsOf(c, n)
    BY <2>1 DEF Selected, Chosen, RowsOf
  <2>3. Load(c)' = k(0) /\ Cap(c)' = Cap(c)
    <3>1. RowsOf(c, age)' = RowsOf(c, 0)
      BY <2>1 DEF RowsOf
    <3>2. QED
      BY <1>1, <2>1, <2>2, <3>1 DEF Load, Cap
  <2>4. k(0) = Cap(c) => nextIn[c] >= 1
    <3>1. age = 1 => k(0) = 0
      BY CountsAreNat, <1>1 DEF Spaced
    <3>2. CASE age = 0
      BY <1>1, <1>2, <3>2 DEF Spaced
    <3>3. QED
      BY <1>1, <3>1, <3>2
  <2>5. QED
    BY <1>1, <2>1, <2>2, <2>3, <2>4 DEF Spaced
<1>13. ASSUME NEW d \in Case, Approve(d) PROVE Spaced(c)'
  <2>1. /\ UNCHANGED <<rows, age, pending, pc, todo, admitted, plan>> /\ ~approved[d]
        /\ approved' = [approved EXCEPT ![d] = TRUE] /\ nextIn' = [nextIn EXCEPT ![d] = 0]
    BY <1>13 DEF Approve
  <2>2. (Selected(c)' <=> Selected(c)) /\ (Chosen(c)' <=> Chosen(c))
    BY <2>1 DEF Selected, Chosen
  <2>3. CASE c # d
    <3>1. approved'[c] = approved[c] /\ nextIn'[c] = nextIn[c]
      BY <2>1, <2>3 DEF TypeOK
    <3>2. /\ Cap(c)' = Cap(c) /\ Load(c)' = Load(c)
          /\ \A n \in 0..1 : RowsOf(c, n)' = RowsOf(c, n)
      BY <2>1, <2>2, <3>1 DEF Cap, Load, RowsOf
    <3>3. QED
      BY <2>1, <2>2, <3>1, <3>2 DEF Spaced
  <2>4. CASE c = d
    <3>1. /\ Cap(c) = 1 /\ Cap(c)' = 2 /\ Load(c)' = Load(c)
          /\ \A n \in 0..1 : RowsOf(c, n)' = RowsOf(c, n)
      BY <2>1, <2>2, <2>4 DEF Cap, Load, RowsOf, TypeOK
    <3>2. QED
      BY <1>1, <1>2, <2>1, <3>1 DEF Spaced
  <2>5. QED
    BY <2>3, <2>4
<1>14. ASSUME Pass PROVE Spaced(c)'
  <2>1. /\ UNCHANGED <<pc, todo, pending, admitted, approved>> /\ age = 0
        /\ age' = IF pc = "idle" THEN 0 ELSE 1
        /\ nextIn' = [d \in Case |-> Sooner(nextIn[d])]
        /\ plan'.case = plan.case \/ pc # "persist"
    BY <1>14 DEF Pass, AtHand, Plans
  <2>2. (Selected(c)' <=> Selected(c)) /\ (Chosen(c)' <=> Chosen(c)) /\ Cap(c)' = Cap(c)
    BY <2>1 DEF Selected, Chosen, Cap
  <2> DEFINE h(r) == [r EXCEPT !.age = IF @ = 2 THEN 2 ELSE @ + 1]
             old == {s \in rows : s.open \/ (s.age = 0 /\ pc # "idle")}
  <2>3. rows' = {h(r) : r \in old}
    BY <1>14 DEF Pass
  <2>4. ASSUME NEW r \in rows
        PROVE  /\ h(r).case = r.case /\ h(r).age \in 1..2
               /\ h(r).age = 1 <=> r.age = 0
    BY DEF TypeOK, OutboxRows
  <2>5. RowsOf(c, 0)' = {}
    <3>1. \A t \in rows' : t.age \in 1..2
      BY <2>3, <2>4
    <3>2. \A t \in rows' : t.age # 0
      BY <3>1
    <3>3. QED
      BY <3>2 DEF RowsOf
  <2> DEFINE S == {r \in old : r.case = c /\ r.age = 0}
             f == [r \in S |-> h(r)]
  <2>6. IsFiniteSet(S) /\ Cardinality(S) \in Nat /\ Cardinality(S) <= k(0)
    <3>1. S \in SUBSET RowsOf(c, 0)
      BY DEF RowsOf
    <3>2. QED
      BY <1>1, <3>1, FS_Subset, CountsAreNat
  <2>7. f \in [S -> RowsOf(c, 1)'] /\ \A t \in RowsOf(c, 1)' : \E s \in S : f[s] = t
    <3>1. ASSUME NEW r \in S PROVE h(r) \in RowsOf(c, 1)'
      <4>1. h(r) \in rows' /\ h(r).case = c /\ h(r).age = 1
        BY <2>3, <2>4
      <4>2. QED
        BY <4>1 DEF RowsOf
    <3>2. ASSUME NEW t \in RowsOf(c, 1)' PROVE \E s \in S : f[s] = t
      <4>1. t \in rows' /\ t.case = c /\ t.age = 1
        BY DEF RowsOf
      <4>2. PICK r \in old : t = h(r)
        BY <2>3, <4>1
      <4>3. r \in S
        BY <2>4, <4>1, <4>2
      <4>4. QED
        BY <4>2, <4>3
    <3>3. QED
      BY <3>1, <3>2
  <2> HIDE DEF f, S
  <2>8. /\ IsFiniteSet(RowsOf(c, 1)') /\ Cardinality(RowsOf(c, 1)') \in Nat
        /\ Cardinality(RowsOf(c, 1)') <= k(0)
    <3>1. IsFiniteSet(RowsOf(c, 1)') /\ Cardinality(RowsOf(c, 1)') <= Cardinality(S)
      BY <2>6, <2>7, Counted
    <3>2. QED
      BY <1>1, <2>6, <3>1, CountsAreNat
  <2>9. IsFiniteSet(RowsOf(c, 0)') /\ Cardinality(RowsOf(c, 0)') = 0
    BY <2>5, FS_EmptySet
  <2>10. k(0) <= Cap(c) /\ Load(c) <= Cap(c)
    BY DEF Spaced
  <2>11. \A n \in 0..1 : IsFiniteSet(RowsOf(c, n)') /\ Cardinality(RowsOf(c, n)') <= Cap(c)'
    <3>1. Cardinality(RowsOf(c, 1)') <= Cap(c)' /\ Cardinality(RowsOf(c, 0)') <= Cap(c)'
      BY <1>1, <2>2, <2>8, <2>9, <2>10
    <3>2. \A n \in 0..1 : n = 0 \/ n = 1
      OBVIOUS
    <3>3. QED
      BY <2>8, <2>9, <3>1, <3>2
  <2>12. CASE pc = "idle"
    <3>1. Load(c)' = 0 /\ age' = 0
      BY <2>1, <2>9, <2>12 DEF Load, Selected, Chosen, RowsOf
    <3>2. QED
      BY <1>1, <2>2, <2>5, <2>11, <3>1 DEF Spaced
  <2>13. CASE pc # "idle"
    <3>1. age' = 1 /\ RowsOf(c, age)' = RowsOf(c, 1)'
      BY <2>1, <2>13 DEF RowsOf
    <3>2. Load(c)' = Cardinality(RowsOf(c, 1)')
                       + (IF Selected(c) \/ Chosen(c) THEN 1 ELSE 0)
      BY <2>2, <3>1 DEF Load
    <3>3. Load(c)' <= Load(c)
      BY <1>1, <1>2, <2>1, <2>8, <3>2
    <3>4. Load(c)' <= Cap(c)'
      BY <1>1, <1>2, <2>1, <2>2, <2>8, <2>10, <3>2
    <3>5. nextIn'[c] = Sooner(nextIn[c])
      BY <2>1
    <3>6. ~Selected(c)' /\ Load(c)' = Cap(c)' => nextIn'[c] >= 1 - age'
      <4>1. SUFFICES ASSUME ~Selected(c)', Load(c)' = Cap(c)' PROVE nextIn'[c] >= 0
        BY <3>1
      <4>2. Load(c) = Cap(c)
        BY <1>1, <1>2, <2>1, <2>2, <2>8, <2>10, <3>2, <4>1
      <4>3. nextIn[c] >= 1
        BY <2>1, <2>2, <4>1, <4>2 DEF Spaced
      <4>4. QED
        BY <1>1, <3>5, <4>3 DEF Sooner
    <3>7. QED
      BY <2>5, <2>11, <3>4, <3>6 DEF Spaced
  <2>14. QED
    BY <2>12, <2>13
<1>15. ASSUME \/ Settle \/ UNCHANGED vars
              \/ \E d \in Case : Find(d) \/ Reply(d)
              \/ \E o \in BOOLEAN : Post(o)
       PROVE  Spaced(c)'
  <2>1. UNCHANGED <<rows, approved, nextIn, pc, age, todo, plan, pending, admitted>>
    BY <1>15 DEF Settle, Find, Reply, Post, vars
  <2>2. (Selected(c)' <=> Selected(c)) /\ (Chosen(c)' <=> Chosen(c))
    BY <2>1 DEF Selected, Chosen
  <2>3. QED
    BY <1>3, <2>1, <2>2, SpacedStays
<1>16. QED
  BY <1>4, <1>5, <1>6, <1>7, <1>8, <1>9, <1>10, <1>11, <1>12, <1>13, <1>14, <1>15
  DEF Next, Tick

\* A case gets one action for each window, and one more if it was approved,
\* whatever the ticks, exceptions and crashes.
THEOREM ActionsAreSpaced == Spec => []SpacedActions
<1> DEFINE AllSpaced == \A c \in Case : Spaced(c)
<1>1. Init => Stages /\ AllSpaced
  <2> SUFFICES ASSUME Init PROVE Stages /\ AllSpaced
    OBVIOUS
  <2>1. /\ rows = {} /\ pc = "idle" /\ age = 0 /\ pending = Empty /\ todo = {}
        /\ approved = [c \in Case |-> FALSE]
    BY DEF Init
  <2>2. ASSUME NEW c \in Case PROVE Spaced(c)
    <3>1. \A n \in 0..1 : RowsOf(c, n) = {}
      BY <2>1 DEF RowsOf
    <3>2. Cap(c) = 1 /\ ~Selected(c) /\ ~Chosen(c)
      BY <2>1 DEF Cap, Selected, Chosen
    <3>3. Cardinality({}) = 0 /\ IsFiniteSet({})
      BY FS_EmptySet
    <3>4. Load(c) = 0
      BY <2>1, <3>1, <3>2, <3>3 DEF Load
    <3>5. QED
      BY <2>1, <3>1, <3>2, <3>3, <3>4 DEF Spaced
  <2>3. Stages
    BY <2>1 DEF Stages, Selected
  <2>4. QED
    BY <2>2, <2>3
<1>2. TypeOK /\ AtHand /\ Stages /\ AllSpaced /\ [Next]_vars
        => (TypeOK /\ AtHand /\ Stages /\ AllSpaced)'
  BY TypeStep, StagesStep, SpacedStep
<1>3. AllSpaced => SpacedActions
  BY DEF Spaced, SpacedActions, RowsOf, Cap
<1>4. QED
  BY <1>1, <1>2, <1>3, TypeInit, PTL DEF Spec

=============================================================================
