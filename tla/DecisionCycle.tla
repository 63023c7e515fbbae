---------------------------- MODULE DecisionCycle -----------------------------
(***************************************************************************)
(* What a tick does with the cases, stage after stage: it reads the inbox  *)
(* (src/inbound/agent.ts), decides the due cases and fills the outbox      *)
(* (src/engine/orchestrator.ts, on rows that src/engine/context-builder.ts *)
(* prefetched) and drains the outbox, which may stop a case                *)
(* (src/execution/executor.ts).  Meanwhile webhooks settle cases           *)
(* (src/signal/case-projector.ts) and people approve them.  All of them    *)
(* write the same row of risk_cases; none compares what it overwrites.     *)
(*                                                                         *)
(* Ticks come one at a time: TickLease says when they do.  Which action is *)
(* chosen, and whether a gate lets it through, is a free choice but for    *)
(* the stop that the ledger decides.  A drain is seen here by what it does *)
(* to a case and its rows (Executor has the rest), a webhook by what it    *)
(* does to the debt and the state (Ingest has the rest), and a reply only  *)
(* if it asks for a person.  Time is counted in hours, the window of an    *)
(* idempotency key; a tick takes less than one.                            *)
(***************************************************************************)
EXTENDS Integers, FiniteSets

CONSTANTS
  Case,
  Action,          \* what may be chosen
  None,
  LIMIT,           \* of the query for due cases
  MAX_ACTIONS,     \* authority.allocation.max_actions_per_cycle
  AFTER_EXECUTE,   \* authority.cadence, in hours
  AFTER_WAIT,
  MaxHooks,        \* model bounds: webhooks;
  MaxWishes,       \* replies and approvals;
  MaxFaults        \* exceptions and crashes

ASSUME CycleAssumption ==
  /\ None \notin Case \cup Action
  /\ IsFiniteSet(Case)
  /\ LIMIT \in Nat \ {0} /\ MAX_ACTIONS \in Nat
  /\ AFTER_EXECUTE \in Nat \ {0} /\ AFTER_WAIT \in Nat \ {0}
  /\ MaxHooks \in Nat /\ MaxWishes \in Nat /\ MaxFaults \in Nat

VARIABLES
  state, approved, nextIn,   \* risk_cases; nextDecisionAt in hours from now
  owes,                      \* the ledger: whether its sum is positive
  unread,                    \* cases with a reply that has no intent yet
  rows,                      \* the outbox
  pc, age, todo, plan, pending, admitted,  \* the tick's stack
  cache,                     \* the prefetched rows
  hook,                      \* a webhook between its reading and its writing
  over,                      \* history: terminal since the cycle's prefetch
  hooks, wishes, faults

table == <<state, approved, nextIn>>
stack == <<pc, age, todo, plan, pending, admitted>>
bounds == <<hooks, wishes, faults>>
vars == <<table, owes, unread, rows, stack, cache, hook, over, bounds>>

Terminal == {"RECOVERED", "STOPPED"}
Live == {"OPEN", "IN_PROGRESS"}
State == Live \cup Terminal \cup {"AWAITING_HUMAN"}
Row == [state : State, approved : BOOLEAN]

\* Hours to a decision; -1 for one that was due an hour ago, or never dated.
Later == -1..(IF AFTER_EXECUTE > AFTER_WAIT THEN AFTER_EXECUTE ELSE AFTER_WAIT)

PC == {"idle", "inbox", "escalate", "due", "prefetch", "decide", "persist",
       "allocate", "dispatch", "drain", "recover", "stop"}

\* A row of the outbox, keyed by case, action and window; age says how many
\* hours ago that window was, up to 2.
OutboxRows == [case : Case, action : Action, age : 0..2, open : BOOLEAN]

\* A decision that is not yet in the tables: the state it was made on, the
\* action to enqueue, the hours to the next decision.
Plans == [case : Case, state : State, action : Action \cup {None}, wait : Later]

TypeOK ==
  /\ state \in [Case -> State]
  /\ approved \in [Case -> BOOLEAN]
  /\ nextIn \in [Case -> Later]
  /\ owes \in [Case -> BOOLEAN]
  /\ unread \subseteq Case
  /\ rows \subseteq OutboxRows
  /\ pc \in PC
  /\ age \in 0..1
  /\ todo \subseteq Case
  /\ plan \in Plans \cup {None}
  /\ pending \in [Case -> Action \cup {None}]
  /\ admitted \subseteq Case
  /\ cache \in [Case -> Row \cup {None}]
  /\ hook \in [case : Case, read : State, posted : BOOLEAN] \cup {None}
  /\ over \subseteq Case
  /\ hooks \in 0..MaxHooks /\ wishes \in 0..MaxWishes /\ faults \in 0..MaxFaults

Empty == [c \in Case |-> None]

Init ==
  /\ state = [c \in Case |-> "OPEN"]
  /\ approved = [c \in Case |-> FALSE]
  /\ nextIn = [c \in Case |-> -1]
  /\ owes = [c \in Case |-> TRUE]
  /\ unread = {} /\ rows = {}
  /\ pc = "idle" /\ age = 0 /\ todo = {} /\ plan = None
  /\ pending = Empty /\ admitted = {}
  /\ cache = Empty /\ hook = None
  /\ over = {}
  /\ hooks = 0 /\ wishes = 0 /\ faults = 0

-----------------------------------------------------------------------------
(* Shared by the stages *)

Fresh(c) == [state |-> state[c], approved |-> approved[c]]

\* load: the prefetched row, if there is one.
View(c) == IF cache[c] # None THEN cache[c] ELSE Fresh(c)

SetState(c, s) ==
  /\ state' = [state EXCEPT ![c] = s]
  /\ over' = IF s \in Terminal THEN over ELSE over \ {c}

Keep == UNCHANGED <<table, over>>

\* The stack of a tick that is over, however it ended.
Leave ==
  /\ pc' = "idle" /\ age' = 0 /\ todo' = {} /\ plan' = None
  /\ pending' = Empty /\ admitted' = {}

-----------------------------------------------------------------------------
(* The tick: inbox *)

StartTick ==
  /\ pc = "idle"
  /\ pc' = "inbox" /\ todo' = unread
  /\ Keep
  /\ UNCHANGED <<owes, unread, rows, age, plan, pending, admitted, cache, hook, bounds>>

\* A reply gets its intent, and is never selected again.
ReadReply(c) ==
  /\ pc = "inbox" /\ c \in todo
  /\ unread' = unread \ {c}
  /\ pc' = "escalate" /\ todo' = todo \ {c}
  /\ plan' = [case |-> c, state |-> "AWAITING_HUMAN", action |-> None, wait |-> 0]
  /\ Keep
  /\ UNCHANGED <<owes, rows, age, pending, admitted, cache, hook, bounds>>

Escalate ==
  /\ pc = "escalate"
  /\ SetState(plan.case, plan.state)
  /\ pc' = "inbox" /\ plan' = None
  /\ UNCHANGED <<approved, nextIn, owes, unread, rows, age, todo, pending, admitted,
                 cache, hook, bounds>>

InboxRead ==
  /\ pc = "inbox" /\ todo = {}
  /\ pc' = "due"
  /\ Keep
  /\ UNCHANGED <<owes, unread, rows, age, todo, plan, pending, admitted, cache, hook, bounds>>

-----------------------------------------------------------------------------
(* The tick: decisions *)

\* Slips: a due query without the states, and one for new cases only.
DueAnyState == {c \in Case : nextIn[c] + age <= 0}
DueOpen == {c \in Case : state[c] = "OPEN" /\ nextIn[c] + age <= 0}

\* Due when the tick began.
Due == {c \in Case : state[c] \in Live /\ nextIn[c] + age <= 0}

\* The query names no order: with more than LIMIT due cases, any of them.
SelectDue ==
  /\ pc = "due"
  /\ \E ids \in SUBSET Due :
       /\ Cardinality(ids) = IF Cardinality(Due) < LIMIT THEN Cardinality(Due) ELSE LIMIT
       /\ todo' = ids
  /\ pc' = "prefetch"
  /\ Keep
  /\ UNCHANGED <<owes, unread, rows, age, plan, pending, admitted, cache, hook, bounds>>

\* A slip: only what is not cached is fetched.
PrefetchMissing ==
  /\ pc = "prefetch"
  /\ cache' = [c \in Case |-> IF c \in todo THEN View(c) ELSE None]
  /\ over' = {c \in Case : state[c] \in Terminal}
  /\ pc' = "decide"
  /\ UNCHANGED <<table, owes, unread, rows, age, todo, plan, pending, admitted, hook, bounds>>

Prefetch ==
  /\ pc = "prefetch"
  /\ cache' = [c \in Case |-> IF c \in todo THEN Fresh(c) ELSE None]
  /\ over' = {c \in Case : state[c] \in Terminal}
  /\ pc' = "decide"
  /\ UNCHANGED <<table, owes, unread, rows, age, todo, plan, pending, admitted, hook, bounds>>

\* Nothing is owed: a stop condition suppresses.  Otherwise the gates, the
\* value of the candidates and the reviewer have their say: an action, an
\* action that the reviewer blocks (which still waits as one), a deferral of
\* an hour or more, or nothing to do.
Outcomes(c) ==
  IF ~owes[c] THEN {[action |-> None, wait |-> AFTER_WAIT]}
  ELSE [action : Action \cup {None}, wait : {AFTER_EXECUTE}]
         \cup [action : {None}, wait : Later \ {-1, 0}]

Decide(c) ==
  /\ pc = "decide" /\ c \in todo
  /\ todo' = todo \ {c}
  /\ IF View(c).state \in Terminal
     THEN pc' = "decide" /\ plan' = None
     ELSE /\ pc' = "persist"
          /\ \E o \in Outcomes(c) :
               plan' = [case |-> c, state |-> View(c).state, action |-> o.action,
                        wait |-> o.wait]
  /\ Keep
  /\ UNCHANGED <<owes, unread, rows, age, pending, admitted, cache, hook, bounds>>

\* A slip: the next decision is not dated.
PersistUndated ==
  /\ pc = "persist"
  /\ SetState(plan.case, IF plan.state = "OPEN" THEN "IN_PROGRESS" ELSE plan.state)
  /\ pending' = [pending EXCEPT ![plan.case] = plan.action]
  /\ pc' = "decide" /\ plan' = None
  /\ UNCHANGED <<approved, nextIn, owes, unread, rows, age, todo, admitted, cache, hook,
                 bounds>>

\* The decision and the case are written by one batch: the state of the
\* view, or its successor, whatever the row has become since.
Persist ==
  /\ pc = "persist"
  /\ SetState(plan.case, IF plan.state = "OPEN" THEN "IN_PROGRESS" ELSE plan.state)
  /\ nextIn' = [nextIn EXCEPT ![plan.case] = plan.wait]
  /\ pending' = [pending EXCEPT ![plan.case] = plan.action]
  /\ pc' = "decide" /\ plan' = None
  /\ UNCHANGED <<approved, owes, unread, rows, age, todo, admitted, cache, hook, bounds>>

Waiting == {c \in Case : pending[c] # None}

\* The budgets: of actions, and of contacts and money, which may turn any
\* of the actions away.
Allocate ==
  /\ pc = "decide" /\ todo = {}
  /\ pc' = "allocate"
  /\ \E s \in SUBSET Waiting :
       /\ Cardinality(s) <= MAX_ACTIONS
       /\ admitted' = s
  /\ Keep
  /\ UNCHANGED <<owes, unread, rows, age, todo, plan, pending, cache, hook, bounds>>

\* A slip: the cache is kept.
ReleaseNothing ==
  /\ pc = "allocate"
  /\ pc' = "dispatch" /\ todo' = Waiting
  /\ over' = {}
  /\ UNCHANGED <<table, owes, unread, rows, age, plan, pending, admitted, cache, hook, bounds>>

Release ==
  /\ pc = "allocate"
  /\ cache' = Empty
  /\ pc' = "dispatch" /\ todo' = Waiting
  /\ over' = {}
  /\ UNCHANGED <<table, owes, unread, rows, age, plan, pending, admitted, hook, bounds>>

HasRow(c, a) == \E r \in rows : r.case = c /\ r.action = a /\ r.age = age

\* A key that the outbox has already is ignored.
Enqueue(c) ==
  /\ pc = "dispatch" /\ c \in todo \cap admitted
  /\ todo' = todo \ {c}
  /\ rows' = IF HasRow(c, pending[c]) THEN rows
             ELSE rows \cup {[case |-> c, action |-> pending[c], age |-> age, open |-> TRUE]}
  /\ Keep
  /\ UNCHANGED <<owes, unread, pc, age, plan, pending, admitted, cache, hook, bounds>>

\* A slip: what the budget turns away keeps its date.
DeferForBudgetUndated(c) ==
  /\ pc = "dispatch" /\ c \in todo \ admitted
  /\ todo' = todo \ {c}
  /\ Keep
  /\ UNCHANGED <<owes, unread, rows, pc, age, plan, pending, admitted, cache, hook, bounds>>

\* An hour after the tick began.
DeferForBudget(c) ==
  /\ pc = "dispatch" /\ c \in todo \ admitted
  /\ todo' = todo \ {c}
  /\ nextIn' = [nextIn EXCEPT ![c] = 1 - age]
  /\ UNCHANGED <<state, approved, owes, unread, rows, pc, age, plan, pending, admitted,
                 cache, hook, over, bounds>>

Dispatched ==
  /\ pc = "dispatch" /\ todo = {}
  /\ pc' = "drain" /\ admitted' = {}
  /\ Keep
  /\ UNCHANGED <<owes, unread, rows, age, todo, plan, pending, cache, hook, bounds>>

-----------------------------------------------------------------------------
(* The tick: the drain *)

Close(closed) == {IF r \in closed THEN [r EXCEPT !.open = FALSE] ELSE r : r \in rows}

\* The gates let the row through, or deny it, or it is given up.
Execute(r) ==
  /\ pc = "drain" /\ r \in rows /\ r.open /\ owes[r.case]
  /\ rows' = Close({r})
  /\ Keep
  /\ UNCHANGED <<owes, unread, stack, cache, hook, bounds>>

\* The stop gate stops the case: nothing is owed, or another condition.
Stop(r) ==
  /\ pc = "drain" /\ r \in rows /\ r.open
  /\ rows' = Close({s \in rows : s.case = r.case})
  /\ pc' = IF owes[r.case] THEN "stop" ELSE "recover"
  /\ todo' = {r.case}
  /\ Keep
  /\ UNCHANGED <<owes, unread, age, plan, pending, admitted, cache, hook, bounds>>

RecordStop ==
  /\ pc \in {"stop", "recover"}
  /\ \E c \in todo : SetState(c, IF pc = "recover" THEN "RECOVERED" ELSE "STOPPED")
  /\ pc' = "drain" /\ todo' = {}
  /\ UNCHANGED <<approved, nextIn, owes, unread, rows, age, plan, pending, admitted,
                 cache, hook, bounds>>

\* What is open still was deferred or is to be tried again.
EndTick ==
  /\ pc = "drain"
  /\ Leave
  /\ Keep
  /\ UNCHANGED <<owes, unread, rows, cache, hook, bounds>>

-----------------------------------------------------------------------------
(* A tick that fails *)

\* A query or the audit chain throws: the tick ends, the process stays.
Throw ==
  /\ pc # "idle" /\ faults < MaxFaults
  /\ faults' = faults + 1
  /\ Leave
  /\ Keep
  /\ UNCHANGED <<owes, unread, rows, cache, hook, hooks, wishes>>

Crash ==
  /\ faults < MaxFaults
  /\ faults' = faults + 1
  /\ Leave
  /\ cache' = Empty
  /\ Keep
  /\ UNCHANGED <<owes, unread, rows, hook, hooks, wishes>>

-----------------------------------------------------------------------------
(* The others: webhooks, replies, people, the clock *)

\* project has found the row of its case.
Find(c) ==
  /\ hook = None /\ hooks < MaxHooks
  /\ hooks' = hooks + 1
  /\ hook' = [case |-> c, read |-> state[c], posted |-> FALSE]
  /\ Keep
  /\ UNCHANGED <<owes, unread, rows, stack, cache, wishes, faults>>

\* A payment or a refund is appended to the ledger.
Post(o) ==
  /\ hook # None /\ ~hook.posted
  /\ owes' = [owes EXCEPT ![hook.case] = o]
  /\ hook' = [hook EXCEPT !.posted = TRUE]
  /\ Keep
  /\ UNCHANGED <<unread, rows, stack, cache, bounds>>

\* settle, by the state that project has read.
Settle ==
  /\ hook # None /\ hook.posted
  /\ IF ~owes[hook.case] /\ hook.read # "RECOVERED" THEN SetState(hook.case, "RECOVERED")
     ELSE IF owes[hook.case] /\ hook.read = "RECOVERED" THEN SetState(hook.case, "IN_PROGRESS")
     ELSE UNCHANGED <<state, over>>
  /\ hook' = None
  /\ UNCHANGED <<approved, nextIn, owes, unread, rows, stack, cache, bounds>>

\* DISTRESS, ABUSE, WRONG_PERSON or REQUEST_HUMAN.
Reply(c) ==
  /\ wishes < MaxWishes /\ wishes' = wishes + 1
  /\ unread' = unread \cup {c}
  /\ Keep
  /\ UNCHANGED <<owes, rows, stack, cache, hook, hooks, faults>>

Approve(c) ==
  /\ ~approved[c]
  /\ wishes < MaxWishes /\ wishes' = wishes + 1
  /\ approved' = [approved EXCEPT ![c] = TRUE]
  /\ nextIn' = [nextIn EXCEPT ![c] = 0]
  /\ UNCHANGED <<state, owes, unread, rows, stack, cache, hook, over, hooks, faults>>

Sooner(n) == IF n = -1 THEN -1 ELSE n - 1

\* The next hour.  A closed row whose key no tick can meet is forgotten.
Pass ==
  /\ age = 0
  /\ age' = IF pc = "idle" THEN 0 ELSE 1
  /\ nextIn' = [c \in Case |-> Sooner(nextIn[c])]
  /\ plan' = IF plan = None THEN None ELSE [plan EXCEPT !.wait = Sooner(@)]
  /\ rows' = {[r EXCEPT !.age = IF @ = 2 THEN 2 ELSE @ + 1] :
                r \in {s \in rows : s.open \/ (s.age = 0 /\ pc # "idle")}}
  /\ UNCHANGED <<state, approved, owes, unread, pc, todo, pending, admitted, cache, hook,
                 over, bounds>>

-----------------------------------------------------------------------------
Tick ==
  \/ \E c \in Case : ReadReply(c) \/ Decide(c) \/ Enqueue(c) \/ DeferForBudget(c)
  \/ Escalate \/ InboxRead \/ SelectDue \/ Prefetch \/ Persist
  \/ Allocate \/ Release \/ Dispatched \/ RecordStop \/ EndTick

Next ==
  \/ StartTick \/ Tick
  \/ \E r \in rows : Execute(r) \/ Stop(r)
  \/ Throw \/ Crash
  \/ \E c \in Case : Find(c) \/ Reply(c) \/ Approve(c)
  \/ \E o \in BOOLEAN : Post(o)
  \/ Settle \/ Pass

Spec == Init /\ [][Next]_vars

\* The scheduler keeps calling, a tick goes on and time passes.
FairSpec ==
  /\ Spec
  /\ WF_vars(StartTick) /\ WF_vars(Tick) /\ WF_vars(Pass)

-----------------------------------------------------------------------------
\* A case that was RECOVERED or STOPPED when the rows were prefetched, and is
\* so still, is not decided: neither the due query, nor the cache, which
\* survives an exception, nor the loop lets one through.
DecidesOnlyLive == pc = "persist" => plan.case \notin over

\* A case that waits for a person is not decided: the inbox is read before
\* the due cases are selected, and nothing else escalates in a tick.
NotDecidedWhileHuman == pc = "persist" => state[plan.case] # "AWAITING_HUMAN"

\* A case gets one action for each window, and one more if it was approved:
\* persist moves the next decision away before anything is enqueued, a
\* deferral for want of budget does not bring back what was enqueued, and
\* no exception or crash lets a tick enqueue again.
SpacedActions ==
  \A c \in Case, n \in 0..1 :
    Cardinality({r \in rows : r.case = c /\ r.age = n}) <= IF approved[c] THEN 2 ELSE 1

\* When the decisions of a tick are dispatched, each action it decided to
\* execute is in the outbox, or the case is decided again within the hour:
\* the budget delays an action and loses none.
NoActionLost ==
  pc = "drain" => \A c \in Waiting : HasRow(c, pending[c]) \/ nextIn[c] <= 1

\* The gates of a drain see the case as it is, not as it was when the cycle
\* prefetched it: an approval or a payment during the cycle counts.
GatesSeeTheRow == pc = "drain" => \A c \in Case : View(c) = Fresh(c)

\* A case that is live is decided, sooner or later, or is live no more:
\* no deferral, budget, approval, exception or crash leaves it aside.
LiveIsDecided ==
  \A c \in Case :
    state[c] \in Live ~> (pc = "persist" /\ plan.case = c) \/ state[c] \notin Live

\* A terminal case is not decided: it becomes live again only when money is
\* owed again.
TerminalKept ==
  [][\A c \in Case : state[c] \in Terminal /\ state'[c] \in Live => owes[c]]_vars
=============================================================================
