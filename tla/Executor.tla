------------------------------ MODULE Executor ------------------------------
(***************************************************************************)
(* src/execution/executor.ts: drains working the outbox.  A drain is one   *)
(* call of Executor.drain; host[d] is the operating-system process it runs *)
(* in, which is what its KeyedMutex is shared by.  Every await in the code *)
(* ends a step, so whatever else runs in any process, and whatever a       *)
(* webhook stores, falls between two steps of a drain.  One thing is       *)
(* folded: a gate's verdict and the one row write that follows from it     *)
(* are a single step, because the row is IN_FLIGHT in between, which no    *)
(* other statement tells from the status that is written, and because a    *)
(* crash in between leaves what a crash before the verdict leaves.         *)
(*                                                                         *)
(* The stop gate and the policy gate appear as their verdicts, computed    *)
(* from the context that is loaded for the gate.  It is loaded from        *)
(* several tables, each in a read of its own.  They are one step here: a   *)
(* payment, a dispute and an opt-out are never taken back, so a load that  *)
(* misses one of them decides like a load that ran before it was stored,   *)
(* and a load that sees one decides like a later one.                      *)
(*                                                                         *)
(* A process has one ContextBuilder, and the decision cycle of a tick      *)
(* leaves prefetched rows in it until it releases them.  The tick itself   *)
(* drains after that, but a drain of another tick in the process, which    *)
(* outlived its lease, is served these rows: a load looks there first for  *)
(* the row of the case and of the customer, and goes to the tables for     *)
(* the ledger and the promises only.  A row that a cycle's query has found *)
(* may be on its way to the map, in it, or still to come after the map was *)
(* emptied; which, is left open, and so is whether a load finds it there.  *)
(*                                                                         *)
(* The rest of the program is the environment: it enqueues, it records     *)
(* payments, disputes and promises, it moves the kill switch, and the      *)
(* cycles of other ticks of a process prefetch and release.                *)
(***************************************************************************)
EXTENDS Outbox, FiniteSets

CONSTANTS
  Customer, CustomerOf,   \* whose case it is
  Drain, Process,
  Configs,                \* the kinds of actions, placements of drains on
                          \* processes and settings of DRY_RUN considered
  None,                   \* no action
  MaxAttempts,            \* maxAttempts ?? 5
  TouchCap,               \* authority.budgets.max_touches_per_case
  MaxDisturbances,        \* model bound: failures, crashes, and facts that
                          \* other parts store, in a behaviour
  MaxPrefetched           \* model bound: rows that a ContextBuilder holds or
                          \* waits for at a time

Kind == {"CHARGE", "MESSAGE", "INTERNAL"}

ASSUME ExecutorAssumption ==
  /\ CustomerOf \in [Case -> Customer]
  /\ Configs \subseteq [kind : [Action -> Kind], host : [Drain -> Process],
                         dryRun : BOOLEAN]
  /\ None \notin Action \cup Drain
  /\ MaxAttempts \in Nat \ {0}
  /\ TouchCap \in Nat
  /\ {MaxDisturbances, MaxPrefetched} \subseteq Nat
  /\ IsFiniteSet(Drain)

VARIABLES
  kind, host, dryRun,  \* configuration, fixed by Init
  caseState, paid, flag, touches,  \* per case: risk_cases and the ledger
  optedOut,            \* customers.optedOutGlobal
  halted,              \* facts.killSwitchEngaged or merchantPaused, per process
  caseRows, people,    \* per process: rows prefetched by a decision cycle
  pc, batch, seen, cur, why, touchRead,  \* a drain's stack
  contacts, doomed, misled, faults, events  \* what happened

config == <<kind, host, dryRun>>
cases == <<caseState, paid, flag, touches>>
prefetched == <<caseRows, people>>
facts == <<cases, optedOut, halted, prefetched>>
stack == <<pc, batch, seen, cur, why, touchRead>>
history == <<contacts, doomed, misled, faults, events>>
vars == <<rows, config, facts, stack, history>>

\* Where a drain is: at "next" it holds no row, and with an empty batch it is
\* not running at all.  InTry is what the catch of execute covers.
InTry == {"call", "accepted", "contact", "touch", "optOut", "optCancel"}
Holding == InTry \cup {"gate", "policy", "cancel", "record", "fail"}
PC == Holding \cup {"next"}

\* STOP reasons that matter to what is written; a reply that opts out.
Why == {"none", "STOP_PAID", "STOP_OTHER", "OPT_OUT"}

\* What a gate reads of a row.
CaseRow == [case : Case, disputed : BOOLEAN, touches : Nat]
Person == [customer : Customer, optedOut : BOOLEAN]

ConfigTypeOK == [kind |-> kind, host |-> host, dryRun |-> dryRun] \in Configs

FactsTypeOK ==
  /\ caseState \in [Case -> {"OPEN", "RECOVERED", "STOPPED"}]
  /\ paid \in [Case -> BOOLEAN]
  /\ flag \in [Case -> {"clear", "promised", "disputed"}]
  /\ touches \in [Case -> Nat]
  /\ optedOut \in [Customer -> BOOLEAN]
  /\ halted \in [Process -> BOOLEAN]
  /\ caseRows \in [Process -> SUBSET CaseRow]
  /\ people \in [Process -> SUBSET Person]

StackTypeOK ==
  /\ pc \in [Drain -> PC]
  /\ batch \in [Drain -> SUBSET Action]
  /\ seen \in [Drain -> [Action -> Nat]]
  /\ cur \in [Drain -> Action \cup {None}]
  /\ why \in [Drain -> Why]
  /\ touchRead \in [Drain -> Nat]
  /\ doomed \in [Drain -> BOOLEAN] /\ misled \in [Drain -> BOOLEAN]
  /\ \A d \in Drain : pc[d] \in Holding <=> cur[d] # None

CountsTypeOK ==
  contacts \in [Case -> Nat] /\ faults \in Nat /\ events \in Nat

TypeOK == RowsTypeOK /\ ConfigTypeOK /\ FactsTypeOK /\ StackTypeOK /\ CountsTypeOK

Init ==
  /\ RowsInit
  /\ \E c \in Configs : kind = c.kind /\ host = c.host /\ dryRun = c.dryRun
  /\ caseState = [c \in Case |-> "OPEN"]
  /\ paid = [c \in Case |-> FALSE]
  /\ flag = [c \in Case |-> "clear"]
  /\ touches = [c \in Case |-> 0]
  /\ optedOut = [u \in Customer |-> FALSE]
  /\ halted = [p \in Process |-> FALSE]
  /\ caseRows = [p \in Process |-> {}] /\ people = [p \in Process |-> {}]
  /\ pc = [d \in Drain |-> "next"]
  /\ batch = [d \in Drain |-> {}]
  /\ seen = [d \in Drain |-> [a \in Action |-> 0]]
  /\ cur = [d \in Drain |-> None]
  /\ why = [d \in Drain |-> "none"]
  /\ touchRead = [d \in Drain |-> 0]
  /\ contacts = [c \in Case |-> 0]
  /\ doomed = [d \in Drain |-> FALSE] /\ misled = [d \in Drain |-> FALSE]
  /\ faults = 0 /\ events = 0

-----------------------------------------------------------------------------
\* The gates.

\* The rows as they are stored.
CaseNow(c) == [case |-> c, disputed |-> flag[c] = "disputed", touches |-> touches[c]]
PersonNow(u) == [customer |-> u, optedOut |-> optedOut[u]]

\* What load may come back with: a fetched row, if it is in the map by then, or
\* else the stored one.
LoadedCase(p, c) == {CaseNow(c)} \cup {r \in caseRows[p] : r.case = c}

LoadedPerson(p, u) == {PersonNow(u)} \cup {r \in people[p] : r.customer = u}

\* A slip: the gate looks at the dispute and the switches only, so that a
\* payment or an opt-out stored after the row was enqueued goes unseen.
StopVerdictsUnpaid(a, p, row, person) ==
  IF row.disputed \/ halted[p] THEN {"STOP_OTHER"} ELSE {"CONTINUE"}

\* Over the row of the case and the customer as they were loaded; what is owed
\* and what is promised are read from tables of their own.
StopVerdicts(a, p, row, person) ==
  LET c == CaseOf[a]
      stopped == \/ row.disputed
                 \/ person.optedOut
                 \/ kind[a] # "CHARGE" /\ row.touches >= TouchCap
                 \/ halted[p]
      \* A promise defers a message and spares a charge; a paused cohort,
      \* which is not modelled, defers a charge; an action without a channel
      \* is of either sort.
      deferred == CASE kind[a] = "MESSAGE" -> {flag[c] = "promised"}
                    [] kind[a] = "CHARGE" -> BOOLEAN
                    [] OTHER -> {FALSE, flag[c] = "promised"}
  IN IF paid[c] THEN {"STOP_PAID"}
     ELSE IF stopped THEN {"STOP_OTHER"}
     \* Dead mandate, risk flag, economics, age: any case may be stopped.
     ELSE {"STOP_OTHER"} \cup {IF w THEN "DEFER" ELSE "CONTINUE" : w \in deferred}

\* A stored fact after which the agent must not act on a's case, and which a
\* load in process p cannot miss: no row that a cycle fetched there is older.
MustNotAct(a, p) ==
  LET c == CaseOf[a]
      u == CustomerOf[c]
  IN \/ paid[c]
     \/ flag[c] = "disputed" /\ \A r \in caseRows[p] : r.case = c => r.disputed
     \/ optedOut[u] /\ \A r \in people[p] : r.customer = u => r.optedOut

-----------------------------------------------------------------------------
\* Control of a drain.

Goto(d, l) == pc' = [pc EXCEPT ![d] = l]

\* The end of execute: the mutex is released and the loop goes on.
Finish(d) ==
  /\ Goto(d, "next")
  /\ cur' = [cur EXCEPT ![d] = None]
  /\ seen' = [seen EXCEPT ![d][cur[d]] = 0]
  /\ why' = [why EXCEPT ![d] = "none"]
  /\ doomed' = [doomed EXCEPT ![d] = FALSE]
  /\ misled' = [misled EXCEPT ![d] = FALSE]
  /\ touchRead' = [touchRead EXCEPT ![d] = 0]
  /\ UNCHANGED <<batch, contacts, faults, events>>

\* A step of execute that leaves everything but the row and pc alone.
Step(d, l) ==
  /\ Goto(d, l)
  /\ UNCHANGED <<batch, seen, cur, why, touchRead, history>>

\* outbox.due, one round: fewer rows are due than the limit of 500.
StartDrain(d) ==
  /\ pc[d] = "next" /\ batch[d] = {} /\ ~halted[host[d]] /\ Due # {}
  /\ batch' = [batch EXCEPT ![d] = Due]
  /\ seen' = [seen EXCEPT ![d] = [a \in Action |-> IF a \in Due THEN attempts[a] ELSE 0]]
  /\ UNCHANGED <<rows, config, facts, pc, cur, why, touchRead, history>>

HaltDrain(d) ==
  /\ pc[d] = "next" /\ batch[d] # {} /\ halted[host[d]]
  /\ batch' = [batch EXCEPT ![d] = {}]
  /\ seen' = [seen EXCEPT ![d] = [a \in Action |-> 0]]
  /\ UNCHANGED <<rows, config, facts, pc, cur, why, touchRead, history>>

\* A slip: the mutex is keyed by the row rather than by its case.
LockedByRow(p, c) == FALSE

\* The per-process, per-case KeyedMutex that locks.run takes.
Locked(p, c) ==
  \E e \in Drain : host[e] = p /\ cur[e] # None /\ CaseOf[cur[e]] = c

\* The next row of the batch, under the mutex; the claim is its first step.
TakeRow(d, a) ==
  /\ pc[d] = "next" /\ ~halted[host[d]]
  /\ a \in batch[d] /\ ~Locked(host[d], CaseOf[a])
  /\ batch' = [batch EXCEPT ![d] = @ \ {a}]

ClaimRow(d, a) ==
  /\ TakeRow(d, a) /\ Claimable(a)
  /\ Claim(a)
  /\ Goto(d, "gate")
  /\ cur' = [cur EXCEPT ![d] = a]
  /\ doomed' = [doomed EXCEPT ![d] = MustNotAct(a, host[d])]
  /\ UNCHANGED <<config, facts, seen, why, touchRead, contacts, misled, faults, events>>

SkipRow(d, a) ==
  /\ TakeRow(d, a) /\ ~Claimable(a)
  /\ seen' = [seen EXCEPT ![d][a] = 0]
  /\ UNCHANGED <<rows, config, facts, pc, cur, why, touchRead, history>>

-----------------------------------------------------------------------------
\* The gates run again.

\* A stop suppresses the row, then cancels what else is pending for the
\* case, then stops the case; a deferral postpones the row.
Verdict(d, v) ==
  \/ /\ v \in {"STOP_PAID", "STOP_OTHER"}
     /\ MarkSuppressed(cur[d])
     /\ Goto(d, "cancel")
     /\ why' = [why EXCEPT ![d] = v]
     /\ UNCHANGED <<batch, seen, cur, touchRead, history>>
  \/ v = "DEFER" /\ Reschedule(cur[d]) /\ Finish(d)

\* Misled is a gate that was told of fewer touches than the case has had.
Continue(d, row) ==
  /\ Goto(d, "policy")
  /\ misled' = [misled EXCEPT ![d] = row.touches < touches[row.case]]
  /\ UNCHANGED <<rows, batch, seen, cur, why, touchRead,
                 contacts, doomed, faults, events>>

LoadStop(d) ==
  /\ pc[d] = "gate"
  /\ LET c == CaseOf[cur[d]]
         p == host[d]
     IN \E row \in LoadedCase(p, c), person \in LoadedPerson(p, CustomerOf[c]) :
          \E v \in StopVerdicts(cur[d], p, row, person) :
            Verdict(d, v) \/ (v = "CONTINUE" /\ Continue(d, row))
  /\ UNCHANGED <<config, facts>>

CancelStopped(d) ==
  /\ pc[d] = "cancel"
  /\ CancelPendingForCase(CaseOf[cur[d]])
  /\ Step(d, "record")
  /\ UNCHANGED <<config, facts>>

\* recordStop: unconditional on the state it overwrites.
RecordStop(d) ==
  /\ pc[d] = "record"
  /\ caseState' = [caseState EXCEPT ![CaseOf[cur[d]]] =
                     IF why[d] = "STOP_PAID" THEN "RECOVERED" ELSE "STOPPED"]
  /\ Finish(d)
  /\ UNCHANGED <<rows, config, paid, flag, touches, optedOut, halted, prefetched>>

\* The policy rules read consent, quiet hours, caps and content, which are
\* not modelled here: any verdict is possible.  MODIFY dispatches like ALLOW.
LoadPolicy(d) ==
  /\ pc[d] = "policy"
  /\ \/ Step(d, "call") /\ UNCHANGED rows
     \/ MarkSuppressed(cur[d]) /\ Finish(d)
     \/ Reschedule(cur[d]) /\ Finish(d)
  /\ UNCHANGED <<config, facts>>

-----------------------------------------------------------------------------
\* Dispatch.

\* What a provider or the way to it can answer, and where execute goes on.
\* A refusal that is not retryable is marked SENT like an acceptance.
Calling(d, next, opts) ==
  /\ Goto(d, next)
  /\ why' = [why EXCEPT ![d] = IF opts THEN "OPT_OUT" ELSE @]
  /\ UNCHANGED <<rows, config, facts, batch, seen, cur, touchRead,
                 contacts, doomed, misled, faults, events>>

Call(d) ==
  /\ pc[d] = "call" /\ kind[cur[d]] # "INTERNAL" /\ ~dryRun
  /\ \/ Calling(d, "accepted", FALSE)
     \/ kind[cur[d]] = "MESSAGE" /\ Calling(d, "accepted", TRUE)
     \/ Calling(d, "fail", FALSE)

\* Under a dry run the provider attempts nothing, and whether or not it is
\* one the content may not render: the row is suppressed.
Withhold(d) ==
  /\ pc[d] = "call"
  /\ (dryRun /\ kind[cur[d]] # "INTERNAL") \/ kind[cur[d]] = "MESSAGE"
  /\ MarkSuppressed(cur[d])
  /\ Finish(d)
  /\ UNCHANGED <<config, facts>>

\* No sender is registered for the channel.
GiveUp(d) ==
  /\ pc[d] = "call" /\ kind[cur[d]] = "MESSAGE"
  /\ DeadLetter(cur[d])
  /\ Finish(d)
  /\ UNCHANGED <<config, facts>>

CallNothing(d) ==
  /\ pc[d] = "call" /\ kind[cur[d]] = "INTERNAL"
  /\ Step(d, "accepted")
  /\ UNCHANGED <<rows, config, facts>>

RecordSent(d) ==
  /\ pc[d] = "accepted"
  /\ MarkSent(cur[d])
  /\ IF kind[cur[d]] = "MESSAGE" THEN Step(d, "contact") ELSE Finish(d)
  /\ UNCHANGED <<config, facts>>

\* recordContact: read the case from its table, insert the contact, write the
\* count back.  Nothing else reads the inserted row, so it goes with the read.
\* Counted are the contacts whose gate was told of all that came before.
InsertContact(d) ==
  /\ pc[d] = "contact"
  /\ Goto(d, "touch")
  /\ touchRead' = [touchRead EXCEPT ![d] = touches[CaseOf[cur[d]]]]
  /\ contacts' = IF misled[d] THEN contacts ELSE [contacts EXCEPT ![CaseOf[cur[d]]] = @ + 1]
  /\ UNCHANGED <<rows, config, facts, batch, seen, cur, why,
                 doomed, misled, faults, events>>

WriteTouches(d) ==
  /\ pc[d] = "touch"
  /\ touches' = [touches EXCEPT ![CaseOf[cur[d]]] = touchRead[d] + 1]
  /\ IF why[d] = "OPT_OUT" THEN Step(d, "optOut") ELSE Finish(d)
  /\ UNCHANGED <<rows, config, caseState, paid, flag, optedOut, halted, prefetched>>

StoreOptOut(d) ==
  /\ pc[d] = "optOut"
  /\ optedOut' = [optedOut EXCEPT ![CustomerOf[CaseOf[cur[d]]]] = TRUE]
  /\ Step(d, "optCancel")
  /\ UNCHANGED <<rows, config, cases, halted, prefetched>>

CancelOptedOut(d) ==
  /\ pc[d] = "optCancel"
  /\ CancelPendingForCase(CaseOf[cur[d]])
  /\ Finish(d)
  /\ UNCHANGED <<config, facts>>

\* A slip: one attempt too many, by > for >=.
HandleFailureLate(d) ==
  /\ pc[d] = "fail"
  /\ IF seen[d][cur[d]] + 1 > MaxAttempts
     THEN DeadLetter(cur[d])
     ELSE MarkRetry(cur[d])
  /\ Finish(d)
  /\ UNCHANGED <<config, facts>>

\* The attempt number comes from the row as the drain read it, not as it is.
HandleFailure(d) ==
  /\ pc[d] = "fail"
  /\ IF seen[d][cur[d]] + 1 >= MaxAttempts
     THEN DeadLetter(cur[d])
     ELSE MarkRetry(cur[d])
  /\ Finish(d)
  /\ UNCHANGED <<config, facts>>

-----------------------------------------------------------------------------
\* Failures.

Fault == faults + events < MaxDisturbances /\ faults' = faults + 1

\* An await inside execute's try throws: caught, and handled as a failure.
ThrowInDispatch(d) ==
  /\ Fault
  /\ pc[d] \in InTry
  /\ Goto(d, "fail")
  /\ UNCHANGED <<rows, config, facts, batch, seen, cur, why, touchRead,
                 contacts, doomed, misled, events>>

Dead(S) ==
  /\ pc' = [d \in Drain |-> IF d \in S THEN "next" ELSE pc[d]]
  /\ batch' = [d \in Drain |-> IF d \in S THEN {} ELSE batch[d]]
  /\ seen' = [d \in Drain |-> IF d \in S THEN [a \in Action |-> 0] ELSE seen[d]]
  /\ cur' = [d \in Drain |-> IF d \in S THEN None ELSE cur[d]]
  /\ why' = [d \in Drain |-> IF d \in S THEN "none" ELSE why[d]]
  /\ touchRead' = [d \in Drain |-> IF d \in S THEN 0 ELSE touchRead[d]]
  /\ doomed' = [d \in Drain |-> IF d \in S THEN FALSE ELSE doomed[d]]
  /\ misled' = [d \in Drain |-> IF d \in S THEN FALSE ELSE misled[d]]
  /\ UNCHANGED <<rows, config, cases, optedOut, halted, contacts, events>>

\* An await outside the try throws, or a provider attempts a call in a dry
\* run (DryRunViolationError): the exception leaves drain.
Abort(d) ==
  /\ Fault
  /\ pc[d] \in Holding \ InTry \/ (pc[d] = "call" /\ dryRun)
  /\ Dead({d}) /\ UNCHANGED prefetched

\* The process dies; its locks and its maps die with it, the rows stay as they
\* are.
Crash(p) ==
  /\ Fault
  /\ \E d \in Drain : host[d] = p /\ (batch[d] # {} \/ cur[d] # None)
  /\ Dead({d \in Drain : host[d] = p})
  /\ caseRows' = [caseRows EXCEPT ![p] = {}] /\ people' = [people EXCEPT ![p] = {}]

-----------------------------------------------------------------------------
\* The rest of the program.

Submit(a) ==
  /\ Enqueue(a)
  /\ UNCHANGED <<config, facts, stack, history>>

Wait(a) ==
  /\ ComesDue(a)
  /\ UNCHANGED <<config, facts, stack, history>>

Event == faults + events < MaxDisturbances /\ events' = events + 1

\* A payment webhook clears the ledger and settles the case.
Pay(c) ==
  /\ ~paid[c] /\ Event
  /\ paid' = [paid EXCEPT ![c] = TRUE]
  /\ caseState' = [caseState EXCEPT ![c] = "RECOVERED"]
  /\ UNCHANGED <<rows, config, flag, touches, optedOut, halted, prefetched,
                 stack, contacts, doomed, misled, faults>>

\* A reply promises to pay or disputes; a promise lapses.
Reply(c) ==
  /\ Event
  /\ \/ flag[c] = "clear" /\ \E f \in {"promised", "disputed"} : flag' = [flag EXCEPT ![c] = f]
     \/ flag[c] = "promised" /\ flag' = [flag EXCEPT ![c] = "clear"]
  /\ UNCHANGED <<rows, config, caseState, paid, touches, optedOut, halted, prefetched,
                 stack, contacts, doomed, misled, faults>>

\* A tick of process p, before its drain, reads the kill switch and the merchant's pause.
ReadSwitches(p) ==
  /\ Event /\ \E d \in Drain : host[d] = p
  /\ halted' = [halted EXCEPT ![p] = ~@]
  /\ UNCHANGED <<rows, config, cases, optedOut, prefetched,
                 stack, contacts, doomed, misled, faults>>

-----------------------------------------------------------------------------
\* Decision cycles of other ticks of a process.

\* The tick whose cycle goes on is one that does not drain, or not yet.
MayFetch(p) ==
  /\ \E d, e \in Drain : d # e /\ host[d] = p /\ host[e] = p /\ pc[e] = "next" /\ batch[e] = {}
  /\ Cardinality(caseRows[p]) + Cardinality(people[p]) < MaxPrefetched

\* prefetch queries the cases that are due and then their customers; a query
\* that fails leaves in the map what others put there.
FetchCase(p, c) ==
  /\ MayFetch(p)
  /\ caseRows' = [caseRows EXCEPT ![p] = @ \cup {CaseNow(c)}]
  /\ UNCHANGED <<rows, config, cases, optedOut, halted, people, stack, history>>

FetchPerson(p, u) ==
  /\ MayFetch(p)
  /\ people' = [people EXCEPT ![p] = @ \cup {PersonNow(u)}]
  /\ UNCHANGED <<rows, config, cases, optedOut, halted, caseRows, stack, history>>

\* The maps are emptied by release and when another prefetch begins; but what is
\* on the way to them, and that may be any of the rows, still arrives.
Release(p) ==
  /\ \E rest \in SUBSET caseRows[p] : caseRows' = [caseRows EXCEPT ![p] = rest]
  /\ \E rest \in SUBSET people[p] : people' = [people EXCEPT ![p] = rest]
  /\ UNCHANGED <<rows, config, cases, optedOut, halted, stack, history>>

Advance(d) ==
  \/ HaltDrain(d)
  \/ LoadStop(d) \/ CancelStopped(d) \/ RecordStop(d) \/ LoadPolicy(d)
  \/ Call(d) \/ Withhold(d) \/ GiveUp(d) \/ CallNothing(d) \/ RecordSent(d)
  \/ InsertContact(d) \/ WriteTouches(d) \/ StoreOptOut(d) \/ CancelOptedOut(d)
  \/ HandleFailure(d)

Next ==
  \/ \E d \in Drain : StartDrain(d) \/ Advance(d) \/ ThrowInDispatch(d) \/ Abort(d)
  \/ \E d \in Drain, a \in Action : ClaimRow(d, a) \/ SkipRow(d, a)
  \/ \E p \in Process : Crash(p) \/ ReadSwitches(p)
  \/ \E a \in Action : Submit(a) \/ Wait(a)
  \/ \E c \in Case : Pay(c) \/ Reply(c)
  \/ \E p \in Process :
       \/ \E c \in Case : FetchCase(p, c)
       \/ \E u \in Customer : FetchPerson(p, u)
       \/ Release(p)

Spec == Init /\ [][Next]_vars

\* Ticks keep coming and node keeps running a drain's continuation until it
\* ends; the promise chain of the KeyedMutex is first come, first served.
Fairness ==
  \A d \in Drain :
    /\ WF_vars(StartDrain(d) \/ Advance(d))
    /\ \A a \in Action : SF_vars(ClaimRow(d, a) \/ SkipRow(d, a))

FairSpec == Spec /\ Fairness

-----------------------------------------------------------------------------
\* The refinement mapping: a row is held while the stack of a drain that
\* claimed it exists, whatever its status column already says.

Holds(d, a) == cur[d] = a /\ pc[d] \in Holding

Held(a) == \E d \in Drain : Holds(d, a)

HolderOf(a) == IF Held(a) THEN CHOOSE d \in Drain : Holds(d, a) ELSE None

FreePhase(s) ==
  CASE s = "ABSENT" -> "absent"
    [] s = "SCHEDULED" -> "waiting"
    [] s = "IN_FLIGHT" -> "abandoned"
    [] OTHER -> "closed"

PhaseOf(a) == IF Held(a) THEN "held" ELSE FreePhase(status[a])

Lifecycle == INSTANCE ActionLifecycle WITH
  Worker <- Drain, Nobody <- None,
  phase <- [a \in Action |-> PhaseOf(a)],
  holder <- [a \in Action |-> HolderOf(a)]

\* Drains, claims, failures and crashes implement the life of an action: it
\* is held by one drain at a time, no statement of another drain (a stop's
\* or an opt-out's cancellation included) moves it meanwhile, and what its
\* holder closed is never reopened.  The claim is the only thing that keeps
\* two drains that read the same due row apart (outbox.ts, claim).
ImplementsLifecycle == Lifecycle!Spec

-----------------------------------------------------------------------------
\* Safety.

\* What the row of a drain can read at each point of execute.
RowAt(l) ==
  CASE l \in {"gate", "policy", "call", "accepted"} -> {"IN_FLIGHT"}
    [] l \in {"cancel", "record"} -> {"SUPPRESSED"}
    [] l \in {"contact", "touch", "optOut", "optCancel"} -> {"SENT"}
    [] OTHER -> {"IN_FLIGHT", "SENT"}

\* Two drains never work the same row, and a drain finds its row as it left
\* it itself: no stop, opt-out or retry of another drain writes to it in
\* between, although none of the writes of outbox.ts but claim and
\* cancelPendingForCase compares the status it overwrites.
ClaimExclusive ==
  \A d \in Drain : pc[d] \in Holding =>
    /\ status[cur[d]] \in RowAt(pc[d])
    /\ \A e \in Drain \ {d} : cur[e] # cur[d]

\* "Both gates run again immediately before sending": a payment that was stored
\* before a drain claimed the row keeps that drain from calling a provider for
\* it; and so does a dispute or an opt-out (through any case of the customer),
\* unless a decision cycle of the same process had read the row without it
\* before: what an overlapping tick left in the ContextBuilder, or puts there
\* between the claim and the gate, is all that the gate can miss.
NoCallAfterStop ==
  \A d \in Drain : doomed[d] => pc[d] \notin {"call", "accepted", "contact"}

\* Drains of one process share the KeyedMutex, so a case receives at most
\* TouchCap recorded messages, plus one for each write that failed between the
\* provider's acceptance and the new touch count; not counting those that a
\* gate let through on a count that an overlapping tick had prefetched, which
\* are written to the count that the next gates go by.
TouchBudget ==
  (\A d, e \in Drain : host[d] = host[e]) =>
    \A c \in Case : contacts[c] <= TouchCap + faults

\* The attempt budget survives overlapping drains that judge it by a row
\* read before the claim, with at most one call more for every further drain.
AttemptBudget ==
  \A a \in Action : attempts[a] <= MaxAttempts + Cardinality(Drain) - 1 + faults

\* A due row is taken up or cancelled, unless a switch halts the drains: no
\* gate, lock, retry or deferral of another row starves it, and no path of
\* execute keeps the mutex of its case.
DueIsTaken ==
  \A a \in Action :
    (status[a] = "SCHEDULED" /\ ready[a]) ~>
      (status[a] # "SCHEDULED" \/ ~ready[a] \/ \E p \in Process : halted[p])
=============================================================================
