# Recoup in TLA+

Recoup recovers failed payments for a merchant. Webhooks of the payment gateway
open cases; a periodic *tick* decides what to do about each case, puts the
intended actions into an outbox and drains the outbox through two gates to the
payment and messaging providers; replies of customers come in between, and
everything that is decided or done goes into a hash-chained audit log. The
program is a Next.js application without a scheduler of its own: requests,
ticks and command line runs overlap in one node process and in several, and
share nothing but the database. Apart from one two-statement `batch` in the orchestrator no write is grouped with
another; every `await` is a point at which the others go on.

That makes the interesting questions questions of interleaving: what is read
before an await and used after it, what happens when a query in the middle of
a handler fails, what two requests for the same thing do to each other. A second
kind of question is about days instead of awaits: what rules that each look at
one message, one decision or one window of traffic add up to over the course of
a case. These modules model the parts of the program that answer both, check
them with TLC on small instances, and prove the most important answers with
TLAPS for instances of any size.

Paths below are relative to the repository. All modules are plain TLA+.

## 1. Inventory

### 1.1 Components

| Component | Code | State it keeps | Operations | Model |
|---|---|---|---|---|
| Outbox | `src/execution/outbox.ts` | rows of `actions`: status, attempts, scheduledAt | enqueue, due, claim, markSent, markSuppressed, reschedule, markRetry, deadLetter, cancelPendingForCase | `Outbox`, `ActionLifecycle` |
| Executor | `src/execution/executor.ts`, `src/core/keyed-mutex.ts` | a drain's stack; a mutex for each case and process | drain, execute, dispatch, handleFailure, recordContact, recordStop | `Executor` |
| Stop gate | `src/policy/stop-gate.ts` | none | evaluateStopGate over eighteen conditions | `StopGate`; verdicts in `Executor` |
| Policy gate | `src/policy/engine.ts`, `predicates.ts`, `escalation.ts`, `lexicon.ts`, `config/policy.yaml` | none | evaluate, run over thirty-six rules | `PolicyGate`; verdicts in `Executor` |
| Context builder | `src/engine/context-builder.ts`, `src/db/temporal-cutoff.ts` | a prefetch cache, one in a process | prefetch, load, policyContext, stopContext, touchCounts, release | what is loaded in `CaseCourse`, the contexts in `Decision`, the loads of a drain in `Executor`; the cache of a tick in `DecisionCycle`, of overlapping ticks in `Executor` |
| Audit chain | `src/db/audit-chain.ts` | `audit_records`; a mutex for each merchant and process | append, verify | `AuditChain`, `AuditLog` |
| Tick and lease | `src/runtime/compose.ts`, `src/app/api/v1/tick/route.ts` | `merchants.tickLeaseUntil`, `paused`; `facts` in a process | tick, claimTick, releaseTick, runTick, ingest, approve, persistCohorts | `TickLease` (lease and switches), `DecisionCycle`, `CaseCourse` and `Scenario` (stages of a tick) |
| Webhook receiver | `src/signal/receiver.ts`, `src/app/api/v1/events/route.ts` | `provider_events` | receive, persist | `Ingest` |
| Case projector | `src/signal/case-projector.ts` | `customers`, `risk_cases`, `unmatched_payments` | project, openCase, applySignal, recordFailure, holdUnmatchedPayment, applyHeldPayments, settle | `Ingest` |
| Ledger, TDS | `src/ledger/ledger.ts`, `tds.ts` | `ledger_events` | append, outstanding, sums, detectTdsShortfall | `CaseLedger` |
| Orchestrator, allocator | `src/engine/orchestrator.ts`, `src/allocation/allocator.ts` | `decisions`, the state and nextDecisionAt of a case | runCycle, decideCase, persist, dispatch, deferForBudget, settleFeedback | `DecisionCycle`; decideCase in `CaseCourse`, settleFeedback in `Scenario` |
| Inbound agent | `src/inbound/agent.ts`, `intent.ts` | `contact_events`, `promises`, the state of a case | process, expirePromises | `CaseCourse`; escalations in `DecisionCycle` |
| Learning | `src/decision/bandit.ts`, `bandit-store.ts`, `feedback.ts` | posteriors, pending counts, open attributions | sample, observe, load, flush, record, settle | `Learning`, run by `Scenario` |
| Decision engine | `src/decision/engine.ts`, `playbook.ts`, `economics.ts`, `control-arm.ts` | none | decide | `Decision`; values of candidates are a choice |
| Approval endpoint | `src/app/api/v1/cases/[id]/approve/route.ts` | `humanApprovedAt`, `nextDecisionAt` of a case | approve | an action of `DecisionCycle` and of `CaseCourse` |
| Composition root | `src/runtime/instance.ts`, `src/core/config.ts` | the agent of a process | build, getAgent | its settings in `TickLease`, `Executor` |
| Degradation, root cause | `src/signal/degradation.ts`, `root-cause.ts` | a window of outcomes in memory | record, detect | `Detector`, run by `Scenario`; root cause not modelled |
| Providers | `src/providers/**` | none here | ports for payments, messages, webhooks | a call with every outcome its type allows; classes of errors in `Simulator`, signals of events in `Scenario` |
| Reviewer, templates | `src/review`, `src/content` | none | review, render | `Decision` (what can block a draft) |
| Calendar | `src/core/calendar.ts` | none | dates of Indian time, banking days | `Calendar` |
| Virtual clock | `src/core/clock.ts` | the instant, a heap of entries, the map of those alive | schedule, cancel, nextAt, advanceTo, runUntilIdle | `VirtualClock`, `Agenda` |
| Simulator | `src/sim`, `scripts/lib/scenario.ts` | obligations, customers, a timeline | chargeObligation, applyAction, events; runScenario | `Simulator`, `Scenario` |
| Uplift, experiment, measurement, other core helpers | `src/uplift`, `src/experiment`, `src/measurement`, `src/core` | none | pure functions | not modelled |
| Console, training | `src/app`, `ml`, `scripts` | none of the program's | read-only pages, drivers | not modelled |

### 1.2 How they interact

* A **webhook** request goes `route -> receiver -> projector -> ledger`; on the
  way it writes `provider_events`, `customers`, `risk_cases`, `ledger_events`
  and `unmatched_payments`, each in a query of its own.
* A **tick** claims the lease, reads the switches into the `facts` of its
  process, then runs cohorts, bandit load, inbox, promises, the decision cycle,
  the drain and the bandit flush one after the other, and releases the lease.
* The **decision cycle** reads cases, appends to the audit chain, writes a
  decision and the case, and enqueues in the outbox.
* The **drain** reads due rows, and for each claims it, loads the context
  again, runs both gates, calls a provider, and writes the row and the contact.
* `risk_cases.state` has **four writers** that do not know of each other:
  projector (`settle`), executor (`recordStop`), orchestrator (`persist`) and
  inbound agent. `merchants` is written by ticks and by operators.
* Shared in a process: the `KeyedMutex` of executor and audit chain, `facts`,
  the prefetch cache, the bandit's counts. Shared by processes: the database
  with its unique indexes and compare-and-set updates, and nothing else.

### 1.3 What is hard, and what makes each component correct

* **Outbox and executor.** Drains overlap when a lease is outlived, and from
  the command line. A row must be worked by one drain, whatever is cancelled,
  retried or crashes meanwhile; what was stored before a claim (payment,
  dispute, opt-out) must keep that drain from calling a provider; budgets for
  contacts and attempts must survive stale reads; a due row must not starve. The
  ticks of a process share one prefetch cache: what one tick reads ahead another
  tick's gates are served.
* **Audit chain.** Writers in several processes race for the same place. The
  chain must verify at all times, an acknowledged record must be in it, and
  once; an append may fail only because of others' progress or a real error.
* **Lease.** Ticks exclude each other until one outlives its lease, a lease of
  a dead tick is taken over, and a merchant that is paused is not worked on.
* **Receiver, projector, ledger.** Events come twice, late, in any order and
  at the same time; a request may fail after any query. No payment may be
  booked twice, none that was accepted may be lost, the state of a case must
  follow its ledger, and the order of arrival must not matter.
* **Decision cycle.** It decides on rows prefetched at its start and writes back
  a state read then. No terminal or escalated case may be decided, a case gets
  one action for each window, the budget must lose none, and the gates of the
  drain must see a case as it is.
* **Gates, engine, inbox over days.** Each rule judges one message at one
  instant, on what it can load; messages are put off, tried again and queued
  meanwhile, and other cases of the customer send theirs. Contacts must be
  spaced and capped all the same, the ladder climbed a rung at a time, a debit
  announced, a promise respected and an objection heard, by every queued action.
  A reply is marked as read before it is acted on. What a rule puts off must be
  put off to a later instant.
* **Learning.** Counts are emptied before they are written, and what is not
  written is lost with the process. No decision may be counted twice, and no
  recovery may fall between two ticks.
* **Detector.** It judges a window by a baseline that it learns from windows. An
  outage must not become normal, and a cohort must be let go when it is well.
* **Virtual clock.** Tasks schedule and cancel while a drain goes on, and may throw;
  what is cancelled stays in the heap, marked. Tasks must run in the order of their
  instants, those of one instant as they were scheduled, each once, and none may
  turn the clock back. The call that advances the time awaits its drain, and
  others may call before it goes on.
* **Simulated world.** The same payment is told up to three times; the books
  must say what happened.

The full list, each with its line and the properties that watch it, is
`hazards` in `PROJECT.json`.

## 2. The modules

A module models one component; its actions bear the names of the methods they
model, and `PROJECT.json` maps every definition to its lines. The comment at the
head of a module says what is folded into one step and why that loses nothing.
Every `await` ends a step. Definitions that begin with "A slip:" are mistakes
the code does not make, kept to show that each property can tell them from what
it does make.

| Module | What it is |
|---|---|
| `Outbox` | the rows of `actions` and the statements of `outbox.ts`, as actions on the rows |
| `Executor` | drains working the outbox; EXTENDS `Outbox`, whose statements its steps use |
| `ActionLifecycle` | abstract: what outbox and executor promise about one intended action |
| `AuditChain` | appends from several processes to the hash chains in one table |
| `AuditLog` | abstract: what the chain promises the callers of append |
| `TickLease` | tick, lease and switches, with clocks, crashes and an operator |
| `CaseLedger` | the ledger's rows, sums and unique index, and the search for withheld tax |
| `Ingest` | webhook requests through receiver and projector; EXTENDS `CaseLedger` |
| `DecisionCycle` | the stages of a tick over the rows of `risk_cases`, with the other writers of these rows |
| `Calendar` | `core/calendar.ts`: Indian time, banking days, the windows that rules defer to |
| `PolicyGate` | the policy gate: thirty-six rules and what their failures add up to; EXTENDS `Calendar` |
| `StopGate` | the stop gate: eighteen conditions, their order, what defers; EXTENDS `PolicyGate` |
| `Decision` | what the engine may decide on a case: candidates, the gates' say, the choice; EXTENDS `StopGate` |
| `CaseCourse` | one case over days: ticks with engine, gates, inbox and drain in full; EXTENDS `Decision` |
| `VirtualClock` | the clock of a simulation, its heap a swap at a time |
| `Agenda` | abstract: what the clock promises those who schedule on it |
| `Simulator` | the simulated world: timeline, obligations, customers, gateway events |
| `Detector` | the degradation detector of a process |
| `Learning` | attributions, the bandit's counts, the store |
| `Scenario` | the service in the simulated world; EXTENDS `Simulator`, `Detector`, `Learning`, its clock is an `Agenda`, and it uses the sums of `CaseLedger` |
| `MC*` | instances for TLC |
| `*Proofs` | theorems about the module of the same name; `ClockProofs` about `VirtualClock` |

**Executor.** A drain `d` is a call of `Executor.drain` in process `host[d]`.
`batch` and `seen` are the rows `due` returned, `cur` the row being executed,
`pc` the await it stands at. `Locked` is the `KeyedMutex`: two drains of one
process never work one case. A context load and the verdict of a gate on it are
one step, and so is the row write that follows from the verdict; the module's
head says why. The gates are functions of the stored facts where these facts
decide (`StopVerdicts`) and a free choice elsewhere (`LoadPolicy`): every
verdict the code can reach is covered, and a few that it cannot reach together.
A provider call ends in acceptance, refusal, a reply that opts out, or an
exception; a crash takes all the drains of a process and leaves their rows
`IN_FLIGHT`. `Submit`, `Wait`, `Pay`, `Reply` and `ReadSwitches` are what the
rest of the program may do meanwhile.

`caseRows[p]` and `people[p]` are the two maps of the `ContextBuilder` of process `p`
with what is on the way to them: the rows that queries of `prefetch` found
(`FetchCase`, `FetchPerson`) and that may still be served. `Release` empties the maps,
as does the next `prefetch`, but not what is on the way. The tick to which these steps
belong is one that overlaps with a drain and does not drain itself (`MayFetch`). `load`
takes the row of the case and of the customer from the maps if they are there
(`LoadedCase`, `LoadedPerson`: which rows are in the map and which on the way is left
open), and reads what is owed and promised from the tables. History
tells what this costs: `doomed` marks a drain whose row must not be acted on by a
fact that no such row can hide (`MustNotAct`), `misled` one whose gate was told
of fewer touches than the case has had; `contacts` counts the messages of the others.

**AuditChain.** A writer is one call of `append`. It waits for its turn in its
process, reads the head (or writes the genesis record and reads it again),
inserts under the next number and, when the unique index refuses, starts over
up to `APPEND_RETRIES` times. A hash is the sequence of what was hashed into
it, which keeps that different histories have different hashes.

**TickLease.** A ticker is a caller that calls `tick` again and again. Times are
relative (`age` since a call read its clock, `left` of the lease), so behaviours
do not end. The call reads its clock before it waits for its claim, by up to
`Delay`. `facts` belongs to a process and is shared by its ticks.

**Ingest.** A call `k` is one webhook request. Its stack holds the case row it
read (`row`), the ledger entries it has still to append (`queue`), where it goes
on after them (`cont`), and the sum it read (`due`). `Fail` may strike at any
await: the request answers 500. `Deliver` hands any event to an idle request at
any time, so events come twice, late, in any order and together. `projected`,
`overlapped`, `failed` and `pruned` are history: which events were answered as
projected, on which references two requests were at work together or one
failed, and which held payments were given up for their age.

**DecisionCycle.** One tick at a time walks the stages of `runTick` that touch a
case: `inbox`, `due`, `prefetch`, the loop of `decide` and `persist`, `allocate`,
`dispatch`, `drain`. `plan` is the decision between the load it was made on and
the batch that writes it; `cache` is the prefetched rows and `View` a load that
is served from them. Webhooks (`Find`, `Post`, `Settle`), `Approve`, `Reply` and
the turn of the hour (`Pass`) fall between any two steps, and `Throw` and `Crash`
end a tick anywhere. Dates are hours from now, and ages of windows are hours ago,
so behaviours do not end. Whether a gate, the reviewer or a budget lets an action
through is free; that nothing is owed is the one stop that decides
(`Outcomes`, `Stop`), since it is the one other actors bring about.

**Calendar, PolicyGate, StopGate, Decision.** Operators without state, one
EXTENDS above the other, so that a gate's answer is one expression over a
context. An instant is a number of half hours since 1970: every hour that a rule
names, and the offset of Indian time, are whole half hours. A rule is the set of
its failures, empty when it does not apply or is kept; `on_fail` and the lists of
actions are those of `config/policy.yaml`, and the highest verdict wins. A rule
that throws (`Broken`) fails. The stop gate's reason is the first of `CONDITIONS`
that stops. `decide` is the set of outcomes that the engine may come to: what a
candidate is worth is a choice, any admissible one may be the best, and none may
have a positive value; the fixed schedule, the floor under the treatment arm, the
notice that a held debit brings in, and the date of the next decision are the
code's. A draft is its language, its amount and whether it offers something.

**CaseCourse.** Ticks come at the instants of `course.ticks`, one at a time, and
walk through `inbox` (a reply gets its label, `ReadReply`, and then its
consequence, `ActOnReply`; then `ExpirePromises`), `decide` and `drain`. `load` is
what the context builder makes of the tables: the newest consent, the contacts
of seven days over all cases, the rung reached and since when, the newest notice,
replies and promises. `Verdict` asks the gates as the executor does, with a
context loaded for each row and without a text. `OtherContact` is a message about
another case of the customer by the same gate; webhooks, an approval and the
detector's say on the cohort fall between ticks, and `Crash` ends a tick anywhere.
What happens between the steps of a stage is the subject of `Executor` and
`DecisionCycle`; here the stages are whole and the days go by.

**VirtualClock, Agenda.** `items` is the heap, its first entry at 1; `live` is the
map of what is to run, `cancelled` the numbers of the entries that are marked. An
entry rises (`Rise`) and sinks (`Sink`) one swap at a time, with `i` where it is. All
of a call but the drain is synchronous: `schedule` goes on to `Scheduled`, `nextAt`
drops marked entries to `Peeked`. A drain (`advanceTo` a target, or `Forever` for
`runUntilIdle`) pops, skips what is marked, and hands over to the task (`Fire`);
while the task runs, or is awaited, it and others may call the clock (`MayCall`), and
it ends well (`Settled`) or throws (`Thrown`). The end of a drain (`Drained`) and the
assignment of the target (`Arrive`) are two steps, with the await of `advanceTo`
between them: `returning` is the queue of targets whose drains are over, in the
order in which they go on, and meanwhile the clock may be called and the next
drain may begin. What is scheduled then, for an instant that is not after such a
target, is `early`. `Agenda` knows a set of tasks, runs the first of them at its
instant, and passes over none. The mapping takes what is
in `live` for the agenda, so that a task is on it from the return of `schedule`; the one
step of the clock that is none of the agenda's is an `Arrive` that passes over
tasks, and these are `early` (`PassesOver`).

**Simulator, Detector, Learning, Scenario.** `Scenario` is
`runScenario` with a small population: the hourly tasks, due dates and outages
(`Tasks`) are on an agenda in the order of the script, and `Advance` runs the next by
`Agenda!Run`. Nothing else happens to its clock, since no task of the script
schedules or cancels another.
`Simulator` draws: an attempt may fail for every cause that has a positive
probability in the state of the world, under every error signature of that cause,
and `classifyError` and `countsAgainstAttemptBudget` then say what the books make of
it. Its events go through `toSignal` and `project` into the books, and into the
detector. The tick is seen from the learning side: `Sense`, `Feedback`, `Flush` arm
by arm, `Decide`, `Drain`. `FlushFails` and `Restart` are two faults that a running
service has. `Detector` computes in whole numbers: the comparison with the Wilson
bound is multiplied out, rates are per cent. `Learning` keeps counts without
priors and without the draw.

### Not in the models

* The signature check, body limits, rate limits and authentication: they turn a
  request away before any state is touched.
* Strata, the wording of messages and the word lists that search it, money
  formatting: a text is its language, its amount and the kinds of phrase in it.
* How a reply is understood (`intent.ts`): a reply is the intent it has.
* The value of a candidate (bandit draw, uplift model, costs): a choice.
* The seasonal baseline of the detector, its onset and impact estimates, and
  root causes: a baseline of an hour of the day needs weeks of traffic.
* A bandit arm's other coordinates (method, issuer, day, hour, diagnosis): they
  only make more arms.
* `persistCohorts` and the incidents it reports; console, training, measurement.
* Clocks that differ between processes. All compare against the time of the
  call; the lease's property would need a bound on the skew.
* In `Ingest`, other writers of a case's state: they are the subject of
  `DecisionCycle`, which in turn has one webhook at a time and one tick at a time.
* In `DecisionCycle`, two approvals of a case at once, the audit records, and the
  operational actions that accompany a chosen one.
* Backoff lengths in the outbox: `Wait` makes a row due at some time; in
  `CaseCourse` a retry comes with the next tick.
* In `CaseCourse`, overlapping ticks and two writers at a time (`Executor`,
  `DecisionCycle` have them), the kill switch, and a row left `IN_FLIGHT`. In
  `Scenario`, which candidate is chosen and what gates refuse, but for charges of
  a paused cohort.
* The components marked *not modelled* in 1.1: they compute with floating point
  numbers, or keep no state.

## 3. The runs

Every run's `CONSTANTS` are in its `.cfg`; the `MC` module says what they stand
for. All passing runs explore all states of their instance. The types of
`Executor`, `TickLease` and `DecisionCycle`, and `OnlyForward` of `VirtualClock`, which says of time
what the refinement says of tasks, are in no run: they are proved.

| Run | Instance | Properties |
|---|---|---|
| `executor` | 2 actions of 1 case, 2 drains in 1 process or 2, 1 disturbance, 1 row prefetched at a time: two messages in one process; in two, two charges, or a message and an action without a call | `ClaimExclusive`, `NoCallAfterStop`, `TouchBudget`, `AttemptBudget`, `ImplementsLifecycle` |
| `executor_live` | 2 cases of 1 customer, 2 drains in 1 process, with and without dry run, no disturbance | `DueIsTaken` |
| `audit_chain` | 3 writers of one merchant, 1 of another, 2 placements, 2 tries, 1 fault | `TypeOK`, `ChainIntact`, `LosesToOthers`, `ImplementsLog`, `Settles` |
| `tick_lease` | 2 callers in 1 process or 2, lease of 2 units, claim delay 1, 1 crash | `OneTick`, `HaltHonoured`, `LeaseNotStuck` |
| `ingest` | 10 events, 1 failure; 2 requests at a time and 3 deliveries, or 1 and 5 | `TypeOK`, `BookedOnce`, `PaymentKept`, `StateMatchesLedger`, `OrderIrrelevant` |
| `ingest_order` | a failure and its payment, 2 requests | `OrderIndependent`: violated, finding 1 |
| `decision_cycle` | 1 case, 2 actions, 2 webhooks, 2 replies or approvals, 1 fault | `DecidesOnlyLive`, `NotDecidedWhileHuman`, `SpacedActions`, `GatesSeeTheRow` |
| `decision_budget` | 2 cases, 1 action, budget of 1, 1 reply or approval, 1 fault | `NoActionLost`, `LiveIsDecided` |
| `decision_terminal` | 2 cases, 1 webhook | `TerminalKept`: violated, finding 2 |
| `course` | 7 courses of one case, 3 to 6 ticks each, up to 2 events | `TypeOK`, `SpacedContacts`, `WeeklyCaps`, `LadderClimbed`, `PromiseRespected`, `NoticeBeforeDebit`, `DeferredAhead`, `ObjectionsSilence` |
| `clock` | 5 tasks, 3 instants, limit of 3 tasks a drain, 1 `advanceTo` about to return | `PendingIsQueued`, `ImplementsAgenda` |
| `scenario` | 7 scenarios of 4 to 24 hours, up to 1 fault | `BooksMatchWorld`, `CountedOnce`, `RecoveriesCredited`, `PauseFollowsTraffic`, `PauseIsEarned` |

What they show:

* **`executor`**: whatever two drains, a stop, an opt-out, a retry and one
  failure, crash or outside event do between each other's steps, a row has one
  holder and is found as its holder left it; a payment stored before the claim
  keeps the provider from being called, and so does a dispute or an opt-out that
  no prefetched row of an overlapping tick can hide; within one process a case
  gets no more messages than its cap, plus one for each failed write, but for
  those whose gate was served a prefetched count; and overlapping drains
  spend at most one attempt each beyond the budget. The rows implement
  `ActionLifecycle`. Without the two exceptions the properties fail (section 5).
* **`executor_live`**: every due row is taken up, in spite of deferrals and
  retries, and of an opt-out that one case hears and the other case of the
  customer is stopped by.
* **`audit_chain`**: the chain verifies at every moment, implements `AuditLog`,
  an append gives up only when others got records in at its cost, and every
  append ends, those that queue behind a failed one too.
* **`tick_lease`**: as long as no tick runs past its lease, ticks exclude each
  other and none drains under a kill switch or a pause older than itself; a
  lease never stays behind without a tick.
* **`ingest`**: no provider reference is in the ledger twice, whatever overlaps,
  fails or is sent again. A payment answered as projected is booked or held as
  long as the requests of its reference do not overlap (finding 1 is why the
  condition is there). Where requests came one after the other, `RECOVERED` goes
  with a sum of zero or less through larger bills, refunds and tax, and the order
  of arrival changes neither the entries of payments nor the count of failures.
* **`decision_cycle`**: neither the due query, nor the cache (also one that an
  exception left behind), nor the loop lets a case be decided that was terminal
  at the prefetch and stayed so, or one that waits for a person; the windows of
  keys and the dates of decisions fit together over a turn of the hour, so that a
  case gets one action a window, and one more after an approval; and after the
  cycle the gates load what is in the table. What may still happen, a case that
  turns terminal after the prefetch, is finding 2.
* **`decision_budget`**: an action the budget turns away is decided again within
  the hour, and no live case is left aside, whatever is deferred, refused,
  approved, or fails once.
* **`course`**: rules that look at one message at one instant add up. Whatever is
  queued, put off, tried again or sent about the customer's other case, and
  wherever a tick is cut short, contacts are a gap apart and under both weekly
  caps; rungs are taken one by one, each after the dwell of the one below; a
  promise silences the case until its date is past; a debit has a notice of a day,
  and no newer one; after a read complaint or a dispute nothing more is sent or
  charged, the queued rows included; and what a gate puts off lies ahead.
* **`clock`**: whatever tasks schedule and cancel from within a drain, and however
  drains end, by their target, by the limit or by a task that throws, what is
  alive is in the heap, once and unmarked, and the clock implements `Agenda`: no task
  that is to run is overtaken, nor passed over by the time, but for one scheduled
  between the end of a drain and the return of its `advanceTo`.
* **`scenario`**: with the events of a payment told up to three times and the tax
  of an invoice to be found, the books of a case are what happened in the world,
  and only failures of the customer's own doing count against it; every decision
  is counted once, through a flush that fails half way and a process that is
  replaced; no recovery falls between two ticks; an outage never becomes the
  baseline of a process that knew the time before, though it lasts ten hours; and no
  cohort is paused by a tick that finds its window well, whatever was learnt before.

### Bounds

* *Two drains, two requests.* Every hazard listed is between two actors. Four writers are needed in `audit_chain` for one writer to
  lose twice, to two processes' records, and for a second merchant.
* *`MaxDisturbances`, `MaxFaults`, `MaxCrashes`, `MaxFailures` = 1.* They count
  what the environment does to a behaviour, not what the program does; each
  property with a fault in it states what one fault costs. Where 0, the run is
  about scheduling or order alone.
* *`MaxAttempts` = 2, `TouchCap` = 1, `APPEND_RETRIES` = 2.* The least values
  at which a first attempt, a retry and an exhausted budget differ.
* *`MaxPrefetched` = 1 and 0.* A row of the case or of the customer, on its way or
  in the map, is what hides a fact from a gate, and each kind of fact is in one
  row; it can be fetched before the fact, outlive a release, and be replaced. Further
  rows are for further cases. In `executor_live` there is none: a gate that is
  served an older row comes to a verdict that a free choice has there anyway. (With 1,
  the run takes several times as long and shows the same.)
* *`TICK_LEASE` = 2, `Delay` = 1.* A tick is inside its lease, at its last
  instant, or past it; a claim is answered at once or late.
* *`Limits` of `ingest`.* Three deliveries are an opening, a payment and either of
  them again, which is what two requests can confuse; five in a row are a case
  that is opened, paid, refunded, billed again and paid.
* *`RETENTION` = 3 days, `Tolerance` = 0, rates of 0.1 to 10 percent.* The
  events lie on days 0 to 6, so that a held payment is both kept and given up;
  amounts are in hundreds of rupees, where a tolerance of a rupee rounds to 0.
* *`MaxHooks`, `MaxWishes`.* Two webhooks are a payment and its refund, which
  takes a case to `RECOVERED` and back; two wishes are a reply and an approval. A
  second case is needed for the budget, a second action for the spacing; the runs
  are apart because together they are out of reach.
* *`AFTER_EXECUTE`, `AFTER_WAIT` of 1 or 2 hours* for 6 and 24: the least at which
  a window passes between two decisions. In `decision_budget` it is 2, so that a
  deferral for want of budget is sooner than the cadence.
* *`LIMIT`* is the number of cases. The query for due cases has no order: with
  more cases due than its 2000 rows, `LiveIsDecided` would not hold.
* *Courses.* The ticks of a course are those at which something can change: a
  morning and an evening (quiet hours begin at 20:00), the days around a gap of 24
  hours, a weekend with a second Saturday (no banking day), the days on which a
  dwell of one and of three days and the week of the caps are over. Events are
  what the world does in a course, 0 to 2: with more failures at the start a
  course reaches the offers without any. A bill of 3 is under the ceiling for
  approval and has room for a part payment, 11 is above it. `MCPolicy` and
  `MCAuthority` are the repository's configuration, caps, gaps and dwell in full;
  only the two thresholds for amounts are in the units of the bill.
* *Scenarios.* A day of 24 ticks. The detector's numbers are the code's (a window of
  60 hours of which 3 are retained, a warm-up of 4 windows, 2 in a row, 6 per cent,
  z of 3.2) but for `MIN_VOLUME`: 10 for 30, so that two attempts in half an hour
  fill a window. An outage from 06:00 to 16:30 outlasts warm-up and retention; one
  unlucky attempt is under the drop that counts. `ATTRIBUTION` of 2 hours for 72,
  cadences of 1 and 2 hours for 6 and 24, a reload in 2 ticks for 24: each is over
  within the day. Obligations fall due before, in
  and after the outage, and beside the bad deploy at 21:00; two invoices make a
  payment of one ambiguous with neither. A fault is a failed flush or a new
  process; larger numbers repeat the same.
* *Clock.* With five tasks an entry rises and sinks by two levels, to either side, and
  a pop may leave the heap without a right child. Three instants are before, at and
  after another, and five tasks share them, so that ties are broken by number.
  A drain may run four tasks, which is past its limit of three (5,000,000 in the
  code). One `advanceTo` waits for its continuation (`MaxReturns`), while
  `runUntilIdle`, which assigns nothing, drains beside it; two of them, with four
  tasks or with a limit of two, show the same.
* *Symmetry* is used in `executor` (drains, processes, actions), `ingest` (requests) and
  `decision_cycle` (actions),
  where the specification and the properties treat them alike and no property
  is a liveness property.

### Runs that may stop

`CHECK_DEADLOCK FALSE` stands in the configurations of `Executor` (nothing is
due and the environment's bounds are reached), of `AuditChain` (all appends are
over), of `Ingest` (the bound of deliveries is reached), of `CaseCourse` (the last
tick is over), of `VirtualClock` (all tasks are scheduled and have run) and of
`Scenario` (the agenda is empty). In `TickLease` and
`DecisionCycle` nothing ends and deadlock is checked.

### Fairness

* `Executor`: a drain that stands at an await goes on, and ticks keep starting
  drains (weak fairness): node runs continuations, and the deployment calls the
  tick regularly. Taking a row is strongly fair for each drain and row, because
  the mutex is a promise chain, first come, first served, and a drain walks its
  batch to the end. Nothing is assumed of faults, payments or replies.
* `AuditChain`: a writer that can step does. The `KeyedMutex` resumes the next
  call when the one before settles, by success or failure.
* `TickLease`: callers call, claims are answered, time passes. A running tick
  owes nothing: it may hang, and `LeaseNotStuck` holds all the same.
* `DecisionCycle`: ticks are started, a tick that stands at an await goes on
  (short of a fault, of which there are finitely many), and time passes. Nothing
  is assumed of webhooks, replies or approvals, nor that an action ever gets past
  gate or budget.
* `Ingest` has no liveness property: the gateway may stop sending, and a
  request that fails is not repeated (see the hazard at `receiver.ts:99`).
* `CaseCourse` and `Scenario` end by themselves and have none either: that what is
  deferred comes back is `DeferredAhead`, a matter of instants.

## 4. The proofs

| Theorem | Says |
|---|---|
| `ExecutorProofs!TypeCorrect` | types of the executor, for any rows, cases, drains and processes |
| `ExecutorProofs!ClaimIsExclusive` | `Spec => []ClaimExclusive` |
| `ExecutorProofs!StopIsHeeded` | `Spec => []NoCallAfterStop` |
| `ExecutorProofs!LifecycleIsImplemented` | `Spec => ImplementsLifecycle`: outbox and executor implement `ActionLifecycle` |
| `ExecutorProofs!TouchesAreBudgeted` | `Spec => []TouchBudget` |
| `ExecutorProofs!AttemptsAreBudgeted` | `Spec => []AttemptBudget` |
| `AuditChainProofs!TypeCorrect` | types, and that no writer exceeds its retries |
| `AuditChainProofs!ChainIsIntact` | `Spec => []ChainIntact` |
| `AuditChainProofs!LosersAreExcused` | `Spec => []LosesToOthers` |
| `AuditChainProofs!LogIsImplemented` | `Spec => ImplementsLog`: the chains in the table implement `AuditLog` |
| `TickLeaseProofs!TypeCorrect` | types of the lease, which bound its clocks |
| `TickLeaseProofs!TicksExclude` | `Spec => []OneTick` |
| `TickLeaseProofs!HaltIsHonoured` | `Spec => []HaltHonoured` |
| `IngestProofs!BooksOnce` | `Spec => []BookedOnce` |
| `IngestProofs!PaymentsAreKept` | `Spec => []PaymentKept` |
| `IngestProofs!OrderMakesNoDifference` | `FailuresHaveAmounts` implies `Spec => []OrderIrrelevant` |
| `IngestProofs!StatesFollowTheLedger` | `Spec => []StateMatchesLedger` |
| `IngestProofs!TypeCorrect` | types of a webhook's way into the books, the sums included |
| `DecisionCycleProofs!TypeCorrect` | types of the cycle, for any cases, cadence and budget |
| `DecisionCycleProofs!TerminalIsSpared` | `Spec => []DecidesOnlyLive` |
| `DecisionCycleProofs!HumanIsWaitedFor` | `Spec => []NotDecidedWhileHuman` |
| `DecisionCycleProofs!GatesAreFresh` | `Spec => []GatesSeeTheRow` |
| `DecisionCycleProofs!NothingIsLost` | `Spec => []NoActionLost` |
| `DecisionCycleProofs!ActionsAreSpaced` | `Spec => []SpacedActions` |
| `CaseCourseProofs!ObjectionsAreHeeded` | `Spec => []ObjectionsSilence` |
| `CaseCourseProofs!ContactsAreSpaced` | `Spec => []SpacedContacts` |
| `CaseCourseProofs!PromisesAreRespected` | `Spec => []PromiseRespected` |
| `CaseCourseProofs!DebitsAreNoticed` | `Spec => []NoticeBeforeDebit` |
| `CaseCourseProofs!LadderIsClimbed` | `Spec => []LadderClimbed` |
| `CaseCourseProofs!CapsAreKept` | `Spec => []WeeklyCaps` |
| `CaseCourseProofs!DeferralsLieAhead` | `Spec => []DeferredAhead` |
| `CaseCourseProofs!TypeCorrect` | types of a case's tables, the date of the next decision included |
| `ScenarioProofs!BooksAreTrue` | `Spec => []BooksMatchWorld` |
| `ScenarioProofs!CountsAreRight` | `Spec => []CountedOnce` |
| `ScenarioProofs!NoRecoveryIsMissed` | `Spec => []RecoveriesCredited` |
| `ScenarioProofs!PausesAreEarned` | `Spec => PauseIsEarned`, an action property |
| `ClockProofs!PendingIsRight` | `Spec => []PendingIsQueued` |
| `ClockProofs!TimeGoesForward` | `Spec => OnlyForward`, an action property |
| `ClockProofs!ClockKeepsAgenda` | `Spec => ImplementsAgenda`: the clock and its heap implement `Agenda`, but for `PassesOver` |

They assume what the `ASSUME`s of the modules say of the constants and no more,
but for one hypothesis that stands in its theorem; TLC evaluates the `ASSUME`s on
every run. Those that say more than types:

* `None`, which stands for `null` and `undefined`, is not among the values it is
  compared with (`Executor`, `Ingest`, `DecisionCycle`, `CaseCourse`).
* `LimitsAssumption` of `CaseCourse`: the limits are whole numbers; the gap between two
  contacts is no longer than the seven days of contacts that the context builder
  loads (a longer one could not be kept, for the gate would not see the contact
  it is counted from); the dwell of a rung, the age of a notice and the grace
  after a promised date are at least one (day, hour, hour). The repository's
  policy has 24 hours, 24 hours, dwells of one and three days and a grace of 24
  hours. The schema of the configuration also takes a grace of zero
  (`config-files.ts:48`): then a row that a promise for this very instant holds
  would be deferred to this instant.
* `FailuresHaveAmounts`, the hypothesis of `OrderMakesNoDifference`: a failure that
  counts as an attempt has an amount. The webhook schemas let an amount of zero
  through (`providers/gateway/webhook-schema.ts:25`). Such a failure opens no
  case if it is the first to come, and is counted in no case, but would be
  counted if a case were there: then the order does make a difference.

* `ScenarioAssumption`: a population as the generator makes it (an obligation that can
  be taxed is an invoice, amounts are positive, and so on), obligations that fall due
  once, and outages that begin after the start. `RatesAssumption`: a business deducts tax
  at a rate that the books know of. With a rate they do not know the payment of an
  invoice falls short for good, and `BooksMatchWorld` is false, as it would be in the code.
* `TimelineAssumption`: an event of the world ends after it begins, an outage names
  a method, and the banks of the simulator have the holidays of the calendar.
* `DetectorAssumption`: a window that is judged has at least one attempt, and it takes
  at least one to alert (`MIN_VOLUME` and `CONSECUTIVE`, 30 and 2 in the code). With
  none a cohort would be paused for nothing, and the rate of no attempts divided by zero.
* `ClockAssumption`: instants are whole numbers, and `Forever` is none of them.

### The arguments

* **Executor.** `ClaimExclusive` is inductive with the types: it says what a
  row's status is at every point of its holder, so a claim (which needs
  `SCHEDULED`) fails on a held row, and `cancelPendingForCase` (which writes
  `SCHEDULED` rows only) passes it by. The lemma `OwnRow` covers every step in
  which a drain writes its own row; the actions of the proof are its instances.
  For `NoCallAfterStop`, `DoomedStops` follows a drain that has seen what forbids
  its action to where it closes the row: facts that forbid are never taken back
  (`FactsGrow`), no row fetched since is without them, nor one that `Release` or a newer
  one leaves in the maps (`StopStays`), so whichever row the load finds stops the
  action. The refinement is then a step
  lemma for each kind of row write, with `ClaimExclusive` to say that a status
  is written from the one it is expected to be.
* **Budgets.** `TouchBudget` speaks of drains in one process: there the
  `KeyedMutex` keeps two of them from one case (`CaseMutex`), so the count that a
  drain has read is still the stored one when it writes it back
  (`ReadIsFresh`); a drain that is not `misled` was cleared on a count that was
  the stored one then, and is until it writes; a failure between the message and the write is what `faults`
  counts. `AttemptBudget` counts each attempt against the row's `attempts` and
  the drains that hold the row in a batch they read before: each of those may
  try once more (`OpenLeft`, `SentLeft`), and every retry takes one of them away.
* **AuditChain.** A chain grows intact when the new record's number is free and
  its hash is built on the record before (`ChainGrows`). That needs the
  strengthening `HeadRead`: the head that a writer holds before its insert is
  still a record of the chain. Records are never taken away, so it stays one.
  For `LosesToOthers`, `Excused` says that every lost attempt has a row of its own to show
  and that whatever came into the chain since the head was read is by a writer of
  another process; within a process the chain of promises lets one
  writer of a merchant work at a time (`Exclusive`). Under the refinement, an
  intact chain is a log: read by number it is the sequence of its contents.
* **TickLease.** `OneTick` needs `LeaseHeld`: while a tick runs that has not
  outlived its lease, the lease is set and has just as long to go as the tick
  has. A claim is refused as long as that is so, even one that read its
  clock before. For `HaltHonoured`, `PauseKnown` carries the pause from the row
  through the answer of the query to `facts`, at each point of the tick.
* **Ingest.** `BookedOnce` is inductive with the shape of the ledger, a sequence
  for each reference. Only `InsertEntry` writes the ledger, and the unique index
  lets in no entry whose reference is there: the search before the insert is not
  used by the proof. For `PaymentKept`, `Keeping` follows a payment from the stored event to
  the ledger, the held payments or those given up, at every await of
  every request.
  `OrderIrrelevant` divides what is known of a reference: `Settled` says it of one on
  which nobody works, `Working` of the one request that does, by how far it is.
  `StateMatchesLedger` is divided the same way, and rests on a case's ledger being
  written by the request that marks the case. The types need the sums to be
  whole numbers. A sum is a fold, so this is an induction over data; it is made
  by hand, as a descent to a least counterexample (`SumIsInt`).
* **DecisionCycle.** Three properties need one strengthening, `CycleSafe`: a
  case still to be decided was not waiting for a person when it was selected,
  and no other actor makes it wait; if it is terminal since the prefetch, its
  prefetched row says so (`CacheTells`); and from the release on the cache is
  empty. `Elsewhere` covers the actors outside the tick in one lemma. For
  `NoActionLost`, `NoneLost` says of every case that the budget is through with
  that its action is in the outbox or its date is within the hour. For
  `SpacedActions`, `Spaced` adds to a case's rows what is still to come: an action
  chosen and not yet submitted, and the approval that a person may give (`Load`);
  when that is all a case may have, its date lies beyond the window.
* **CaseCourse.** The gates judge one row at one instant. The first half of the
  proofs reads off the rules what a cleared row is permitted (`Cleared` and
  what follows from it for contacts, charges and rungs). The second half is
  `Timeline`: what is in the tables lies in the past, what a drain has selected is
  queued, and promises and replies have the dates they must have. So nothing comes in
  beneath what was judged already, and a theorem about all pairs of
  contacts, or about the first action on a rung, follows from what the gate saw of
  the older one.
  The third part is about what is put off. It begins with the calendar, where a
  civil date is shown to name its day again (`CivilDates`: linear arithmetic, once the
  quotients of eras, years and months are named), so that the opening of a
  window, the next morning and the next banking day come after the instant that
  asks (`WindowAhead`, `MorningAhead`, `BankingDayAhead`). Then every family of rules defers
  to an instant ahead (`TimingAhead` to `AuthorisedAhead`), and of finitely many
  instants there is a latest, so both gates do (`EvaluatesAhead`, `StopDefersAhead`). That
  gives `DeferredAhead`; for the types, it makes what a decision writes as the
  date of the next one an instant, whatever was chosen (`OutcomesAreDated`).
  The theorems hold for any courses, holidays, consents and policies, not only
  those of the run.
* **Scenario.** `BooksInv` says of each obligation that world and books agree in every
  state between two tasks (`CaseFits`): unpaid in both, or paid in full in both, with
  just the failures of the customer's own doing counted (`Agree`). A charge, a customer
  and a due date each come down to one attempt, whose events go to the books one
  after another; the second and third tale of a payment find it told (the reference
  of a payment is in the books, or the case is recovered). Which signature stands for
  which cause is a finite matter of two tables and the order of the rules
  (`classifyError`), settled signature by signature. `DueOnce` and `RowsFit` keep an
  obligation from falling due twice and a row from acting for a case that is not there.
  `CountInv` divides the decisions made since the process began into those that wait,
  are credited and are expired (`Apart`), and every count into the store, the pending
  ones, those a flush carries and those known as lost (`Balanced`): a flush that fails
  moves counts from one place to another.
  `RecoveriesCredited` needs the clock. A tick is followed by one an hour later, or is
  the last (`Chain`), and the next is never more than an hour away (`TickBy`), because an
  agenda runs its first task; so a recovery is seen by a tick that looks an hour
  back (`WaitedFor`), before the decision expires (`Over`).
  `PauseIsEarned` is a matter of what was learnt: falling short of a rate above 100 per
  cent would be no loss. `DetectorInv` says of every cohort that each instant has no
  more successes than attempts and that its rate is at most 100 per cent. An event, an
  hour of traffic and the end of an outage keep the first; of a window the same is
  true of the sums (`Shares`, a fold again, by descent), so a share of it is a rate, and
  a weighted mean of rates is one.
* **VirtualClock.** `Heaped` says where the heap is in order: everywhere between calls,
  and but for one entry while that one rises or sinks, whose parent
  is then before its children. From there the top comes before all (`TopIsFirst`, by
  descent from a least counterexample: no induction), what is popped is the first, and an
  entry that is neither to rise nor to sink has restored the order. `Numbered` keeps the
  numbers in the heap different and below the next, `Flow` what each point of a
  call knows of `i`, `top` and `horizon`. For the refinement, `Fire` is `Agenda!Run`:
  the top was the first of the heap, and all that is alive is in the heap
  (`PendingIsQueued`). When a drain is over, what is left on top is beyond the target, and
  so is all the rest; what comes to lie before it until `Arrive` was scheduled
  meanwhile (`Noticed`, of `EarlyInv`). So an `Arrive` is `Pass`, or `PassesOver`. The
  other half of `EarlyInv`, `NothingOverdue`, is what `TimeGoesForward` needs.
  `Scheduled` is `Schedule`, with the turn that was taken when the
  call began; every other step is none of the agenda.
  `ScenarioProofs` uses of the clock what `Agenda!Run` says, and no more.

### Only model-checked

* Liveness (`DueIsTaken`, `Settles`, `LeaseNotStuck`, `LiveIsDecided`): fairness and `ENABLED` are out of the
  prover's reach.
* `PauseFollowsTraffic` of `Scenario`: that an outage is seen depends on the numbers, not on
  the steps. A threshold, a cadence of tasks and the traffic of half an hour have to
  fit together, and for others (a `DROP` of 100) it is false. It is checked for the
  code's numbers, but for `MIN_VOLUME` (section 3). That no pause comes without cause is
  proved for all numbers (`PausesAreEarned`).
* Operators for every input, such as `Deductions` of `CaseLedger` or the rates a detector learns:
  induction over data is out of the prover's reach, but for what a descent to a
  least counterexample gives (`SumIsInt`, `Shares`, `TopIsFirst`). TLC computes them for
  the inputs of the runs.
* The violated properties of section 5, of course, are not theorems.

## 5. What the models found

1. **A payment can miss its case** (`case-projector.ts:96`). A payment without a
   case is held after two awaits; a failure that opens the case meanwhile has
   looked for held payments already, and nobody looks again. The payment was
   answered 202 and never reaches the ledger.
2. **A decision overwrites a recovery** (`orchestrator.ts:344`). The check for a
   terminal state and the state that `persist` writes are both of the row that
   the cycle prefetched. A case that is paid in between is decided, and its
   `RECOVERED` becomes `IN_PROGRESS` with nothing owed.

`PROJECT.json` quotes the tests that say otherwise. Listed as hazards, without
a text in the repository that denies them: a row left `IN_FLIGHT` by a crash is
never taken up; an event whose projection fails is a duplicate when it is sent
again; a case row without its CHARGE counts as paid; `recordStop` overwrites a
newer state, and `persist` the date that an approval has set; after a refund the
same tax is recognised again by every further signal, since the shortfall is
computed from PAYMENT rows alone (`case-projector.ts:372`).

Behaviours met while modelling, in the models as the code has them, for a reader
who wonders whether they are meant:

* Lease. `releaseTick` writes null without looking whose lease it is
  (`compose.ts:297`). When a tick outlives its lease, the tick that took over loses its
  own when the first is done, and a third may start beside it. `OneTick` and
  `HaltHonoured` therefore speak of the time until a tick has run past its lease
  (`overran`); from then on only the compare-and-set of the outbox (`ClaimExclusive`)
  and the unique index of the audit chain keep ticks apart.
* Overlapping ticks of one process. They share one `ContextBuilder` (`compose.ts:150`), whose
  `load` takes prefetched rows first (`context-builder.ts:108`). While the cycle of one
  tick is between `prefetch` and `release`, the gates of the drain of another are
  served its rows: an opt-out or a dispute that was stored after they were read,
  and before the drain claimed its row, is missed, and the touch count may be an older one,
  so that the cap is passed. A row on its way when the maps are emptied arrives in
  the new ones. In `Executor` the statements without these exceptions,
  an opt-out stored before the claim and the plain cap, are violated; what the two properties
  except is just what such a row hides. No more than one tick at a time, as under a
  lease that is not outlived, has none of this: `GatesSeeTheRow`, of `DecisionCycle`.
  From two processes a touch may also be lost (`executor.ts:361`).
* Virtual clock. Between the end of a drain and the assignment of the target lies an
  await (`clock.ts:179`). A task scheduled there for an instant before the target is accepted,
  is in the past when `advanceTo` returns, and is run by the next drain with the
  clock set back to its instant. Every caller in the repository awaits `advanceTo`,
  and none schedules in between.
* Gates and engine. A hand-over to a person (`ESCALATE_HUMAN`) as a candidate is on
  a rung that `ESCALATION_ORDER` denies until an offer was made. One pre-debit notice covers all
  later debits. After a failure of the merchant's own doing the fixed schedule's
  nudge can be chosen as the floor. `PAUSE_COHORT` and `RAISE_ENG_TICKET` count as
  touches for the touch budget. What the reviewer blocks waits a full cadence.
* Drain. A charge asks for the amount of the day it was queued, also after a part
  payment (`executor.ts:185`; the stop gate's `reAnchorAmount` is read by nobody). A
  kill switch or a pause seen in the middle of a drain closes the case. `recordStop`
  writes a new `resolvedAt` on a case that is recovered already.
* Inbox. A reply of distress takes a case that is `RECOVERED` to `AWAITING_HUMAN`.
  What is queued for a wrong person is still sent. The cap of promises
  counts active ones only. A promise stays kept when the payment is refunded.
* Signals. The webhooks of an outage are observed as failed attempts of its cohort,
  that of its end too (`compose.ts:242`). Of the detector's window of 60 hours
  the last 3 are retained. A process that starts in an outage learns it as normal.
* Learning. A decision is recorded for attribution also when it is put off,
  suppressed or turned away by the budget, and counts as a failure when its window
  is over. What one process decides and another sees recovered counts as
  a failure. Ticks more than an hour apart miss the recoveries between, and so
  does the tick after one that threw before `settleFeedback` (`compose.ts:339`), which
  is not among the faults of `Scenario`. A failed flush loses the counts that it
  had taken: `CountedOnce` allows this, through `lost`, and forbids that one is
  written twice.

## 6. Plan

Order of work, most important first:

1. *(done)* `Outbox`, `Executor`, `ActionLifecycle`, with `ExecutorProofs`.
2. *(done)* `AuditChain`, `AuditLog`, with `AuditChainProofs`.
3. *(done)* `TickLease`, with `TickLeaseProofs`.
4. *(done)* `CaseLedger`, `Ingest`, with `IngestProofs`.
5. *(done)* `DecisionCycle`, with `DecisionCycleProofs`.
6. *(done)* `Calendar`, `PolicyGate`, `StopGate`, `Decision`, and `CaseCourse` with
   replies and promises.
7. *(done)* `Detector`, `Learning`, `Simulator`, `Scenario`, with `ScenarioProofs`; `Agenda`
   and `VirtualClock`, with `ClockProofs`.
8. *(done)* Theorems for the safety properties of every module but `PauseFollowsTraffic`
   and for the three refinements.
9. An approval together with its audit record, and two of them at once; the
   allocation by density as operators in place of the free choice of `Allocate`; the
   verdicts of `Executor` from `StopGate`.
