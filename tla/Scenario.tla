------------------------------- MODULE Scenario -------------------------------
(***************************************************************************)
(* The service in the simulated world (scripts/lib/scenario.ts): one       *)
(* process on a virtual clock, with an hourly tick (src/runtime/compose.ts)*)
(* and, between ticks, traffic, obligations that fall due and outages, the *)
(* events of which go through ingest into the books and the detector.      *)
(*                                                                         *)
(* The tick is seen from its learning side: it senses degraded cohorts,    *)
(* credits recoveries, writes the bandit's counts, decides and drains.     *)
(* Which action a decision chooses is left open, and what the gates hold   *)
(* back but a charge of a paused cohort (CaseCourse has both); replies and *)
(* promises are not here.  Nothing interleaves: a task                     *)
(* that awaits keeps the clock, and an event is projected before the       *)
(* charge that caused it returns.  Two faults of a running service are     *)
(* added: a query of the flush fails, and the process is replaced.         *)
(***************************************************************************)
EXTENDS Simulator, Detector, Learning, SequencesExt

CONSTANTS
  Obligation,     \* of the population, by id: see below
  Scenarios,      \* what to run, see below
  TdsRates,       \* as in CaseLedger
  BANDIT_RELOAD_TICKS,
  AFTER_EXECUTE, AFTER_WAIT  \* cadence, in hours

\* A scenario: the obligations that are scheduled, in order, the hours to run,
\* the attempts of background traffic in half an hour and their cohort, how
\* many of them may fail for no reason, and the faults.  An outage begins when
\* the clock does, or later.
ASSUME ScenarioAssumption ==
  /\ Arms = {"WAIT", "RETRY_CHARGE", "SEND_PAYMENT_LINK"}
  /\ {ATTRIBUTION, BANDIT_RELOAD_TICKS, AFTER_EXECUTE, AFTER_WAIT} \subseteq Nat \ {0}
  /\ generatePopulation(Obligation)
  /\ \A e \in Timeline : e.kind = "gateway_downtime" => e.startAt >= StartAt
  /\ \A s \in Scenarios :
       /\ s.due \in Seq(DOMAIN Obligation)
       /\ \A j, k \in DOMAIN s.due : s.due[j] = s.due[k] => j = k
       /\ {s.hours, s.traffic, s.unlucky, s.faults} \subseteq Nat

\* Among the rates that a business deducts there is none that the books do not
\* know, per mille.
ASSUME RatesAssumption ==
  /\ TdsRates \subseteq Nat
  /\ \A i \in DOMAIN Obligation :
       Obligation[i].tdsRatePct # None => 10 * Obligation[i].tdsRatePct \in TdsRates

Cases ==
  [amount : Nat, paid : Nat, tax : Nat, attemptCount : Nat, invoice : BOOLEAN,
   state : {"OPEN", "IN_PROGRESS", "RECOVERED"}, resolvedAt : Int \cup {None}, nextDecisionAt : Int]

ASSUME NoneAssumption ==
  /\ None \notin Cases /\ None \notin Int
  /\ None \notin DOMAIN SIGNATURES /\ None \notin UNION {SIGNATURES[c] : c \in DOMAIN SIGNATURES}

VARIABLES
  scenario,
  now, agenda,    \* the clock
  pc, task,       \* of the clock: what goes on, and for whom
  world, people,  \* the simulator: obligations by id, and customers
  cases,          \* risk_cases and the sums of their ledgers
  detector, paused,        \* by cohort; the process's paused cohorts
  bandit, tracker, drained, reload,  \* the process; reload counts ticks
  table,          \* bandit_arms
  rows,           \* action_outbox: what is to be drained
  blamed,         \* history: charges that failed by the customer's doing
  credited, expired,       \* history: decisions, by what they were counted as
  lost,           \* history: counts that were drained and not written
  born, unlucky, faults    \* when the process started; the bounds

books == <<world, people, cases, blamed>>
process == <<detector, paused, bandit, tracker, drained, reload, born>>
learnt == <<table, credited, expired, lost>>
vars == <<scenario, now, agenda, pc, task, books, process, learnt, rows, unlucky, faults>>

EndAt == StartAt + scenario.hours * HOUR
Ids == DOMAIN Obligation
Cohorts == {<<Obligation[i].method, Obligation[i].issuer>> : i \in Ids}
Accounts == {Obligation[i].account : i \in Ids}

-----------------------------------------------------------------------------
(* What is scheduled before the clock runs: the ticks come first *)

Clock == INSTANCE Agenda WITH Instants <- {}, Works <- {}, turn <- 0

Task(at, label, of, n) == Clock!Task(at, n, [label |-> label, of |-> of])

Hourly(s, from, label, n) ==
  {Task(StartAt + h * HOUR, label, None, n + h) : h \in from..(s.hours - 1)}

DueTasks(s, n) ==
  {Task(Obligation[s.due[k]].dueAt, "obligation-due", s.due[k], n + k) :
     k \in {k \in DOMAIN s.due : /\ Obligation[s.due[k]].dueAt >= StartAt
                                 /\ Obligation[s.due[k]].dueAt < StartAt + s.hours * HOUR}}

\* Of an outage that names a method.
DowntimeTasks(n) ==
  LET e(k) == parsed(WorldEvents[k])
      outages == {k \in DOMAIN WorldEvents : e(k).kind = "gateway_downtime"}
  IN  {Task(e(k).startAt, "downtime", downtime("payment.downtime.started", e(k)), n + 2 * k) :
         k \in outages}
        \cup {Task(e(k).endAt, "downtime", downtime("payment.downtime.resolved", e(k)), n + 2 * k + 1) :
                k \in outages}

Tasks(s) ==
  LET ticks == s.hours
      traffic == ticks + s.hours
      due == traffic + Len(s.due)
  IN  Hourly(s, 1, "engine-tick", 0)
        \cup (IF s.traffic = 0 THEN {} ELSE Hourly(s, 0, "background-traffic", ticks))
        \cup DueTasks(s, traffic) \cup DowntimeTasks(due)

NewProcess ==
  /\ detector' = [c \in Cohorts |-> NewCohort] /\ paused' = {}
  /\ bandit' = NewBandit(table) /\ tracker' = {} /\ drained' = NoCounts /\ reload' = 0
  /\ born' = now

Init ==
  /\ scenario \in Scenarios
  /\ now = StartAt /\ agenda = Tasks(scenario)
  /\ pc = "idle" /\ task = None
  /\ world = [i \in Ids |-> NewObligation] /\ people = [a \in Accounts |-> NewDynamic]
  /\ cases = [i \in Ids |-> None] /\ blamed = [i \in Ids |-> 0]
  /\ detector = [c \in Cohorts |-> NewCohort] /\ paused = {}
  /\ bandit = NewBandit(NoCounts) /\ tracker = {} /\ drained = NoCounts /\ reload = 0
  /\ table = NoCounts /\ rows = {} /\ credited = {} /\ expired = {} /\ lost = NoCounts
  /\ born = StartAt /\ unlucky = 0 /\ faults = 0

-----------------------------------------------------------------------------
(* ingest: the projector, one event at a time.  A payment without a case is *)
(* held for one that never comes here (Ingest has those that do).           *)

Ledger == INSTANCE CaseLedger WITH
  Reference <- {}, PaymentId <- {}, Tolerance <- 0, ledger <- << >>

SIGNAL_KIND_BY_EVENT(event) ==
  CASE event = "payment.failed" -> "PAYMENT_FAILED"
    [] event = "payment.captured" -> "PAYMENT_SUCCEEDED"
    [] event = "subscription.charged" -> "SUBSCRIPTION_CHARGED"
    [] event = "subscription.halted" -> "SUBSCRIPTION_HALTED"
    [] event = "order.abandoned" -> "CHECKOUT_ABANDONED"
    [] event = "invoice.paid" -> "INVOICE_PAID"
    [] event = "invoice.partially_paid" -> "INVOICE_PARTIALLY_PAID"

\* The signal that an event is read as; without an amount, for one of 0.
toSignal(e) ==
  [kind |-> SIGNAL_KIND_BY_EVENT(e.event),
   amount |-> IF e.amount = None THEN 0 ELSE e.amount,
   class |-> IF e.signature = None THEN None ELSE classifyError(e.signature)]

openCase(i, s) ==
  [amount |-> s.amount, paid |-> 0, tax |-> 0, attemptCount |-> 0, state |-> "OPEN",
   resolvedAt |-> None, nextDecisionAt |-> now,
   invoice |-> Obligation[i].portfolio = "b2b_invoice"]

\* A slip: what an invoice says is booked as well.
applySignalTwice(c, s) ==
  CASE s.kind = "PAYMENT_FAILED" /\ countsAgainstAttemptBudget(s.class) ->
         [c EXCEPT !.attemptCount = @ + 1]
    [] s.kind \in {"PAYMENT_SUCCEEDED", "INVOICE_PAID", "INVOICE_PARTIALLY_PAID"} ->
         [c EXCEPT !.paid = @ + s.amount]
    [] OTHER -> c

\* The signals of an invoice or a subscription have no payment to book.
applySignal(c, s) ==
  CASE s.kind = "PAYMENT_FAILED" /\ countsAgainstAttemptBudget(s.class) ->
         [c EXCEPT !.attemptCount = @ + 1]
    [] s.kind = "PAYMENT_SUCCEEDED" -> [c EXCEPT !.paid = @ + s.amount]
    [] OTHER -> c

Billed(c, s) == [c EXCEPT !.amount = IF s.amount > @ THEN s.amount ELSE @]

Owed(c) == c.amount - c.paid - c.tax

Taxed(c) ==
  LET found == IF c.invoice /\ Owed(c) > 0 /\ c.paid > 0
               THEN Ledger!Deductions(c.amount, c.paid) ELSE {}
  IN  IF found = {} THEN c ELSE [c EXCEPT !.tax = @ + CHOOSE d \in found : TRUE]

Marked(c) ==
  IF Owed(c) <= 0 /\ c.state # "RECOVERED"
  THEN [c EXCEPT !.state = "RECOVERED", !.resolvedAt = now]
  ELSE IF Owed(c) > 0 /\ c.state = "RECOVERED"
  THEN [c EXCEPT !.state = "IN_PROGRESS", !.resolvedAt = None]
  ELSE c

Opens(s) == s.kind \in {"PAYMENT_FAILED", "SUBSCRIPTION_HALTED", "CHECKOUT_ABANDONED"} /\ s.amount > 0

project(c, i, s) ==
  IF c # None THEN Marked(Taxed(applySignal(Billed(c, s), s)))
  ELSE IF Opens(s) THEN Marked(Taxed(applySignal(openCase(i, s), s)))
  ELSE None

\* What a case is after the events of an obligation, in order.
Booked(c, i, events) == FoldLeft(LAMBDA b, e : project(b, i, toSignal(e)), c, events)

\* Those of a payment have a method and an issuer, and the detector sees them
\* too.
Observed(d, e) ==
  IF e.event \in {"payment.failed", "payment.captured"}
  THEN observe(d, now, 1, IF e.event = "payment.captured" THEN 1 ELSE 0) ELSE d

Delivered(i, events) ==
  LET o == Obligation[i]
  IN  /\ cases' = [cases EXCEPT ![i] = Booked(@, i, events)]
      /\ detector' = [detector EXCEPT ![<<o.method, o.issuer>>] = FoldLeft(Observed, @, events)]

-----------------------------------------------------------------------------
(* The simulator's effects *)

\* settle, and the events of it.
Settles(i) ==
  LET o == Obligation[i]
      after == settle(o, world[i])
      when(condition, event) == IF condition THEN <<event>> ELSE <<>>
      invoiced == IF after.resolved THEN "invoice.paid" ELSE "invoice.partially_paid"
  IN  /\ world' = [world EXCEPT ![i] = after]
      /\ Delivered(i,
           <<paymentCaptured(captured(o, outstandingOf(o, world[i])))>>
           \o when(o.portfolio = "b2b_invoice", invoice(invoiced, o.amount))
           \o when(o.portfolio = "d2c_subscription" /\ after.resolved,
                   subscription("subscription.charged")))
      /\ UNCHANGED blamed

OurOwn == {"DOWNTIME", "GATEWAY_ERROR", "MERCHANT_DEFECT"}

\* A failed charge, under one of the signatures of its cause; a subscription
\* halts after the third.
Fails(i, cause) ==
  LET o == Obligation[i]
      after == Attempted(world[i])
  IN  \E signature \in SIGNATURES[cause] :
        /\ world' = [world EXCEPT ![i] = [after EXCEPT !.halted = Halts(o, after)]]
        /\ Delivered(i,
             <<paymentFailed(outstandingOf(o, after), signature)>>
             \o (IF Halts(o, after) THEN <<subscription("subscription.halted")>> ELSE <<>>))
        /\ blamed' = [blamed EXCEPT ![i] = @ + (IF cause \in OurOwn THEN 0 ELSE 1)]

Charge(i) ==
  LET o == Obligation[i]
  IN  \/ /\ Closed(world[i])
         /\ UNCHANGED <<world, cases, detector, blamed>>
      \/ /\ ~Closed(world[i])
         /\ \E cause \in attemptCharge(o, people[o.account], outstandingOf(o, world[i]), now) :
              IF cause = None THEN Settles(i) ELSE Fails(i, cause)

\* applyAction.
Contact(i) ==
  LET o == Obligation[i]
  IN  \E outcome \in sampleOutcome(o, people[o.account]) :
        /\ people' = [people EXCEPT ![o.account] =
             [optedOut |-> @.optedOut \/ outcome.optedOut,
              cancelled |-> @.cancelled \/ outcome.cancelled]]
        /\ IF outcome.paid THEN Settles(i) ELSE UNCHANGED <<world, cases, detector, blamed>>

-----------------------------------------------------------------------------
(* Tasks of the clock, but for the tick *)

\* The drain of the clock, up to the end: the next task, at its instant.
Advance ==
  /\ pc = "idle"
  /\ \E t \in agenda :
       /\ t.at <= EndAt /\ Clock!Run(t)
       /\ pc' = t.work.label /\ task' = t.work.of
  /\ UNCHANGED <<scenario, books, process, learnt, rows, unlucky, faults>>

Done == pc' = "idle" /\ task' = None /\ UNCHANGED <<scenario, now, agenda>>

\* How many of the attempts of half an hour succeed: none in an outage, any
\* number in a partial one, else all but for bad luck.
Successful(c, at, luck) ==
  LET severity == downtimeSeverity(worldStateAt(at), c[1], c[2])
      n == scenario.traffic
  IN  IF severity = 100 THEN {0}
      ELSE IF severity > 0 THEN 0..n
      ELSE {k \in 0..n : n - k <= luck}

Unlucky(c, at, s) ==
  IF downtimeSeverity(worldStateAt(at), c[1], c[2]) = 0 THEN scenario.traffic - s ELSE 0

\* An hour of traffic is observed when the hour begins, each attempt at its own
\* instant.
Traffic ==
  /\ pc = "background-traffic"
  /\ LET c == scenario.cohort
         n == scenario.traffic
     IN  \E s \in Successful(c, now, scenario.unlucky - unlucky) :
         \E t \in Successful(c, now + 1, scenario.unlucky - unlucky - Unlucky(c, now, s)) :
           /\ unlucky' = unlucky + Unlucky(c, now, s) + Unlucky(c, now + 1, t)
           /\ detector' = [detector EXCEPT ![c] = observe(observe(@, now, n, s), now + 1, n, t)]
  /\ Done
  /\ UNCHANGED <<books, paused, bandit, tracker, drained, reload, born, learnt, rows, faults>>

\* The webhook of an outage has a method and an issuer: ingest takes it for a
\* failed attempt of its cohort, that of its end too.
Downtime ==
  /\ pc = "downtime"
  /\ detector' = [c \in Cohorts |->
       IF c = task.cohort THEN observe(detector[c], now, 1, 0) ELSE detector[c]]
  /\ Done
  /\ UNCHANGED <<books, paused, bandit, tracker, drained, reload, born, learnt, rows, unlucky, faults>>

\* A checkout may be left before it is paid.
Abandon(i) ==
  /\ Obligation[i].portfolio = "one_time_checkout"
  /\ Delivered(i, <<orderAbandoned(outstandingOf(Obligation[i], world[i]))>>)
  /\ UNCHANGED <<world, blamed>>

ObligationDue ==
  /\ pc = "obligation-due"
  /\ Abandon(task) \/ Charge(task)
  /\ Done
  /\ UNCHANGED <<people, paused, bandit, tracker, drained, reload, born, learnt, rows, unlucky, faults>>

-----------------------------------------------------------------------------
(* The tick *)

Goto(l) == pc' = l /\ UNCHANGED <<scenario, now, agenda, task, unlucky>>

NowPaused == {c \in Cohorts : Degraded(detector'[c])}

Sense ==
  /\ pc = "engine-tick" /\ Goto("feedback")
  /\ detector' = [c \in Cohorts |-> Sensed(detector[c], now)]
  /\ paused' = NowPaused
  /\ IF reload + 1 >= BANDIT_RELOAD_TICKS
     THEN reload' = 0 /\ bandit' = restore(bandit, table)
     ELSE reload' = reload + 1 /\ UNCHANGED bandit
  /\ UNCHANGED <<books, tracker, drained, born, learnt, rows, faults>>

\* A slip: > for >=.
RecoveredAfter(since) ==
  {i \in Ids : cases[i] # None /\ cases[i].state = "RECOVERED" /\ cases[i].resolvedAt > since}

RecoveredSince(since) ==
  {i \in Ids : cases[i] # None /\ cases[i].state = "RECOVERED" /\ cases[i].resolvedAt >= since}

\* settleFeedback, and the first thing that flush does.
Feedback ==
  /\ pc = "feedback" /\ Goto("flush")
  /\ LET good == UNION {Credited(tracker, i, cases[i].resolvedAt) : i \in RecoveredSince(now - HOUR)}
         bad == Expired(tracker \ good, now)
         counted == update(bandit, good, bad)
     IN  /\ tracker' = tracker \ (good \cup bad)
         /\ drained' = counted.pending
         /\ bandit' = drainPending(counted)
         /\ credited' = credited \cup good /\ expired' = expired \cup bad
  /\ UNCHANGED <<books, detector, paused, reload, born, table, lost, rows, faults>>

Unwritten == {arm \in Arms : drained[arm] # NoCounts[arm]}

Flush(arm) ==
  /\ pc = "flush" /\ arm \in Unwritten /\ Goto("flush")
  /\ table' = [table EXCEPT ![arm] = Plus(table, drained)[arm]]
  /\ drained' = [drained EXCEPT ![arm] = NoCounts[arm]]
  /\ UNCHANGED <<books, detector, paused, bandit, tracker, reload, born, credited, expired, lost, rows,
                 faults>>

Flushed ==
  /\ pc = "flush" /\ Unwritten = {} /\ Goto("decide")
  /\ UNCHANGED <<books, process, learnt, rows, faults>>

Fault == faults < scenario.faults /\ faults' = faults + 1

\* The query throws, and the tick with it.
FlushFails ==
  /\ pc = "flush" /\ Unwritten # {} /\ Fault
  /\ lost' = Plus(lost, drained) /\ drained' = NoCounts
  /\ Done
  /\ UNCHANGED <<books, detector, paused, bandit, tracker, reload, born, table, credited, expired, rows,
                 unlucky>>

CaseDue(i) ==
  cases[i] # None /\ cases[i].state \in {"OPEN", "IN_PROGRESS"} /\ cases[i].nextDecisionAt <= now

\* A charge of a paused cohort is put off by an hour.
Held(i, arm) ==
  arm = "RETRY_CHARGE" /\ <<Obligation[i].method, Obligation[i].issuer>> \in paused

\* Whatever comes of it, a decision is recorded as one to learn from.
Decide(i, arm) ==
  /\ pc = "decide" /\ CaseDue(i) /\ Goto("decide")
  /\ tracker' = record(tracker, i, arm, now)
  /\ cases' = [cases EXCEPT ![i].state = "IN_PROGRESS",
       ![i].nextDecisionAt = now + (IF Held(i, arm) THEN 1 ELSE IF arm = "WAIT" THEN AFTER_WAIT
                                    ELSE AFTER_EXECUTE) * HOUR]
  /\ rows' = IF Held(i, arm) \/ arm = "WAIT" THEN rows ELSE rows \cup {[case |-> i, arm |-> arm]}
  /\ UNCHANGED <<world, people, blamed, detector, paused, bandit, drained, reload, born, learnt, faults>>

Decided ==
  /\ pc = "decide" /\ (\A i \in Ids : ~CaseDue(i)) /\ Goto("drain")
  /\ UNCHANGED <<books, process, learnt, rows, faults>>

\* The stop gate finds the case paid: nothing that is queued for it is left.
StopPaid(row) ==
  /\ Owed(cases[row.case]) <= 0
  /\ cases' = [cases EXCEPT ![row.case].state = "RECOVERED", ![row.case].resolvedAt = now]
  /\ rows' = {r \in rows : r.case # row.case}
  /\ UNCHANGED <<world, people, blamed, detector>>

\* A charge that is drained is not of a paused cohort: it was decided in this
\* tick, or by a process that is gone, and the new one has paused nothing yet.
Dispatch(row) ==
  /\ Owed(cases[row.case]) > 0
  /\ rows' = rows \ {row}
  /\ \/ row.arm = "RETRY_CHARGE" /\ Charge(row.case) /\ UNCHANGED people
     \/ row.arm = "SEND_PAYMENT_LINK" /\ Contact(row.case)

Drain(row) ==
  /\ pc = "drain" /\ row \in rows /\ Goto("drain")
  /\ StopPaid(row) \/ Dispatch(row)
  /\ UNCHANGED <<paused, bandit, tracker, drained, reload, born, learnt, faults>>

Ticked ==
  /\ pc = "drain" /\ rows = {} /\ Done
  /\ UNCHANGED <<books, process, learnt, rows, unlucky, faults>>

\* The process is replaced, between two tasks or within a tick: what it had in
\* memory is gone, and the new one restores its bandit from the table.
Restart ==
  /\ pc \in {"idle", "feedback", "flush", "decide", "drain"} /\ Fault
  /\ NewProcess
  /\ lost' = Plus(lost, Plus(drained, bandit.pending))
  /\ Done
  /\ UNCHANGED <<books, table, credited, expired, rows, unlucky>>

Next ==
  \/ Advance \/ Traffic \/ Downtime \/ ObligationDue
  \/ Sense \/ Feedback \/ Flushed \/ FlushFails
  \/ \E arm \in Arms : Flush(arm)
  \/ \E i \in Ids, arm \in Arms : Decide(i, arm)
  \/ Decided \/ Ticked \/ Restart
  \/ \E row \in rows : Drain(row)

Spec == Init /\ [][Next]_vars

-----------------------------------------------------------------------------
(* What must hold *)

\* The books of a case say what happened in the world: what was captured is
\* paid, once, though an invoice and a subscription report it again; only
\* the failures that are the customer's are held against the case; and it is
\* RECOVERED when somebody has paid, for a payment is of all that is owed,
\* less the tax that the books must find for themselves.
BooksMatchWorld ==
  \A i \in Ids :
    /\ world[i].settled <= Obligation[i].amount
    /\ cases[i] # None =>
         /\ cases[i].paid = world[i].settled /\ cases[i].amount = Obligation[i].amount
         /\ cases[i].attemptCount = blamed[i]
         /\ cases[i].state = "RECOVERED" <=> world[i].settled > 0

\* Every decision is counted once, as a success or as a failure, unless it is
\* still waited for or its process is gone; and every count is in the table,
\* or on its way there, or was lost with a flush, however flushes fail and
\* processes are replaced.
CountedOnce ==
  /\ tracker \cap (credited \cup expired) = {} /\ credited \cap expired = {}
  /\ Plus(Plus(table, lost), Plus(drained, bandit.pending)) = Tally(credited, expired)

\* A decision that a recovery followed within the window is not counted a
\* failure: ticks an hour apart miss no recovery, be it at the instant of one.
RecoveriesCredited ==
  \A d \in expired :
    cases[d.case].state = "RECOVERED" =>
      ~(cases[d.case].resolvedAt >= d.at /\ cases[d.case].resolvedAt - d.at <= ATTRIBUTION)

\* The process has learnt what is normal before this outage began.
KnewBefore(e) == born + (WARMUP + 1) * HOUR <= e.startAt

\* A tick pauses a cohort when a window's worth of it has failed in an outage,
\* however long the outage lasts (src/signal/degradation.ts).
PauseFollowsTraffic ==
  [][pc = "engine-tick" =>
       \A c \in Cohorts :
         /\ Attempts(detector[c], now) >= MIN_VOLUME /\ Successes(detector[c], now) = 0
         /\ \E e \in worldStateAt(now - HOUR) : e.kind = "gateway_downtime" /\ KnewBefore(e)
         => c \in paused']_vars

\* A cohort is paused only as long as more than DROP per cent of what is in its
\* window fails, and enough is: whatever was learnt, and whatever the windows
\* before were like, one that is well lets it go.
PauseIsEarned ==
  [][pc = "engine-tick" =>
       \A c \in paused' :
         /\ Attempts(detector[c], now) >= MIN_VOLUME
         /\ 100 * Successes(detector[c], now) < (100 - DROP) * Attempts(detector[c], now)]_vars

=============================================================================
