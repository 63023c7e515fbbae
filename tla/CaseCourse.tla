------------------------------ MODULE CaseCourse ------------------------------
(***************************************************************************)
(* The course of one case over days: what the ticks do to it with the      *)
(* decision engine and both gates in full, and what the world does between *)
(* them.  A tick (src/runtime/compose.ts) reads the replies and judges the *)
(* promises (src/inbound/agent.ts), decides the case if it is due          *)
(* (src/engine/orchestrator.ts, on what src/engine/context-builder.ts      *)
(* loads) and drains the outbox (src/execution/executor.ts).  Between      *)
(* ticks webhooks bring failures, payments and refunds                     *)
(* (src/signal/case-projector.ts) and somebody may approve the case.       *)
(*                                                                         *)
(* Ticks come at the instants of Ticks, one at a time, and each of their   *)
(* stages is a few steps: TickLease, DecisionCycle and Executor have the   *)
(* interleavings within them.  The customer has other cases, seen here by  *)
(* the contacts that their own gates let through.                          *)
(***************************************************************************)
EXTENDS Decision

CONSTANTS
  Consents,     \* the customer's consent_records
  Festivals,    \* days of Indian time that are in a festival
  Senders,      \* the channels that have a sender
  MAX_ATTEMPTS, \* DEFAULT_MAX_ATTEMPTS of the executor
  Courses,      \* the cases to follow, see below
  Classes,      \* model bounds: further diagnoses, and what a reply may say
  Replies

\* A reply: what it says, and when it was read, None if it was not.  A
\* promise is for a number of days, which other replies do not name.
Intent == {"PROMISE_TO_PAY", "DISPUTE", "DISTRESS", "ABUSE", "WRONG_PERSON",
           "REQUEST_HUMAN", "OPT_OUT", "OTHER"}

\* A case as it stands when its first tick comes: what does not change of it
\* and of its customer (person), the amount billed, its diagnosis and the
\* failures so far; and the bounds of the model: when ticks come, and how
\* many payments, failures, replies, faults and the like there are.
ASSUME CourseAssumption ==
  /\ Senders \subseteq Channel
  /\ MAX_ATTEMPTS \in Nat \ {0} /\ Classes \subseteq FailureClass
  /\ \A r \in Replies : r.intent \in Intent /\ (r.intent = "PROMISE_TO_PAY" => r.days \in Nat)
  /\ \A c \in Courses :
       /\ c.class \in FailureClass
       /\ c.billed \in Nat \ {0} /\ c.failures \in Nat /\ c.events \in Nat
       /\ c.ticks # {} /\ IsFiniteSet(c.ticks) /\ c.ticks \subseteq Int

\* A row of promises.
Promise == [createdAt : Int, promisedDate : Int, status : {"ACTIVE", "KEPT", "BROKEN"}]

\* Undefined is no value of those that are compared with it.
ASSUME NoneAssumption ==
  /\ None \notin Int \cup Channel \cup Promise
  /\ \A i \in DOMAIN CONDITIONS : None # CONDITIONS[i]

\* The limits are counts of hours, days and messages.  What the gates know of
\* the customer's contacts are those of seven days, so no longer gap between
\* two could be kept, and the dwell of a rung or the age of a notice that is
\* zero would put nothing before what it is for.  A promise without a grace
\* would defer a row, on the day it is for, to that same instant.
ASSUME LimitsAssumption ==
  /\ Policy.min_gap_hours \in Nat /\ Policy.min_gap_hours * HOUR <= 7 * DAY
  /\ Policy.notice_hours \in Nat \ {0}
  /\ {Policy.max_per_case_7d, Policy.max_per_customer_7d} \subseteq Nat
  /\ {Policy.start_hour, Policy.call_start_hour, Policy.promo_start_hour} \subseteq Nat
  /\ {Policy.end_hour, Policy.call_end_hour, Policy.promo_end_hour} \subseteq Nat
  /\ Policy.grace_days \in Nat
  /\ \A rung \in 2..5 : Authority.dwell[rung] \in Nat \ {0}
  /\ Authority.grace_hours \in Nat \ {0}
  /\ {Authority.after_execute_hours, Authority.after_wait_hours} \subseteq Nat

VARIABLES
  course,        \* the one that is followed
  now, pc,       \* the clock, and the stage of the tick
  row,           \* risk_cases
  paid, refunded,\* sums of the ledger
  failureClass,  \* of the newest diagnosis
  optedOut,      \* customers.opted_out_global
  paused,        \* whether the detector has paused the case's cohort
  promises, actions,
  contacts,      \* contact_events, OUTBOUND
  replies,       \* contact_events, INBOUND
  todo,          \* the rows that the drain has selected
  events

vars == <<course, now, pc, row, paid, refunded, failureClass, optedOut, paused, promises, actions,
          contacts, replies, todo, events>>

Person == course.person
BILLED == course.billed
Opened == Earliest(course.ticks)

CaseState == {"OPEN", "IN_PROGRESS", "RECOVERED", "STOPPED", "AWAITING_HUMAN"}
Due == {"OPEN", "IN_PROGRESS"}

PC == {"inbox", "act", "decide", "drain", "over"}

TypeOK ==
  /\ course \in Courses /\ now \in course.ticks /\ pc \in PC
  /\ row.state \in CaseState /\ row.nextDecisionAt \in Int
  /\ row.disputeOpenedAt = None \/ row.disputeOpenedAt <= now
  /\ {row.attemptCount, row.touchCount, row.recoveredPaise, paid, refunded} \subseteq Nat
  /\ {row.humanApproved, optedOut, paused} \subseteq BOOLEAN
  /\ failureClass \in FailureClass
  /\ \A p \in promises : p.status \in {"ACTIVE", "KEPT", "BROKEN"} /\ p.promisedDate >= p.createdAt
  /\ \A a \in actions : /\ a.type \in ActionType /\ a.status \in {"SCHEDULED", "SENT"}
                        /\ a.channel \in Channel \cup {None}
                        /\ a.attempts < MAX_ATTEMPTS
  /\ \A c \in contacts : c.channel \in Channel /\ c.sentAt <= now
  /\ \A r \in replies : r.intent \in Intent
  /\ events \in 0..course.events

Counts(class) == IF class \in {"TRANSIENT_INFRA", "MERCHANT_DEFECT"} THEN 0 ELSE 1

Init ==
  /\ course \in Courses
  /\ now = Opened /\ pc = "inbox"
  /\ row = [state |-> "OPEN", nextDecisionAt |-> Opened, attemptCount |-> course.failures,
            touchCount |-> 0, disputeOpenedAt |-> None, humanApproved |-> FALSE,
            recoveredPaise |-> 0]
  /\ paid = 0 /\ refunded = 0
  /\ failureClass = course.class
  /\ optedOut = FALSE /\ paused = FALSE
  /\ promises = {} /\ actions = {} /\ contacts = {} /\ replies = {} /\ todo = {}
  /\ events = 0

-----------------------------------------------------------------------------
(* What the context builder loads *)

Outstanding == BILLED - paid + refunded

\* The newest record of consent for a channel that is not of the future.
consentsFor(channel) ==
  LET captured == {c \in Consents : c.channel = channel /\ c.capturedAt <= now}
  IN  IF captured = {} THEN None
      ELSE CHOOSE c \in captured : \A d \in captured : d.capturedAt <= c.capturedAt

\* A slip: the last three days.
RecentThree == {c \in contacts : c.sentAt >= now - 3 * DAY + HOUR}

\* Contacts of the customer in the last seven days, the seventh included.
Recent == {c \in contacts : c.sentAt >= now - 7 * DAY}

\* The newest of the active promises.
activePromise(ps) ==
  LET active == {p \in ps : p.status = "ACTIVE"}
  IN  IF active = {} THEN None
      ELSE CHOOSE p \in active : \A q \in active : q.createdAt <= p.createdAt

Sent == {a \in actions : a.status = "SENT"}

\* A slip: what was said before today is forgotten.
inboundSignalsToday(intent) ==
  \E r \in replies : r.intent = intent /\ r.readAt # None /\ r.sentAt = now

\* A label, once set, stays.
inboundSignals(intent) == \E r \in replies : r.intent = intent /\ r.readAt # None

RungReached == Latest({rungIndexOf(a.type) : a \in Sent} \cup {0})

\* The newest action on the highest rung, not the first.
LastRungChange ==
  IF RungReached = 0 THEN None
  ELSE Latest({a.executedAt : a \in {b \in Sent : rungIndexOf(b.type) = RungReached}})

CardAttempts ==
  Cardinality({a \in Sent : /\ a.type \in {"RETRY_CHARGE", "RETRY_CHARGE_ALT_ROUTE"}
                            /\ now - a.executedAt <= 30 * DAY})

\* load, and what both contexts take from it and from the row as it is.
load ==
  [at |-> now, action |-> None, channel |-> None, content |-> None,
   caseAge |-> now - Opened, arm |-> Person.arm, isInvoice |-> Person.isInvoice,
   failureClass |-> failureClass,
   outstandingPaise |-> Outstanding, billedPaise |-> BILLED,
   attemptCount |-> row.attemptCount, touchCount |-> row.touchCount,
   disputeOpen |-> row.disputeOpenedAt # None, humanApproved |-> row.humanApproved,
   optedOutGlobal |-> optedOut, dnd |-> Person.dnd, deceased |-> Person.deceased,
   riskFlagged |-> Person.riskFlagged, contactRoleAuthorised |-> TRUE,
   preferredLanguage |-> Person.languagePref, erasureRequestedAt |-> Person.erasureRequestedAt,
   priorCasesResolved |-> Person.priorBillsSettled,
   priorCasesRecovered |-> Person.priorBillsPaid,
   instrumentMethod |-> Person.method, mandateCapPaise |-> Person.mandateCapPaise,
   payloadHasPii |-> FALSE, discountPct |-> None, discountPaise |-> None,
   extensionDays |-> None,
   consentByChannel |-> [ch \in Channel |-> consentsFor(ch)],
   touchesByChannel24h |->
     [ch \in Channel |-> Cardinality({c \in Recent : c.channel = ch /\ now - c.sentAt < DAY})],
   touchesCase7d |-> Cardinality({c \in Recent : c.own}),
   touchesCustomer7d |-> Cardinality(Recent),
   lastTouchAt |-> Latest({c.sentAt : c \in Recent}),
   \* A reply comes a millisecond after the message that it answers.
   lastInboundAt |->
     Latest({r.sentAt : r \in {q \in replies : q.sentAt < now /\ q.sentAt >= now - 7 * DAY}}),
   rungReached |-> RungReached, lastRungChangeAt |-> LastRungChange,
   preDebitNoticeSentAt |->
     Latest({a.executedAt : a \in {b \in Sent : b.type = "SEND_PRE_DEBIT_NOTICE"}}),
   cardAttempts30d |-> CardAttempts,
   hasActivePromise |-> activePromise(promises) # None,
   promiseDueAt |-> IF activePromise(promises) = None THEN None
                    ELSE activePromise(promises).promisedDate,
   distressSignalled |-> inboundSignals("DISTRESS"),
   abuseSignalled |-> inboundSignals("ABUSE"),
   cohortPaused |-> paused, isFestival |-> istDay(now) \in Festivals,
   killSwitchEngaged |-> FALSE, merchantPaused |-> FALSE]

-----------------------------------------------------------------------------
(* The tick: replies and promises *)

\* An event of the world that the bounds allow.
Event == events < course.events /\ events' = events + 1

\* A reply gets its intent, and is not selected again.
ReadReply(r) ==
  /\ pc = "inbox" /\ r.readAt = None
  /\ replies' = (replies \ {r}) \cup {[r EXCEPT !.readAt = now]}
  /\ pc' = "act" /\ todo' = {r}
  /\ UNCHANGED <<course, now, row, paid, refunded, failureClass, optedOut, paused, promises, actions,
                 contacts, events>>

Active == {p \in promises : p.status = "ACTIVE"}

\* Only active promises count; those that were kept or broken do not.
RecordPromise(r) ==
  /\ r.intent = "PROMISE_TO_PAY"
  /\ promises' = IF Cardinality(Active) >= Authority.max_ptp_per_case THEN promises
                 ELSE promises \cup {[createdAt |-> now, promisedDate |-> now + r.days * DAY,
                                      status |-> "ACTIVE"]}
  /\ UNCHANGED row

OpenDispute(r) ==
  /\ r.intent = "DISPUTE"
  /\ row' = [row EXCEPT !.disputeOpenedAt = IF @ = None THEN now ELSE @]
  /\ UNCHANGED promises

\* Whatever state the case was in.
EscalateReply(r) ==
  /\ r.intent \in {"DISTRESS", "ABUSE", "WRONG_PERSON", "REQUEST_HUMAN"}
  /\ row' = [row EXCEPT !.state = "AWAITING_HUMAN"]
  /\ UNCHANGED promises

\* An opt-out in words is counted; other replies are left to their label.
LabelOnly(r) ==
  /\ r.intent \in {"OPT_OUT", "OTHER"}
  /\ UNCHANGED <<row, promises>>

ActOnReply ==
  /\ pc = "act"
  /\ \E r \in todo : RecordPromise(r) \/ OpenDispute(r) \/ EscalateReply(r) \/ LabelOnly(r)
  /\ pc' = "inbox" /\ todo' = {}
  /\ UNCHANGED <<course, now, paid, refunded, failureClass, optedOut, paused, actions, contacts,
                 replies, events>>

Kept == row.state = "RECOVERED" \/ row.recoveredPaise > 0

\* A slip: a promise is judged on the day it is for.
ExpirePromisesToday ==
  /\ pc = "inbox" /\ (\A r \in replies : r.readAt # None)
  /\ pc' = "decide"
  /\ promises' = {IF p.status = "ACTIVE" /\ p.promisedDate - DAY < now
                  THEN [p EXCEPT !.status = IF Kept THEN "KEPT" ELSE "BROKEN"] ELSE p :
                    p \in promises}
  /\ UNCHANGED <<course, now, row, paid, refunded, failureClass, optedOut, paused, actions, contacts,
                 replies, todo, events>>

ExpirePromises ==
  /\ pc = "inbox" /\ (\A r \in replies : r.readAt # None)
  /\ pc' = "decide"
  /\ promises' = {IF p.status = "ACTIVE" /\ p.promisedDate < now
                  THEN [p EXCEPT !.status = IF Kept THEN "KEPT" ELSE "BROKEN"] ELSE p :
                    p \in promises}
  /\ UNCHANGED <<course, now, row, paid, refunded, failureClass, optedOut, paused, actions, contacts,
                 replies, todo, events>>

-----------------------------------------------------------------------------
(* The tick: the decision *)

CaseDue == row.state \in Due /\ row.nextDecisionAt <= now

\* What a decision that executes puts into the outbox: the choice for the
\* amount outstanding, and the operational actions for none.
Planned(v, o) ==
  LET entry(type, channel, amount) ==
        [type |-> type, channel |-> channel, createdAt |-> now, scheduledFor |-> now,
         amountPaise |-> amount, bestRemainingEv |-> o.ev, status |-> "SCHEDULED",
         executedAt |-> None, attempts |-> 0]
  IN  {entry(o.spec.action, o.spec.channel, v.outstandingPaise)}
        \cup {entry(type, None, None) : type \in operationalActions(v)}

DueRows(as) == {a \in as : a.status = "SCHEDULED" /\ a.scheduledFor <= now}

\* The drain follows in the same tick, on what is due then.
EnterDrain(as) == pc' = "drain" /\ actions' = as /\ todo' = DueRows(as)

Written(next) ==
  [row EXCEPT !.state = IF @ = "OPEN" THEN "IN_PROGRESS" ELSE @, !.nextDecisionAt = next]

\* The decision is stored, and what it executes is admitted by the budget
\* of the cycle and enqueued.
Admitted(v, o) ==
  /\ row' = Written(nextDecisionFor(v, o))
  /\ EnterDrain(IF o.verdict = "EXECUTE" THEN actions \cup Planned(v, o) ELSE actions)
  /\ UNCHANGED events

\* What the reviewer blocks is stored with the date of an action and is not
\* enqueued.
Withheld(v, o) ==
  /\ row' = Written(nextDecisionFor(v, o))
  /\ EnterDrain(actions)
  /\ UNCHANGED events

\* Other cases take the budget, and the case is decided again in an hour.
TurnedAway(o) ==
  /\ o.verdict = "EXECUTE" /\ Event
  /\ row' = Written(now + HOUR)
  /\ EnterDrain(actions)

Decide ==
  /\ pc = "decide" /\ CaseDue
  /\ \E v \in {load} : \E o \in decide(v) :
       \/ Blocked(v, o) /\ Withheld(v, o)
       \/ ~Blocked(v, o) /\ (Admitted(v, o) \/ TurnedAway(o))
  /\ UNCHANGED <<course, now, paid, refunded, failureClass, optedOut, paused, promises,
                 contacts, replies>>

NotDue ==
  /\ pc = "decide" /\ ~CaseDue
  /\ EnterDrain(actions)
  /\ UNCHANGED <<course, now, row, paid, refunded, failureClass, optedOut, paused, promises, contacts,
                 replies, events>>

-----------------------------------------------------------------------------
(* The tick: the drain *)

\* The oldest of the selected rows that is still there to be claimed.
Turn(a) ==
  /\ pc = "drain" /\ a \in todo \cap actions
  /\ \A b \in todo \cap actions : a.scheduledFor <= b.scheduledFor

\* What the gates say of a row, each on a context loaded now: the policy gate
\* is asked when the stop gate lets the row through, and without a text.
Verdict(a) ==
  LET stop == evaluateStopGate(stopContext(load, a.type, a.bestRemainingEv))
  IN  IF stop.verdict # "CONTINUE" THEN stop
      ELSE evaluate(policyContext(load, a.type, a.channel, None))

Pending == {a \in actions : a.status = "SCHEDULED"}

\* The row is suppressed, the other rows of the case cancelled, the case
\* closed.  What was suppressed, cancelled or given up is read by nothing
\* here and leaves the set.
StopAtExecution(a, g) ==
  /\ g.verdict = "STOP"
  /\ actions' = actions \ Pending
  /\ row' = [row EXCEPT !.state = IF g.reason = "STOP_PAID" THEN "RECOVERED"
                                  ELSE "STOPPED"]
  /\ todo' = todo \ {a}
  /\ UNCHANGED <<course, now, pc, paid, refunded, failureClass, optedOut, paused, promises, contacts,
                 replies, events>>

\* Either gate puts the row off, without an instant by an hour.
Hold(a, g) ==
  /\ g.verdict = "DEFER"
  /\ actions' = (actions \ {a})
       \cup {[a EXCEPT !.scheduledFor = IF g.deferUntil = None THEN now + HOUR
                                        ELSE g.deferUntil]}
  /\ todo' = todo \ {a}
  /\ UNCHANGED <<course, now, pc, row, paid, refunded, failureClass, optedOut, paused,
                 promises, contacts, replies, events>>

Dropped(a) ==
  /\ actions' = actions \ {a} /\ todo' = todo \ {a}
  /\ UNCHANGED <<course, now, pc, row, paid, refunded, failureClass, optedOut, paused, promises,
                 contacts, replies, events>>

Deny(a, g) == g.verdict = "DENY" /\ Dropped(a)

Cleared(g) == g.verdict \in {"ALLOW", "MODIFY"}

MarkedSent(a) == [a EXCEPT !.status = "SENT", !.executedAt = now]

\* A charge that has an outcome, or an action without a channel.
CompleteSilently(a, g) ==
  /\ Cleared(g) /\ (a.type \in ChargeTypes \/ a.channel = None)
  /\ actions' = (actions \ {a}) \cup {MarkedSent(a)} /\ todo' = todo \ {a}
  /\ UNCHANGED <<course, now, pc, row, paid, refunded, failureClass, optedOut, paused, promises,
                 contacts, replies, events>>

NoSender(a, g) ==
  /\ Cleared(g) /\ a.channel # None /\ a.channel \notin Senders
  /\ Dropped(a)

Contact(a) == [sentAt |-> now, channel |-> a.channel, own |-> TRUE, key |-> <<a.type, a.createdAt>>]

Touched(a) ==
  /\ contacts' = contacts \cup {Contact(a)}
  /\ row' = [row EXCEPT !.touchCount = @ + 1]
  /\ todo' = todo \ {a}
  /\ UNCHANGED <<course, now, pc, paid, refunded, failureClass, paused, promises>>

Sendable(a, g) == Cleared(g) /\ a.channel \in Senders

\* A message without a template would be suppressed; every contact has one.
Send(a, g) ==
  /\ Sendable(a, g)
  /\ Touched(a)
  /\ actions' = (actions \ {a}) \cup {MarkedSent(a)}
  /\ UNCHANGED <<optedOut, replies, events>>

SendAndHear(a, g) ==
  /\ Sendable(a, g) /\ Event
  /\ Touched(a)
  /\ actions' = (actions \ {a}) \cup {MarkedSent(a)}
  /\ \E r \in Replies :
       replies' = replies \cup {[intent |-> r.intent, days |-> r.days, sentAt |-> now,
                                 readAt |-> None]}
  /\ UNCHANGED optedOut

\* The customer opts out by the channel's own means.
SendAndOptOut(a, g) ==
  /\ Sendable(a, g) /\ Event
  /\ Touched(a)
  /\ actions' = (actions \ Pending) \cup {MarkedSent(a)}
  /\ optedOut' = TRUE
  /\ UNCHANGED replies

\* A slip: the last attempt is followed by another.
GivenUpLate(attempts) == attempts > MAX_ATTEMPTS

GivenUp(attempts) == attempts >= MAX_ATTEMPTS

\* A call or a charge fails and may be tried again, within the hour.
FailToExecute(a, g) ==
  /\ Cleared(g) /\ (a.type \in ChargeTypes \/ a.channel \in Senders) /\ Event
  /\ todo' = todo \ {a}
  /\ actions' = (actions \ {a})
       \cup (IF GivenUp(a.attempts + 1) THEN {}
             ELSE {[a EXCEPT !.attempts = @ + 1, !.scheduledFor = now + 1]})
  /\ UNCHANGED <<course, now, pc, row, paid, refunded, failureClass, optedOut, paused, promises,
                 contacts, replies>>

Execute(a) ==
  /\ Turn(a)
  /\ \E g \in {Verdict(a)} :
       \/ StopAtExecution(a, g) \/ Hold(a, g) \/ Deny(a, g)
       \/ CompleteSilently(a, g) \/ NoSender(a, g)
       \/ Send(a, g) \/ SendAndHear(a, g) \/ SendAndOptOut(a, g) \/ FailToExecute(a, g)

EndTick ==
  /\ pc = "drain" /\ todo \cap actions = {}
  /\ pc' = "over" /\ todo' = {}
  /\ UNCHANGED <<course, now, row, paid, refunded, failureClass, optedOut, paused, promises, actions,
                 contacts, replies, events>>

\* The process dies, or a query of the tick fails.
Crash ==
  /\ pc # "over" /\ Event
  /\ pc' = "over" /\ todo' = {}
  /\ UNCHANGED <<course, now, row, paid, refunded, failureClass, optedOut, paused, promises, actions,
                 contacts, replies>>

-----------------------------------------------------------------------------
(* Between ticks *)

\* A message to the customer about another case, by the same gate.
OtherContact(channel) ==
  LET other == [load EXCEPT !.touchesCase7d = 0, !.rungReached = 0, !.lastRungChangeAt = None,
                            !.hasActivePromise = FALSE, !.disputeOpen = FALSE,
                            !.humanApproved = TRUE]
  IN  /\ pc = "drain" /\ Event
      /\ Holds(evaluate(policyContext(other, "SEND_PAYMENT_LINK", channel, None))) = {}
      /\ contacts' = contacts \cup {[sentAt |-> now, channel |-> channel, own |-> FALSE,
                                     key |-> <<"SEND_PAYMENT_LINK", now>>]}
      /\ UNCHANGED <<course, now, pc, row, paid, refunded, failureClass, optedOut, paused, promises,
                     actions, replies, todo>>

World == pc = "over" /\ Event

Fail(class) ==
  /\ World
  /\ failureClass' = class
  /\ row' = [row EXCEPT !.attemptCount = @ + Counts(class)]
  /\ UNCHANGED <<course, now, pc, paid, refunded, optedOut, paused, promises, actions, contacts,
                 replies, todo>>

\* settle, on the new sums of the ledger.
Settled(owed, received) ==
  CASE owed <= 0 /\ row.state # "RECOVERED" ->
         [row EXCEPT !.state = "RECOVERED", !.recoveredPaise = received]
    [] owed > 0 /\ row.state = "RECOVERED" -> [row EXCEPT !.state = "IN_PROGRESS"]
    [] OTHER -> row

\* A part of the bill, all but a part, or the whole.
Amount == {1, BILLED - 1, BILLED} \ {0}

Pay(amount) ==
  /\ World /\ amount <= Outstanding
  /\ paid' = paid + amount
  /\ row' = Settled(Outstanding - amount, paid + amount)
  /\ UNCHANGED <<course, now, pc, refunded, failureClass, optedOut, paused, promises, actions,
                 contacts, replies, todo>>

Refund(amount) ==
  /\ World /\ amount <= paid - refunded
  /\ refunded' = refunded + amount
  /\ row' = Settled(Outstanding + amount, paid)
  /\ UNCHANGED <<course, now, pc, paid, failureClass, optedOut, paused, promises, actions, contacts,
                 replies, todo>>

Approve ==
  /\ World /\ ~row.humanApproved
  /\ row' = [row EXCEPT !.humanApproved = TRUE, !.nextDecisionAt = now]
  /\ UNCHANGED <<course, now, pc, paid, refunded, failureClass, optedOut, paused, promises, actions,
                 contacts, replies, todo>>

\* The detector degrades the case's cohort, or finds it well again.
CohortChange ==
  /\ World
  /\ paused' = ~paused
  /\ UNCHANGED <<course, now, pc, row, paid, refunded, failureClass, optedOut, promises, actions,
                 contacts, replies, todo>>

Pass ==
  /\ pc = "over" /\ (\E t \in course.ticks : t > now)
  /\ now' = Earliest({t \in course.ticks : t > now})
  /\ pc' = "inbox"
  /\ UNCHANGED <<course, row, paid, refunded, failureClass, optedOut, paused, promises, actions,
                 contacts, replies, todo, events>>

Next ==
  \/ \E r \in replies : ReadReply(r)
  \/ ActOnReply \/ ExpirePromises
  \/ Decide \/ NotDue
  \/ \E a \in todo : Execute(a)
  \/ EndTick \/ Crash
  \/ \E channel \in Channel : OtherContact(channel)
  \/ \E class \in Classes : Fail(class)
  \/ \E amount \in Amount : Pay(amount) \/ Refund(amount)
  \/ Approve \/ CohortChange \/ Pass

Spec == Init /\ [][Next]_vars

-----------------------------------------------------------------------------
(* Properties *)

\* However the cases of a customer compete, and however often a message is
\* deferred or tried again, two messages to the customer are min_gap_hours
\* apart.
SpacedContacts ==
  \A c \in contacts : \A d \in contacts \ {c} :
    \/ c.sentAt - d.sentAt >= Policy.min_gap_hours * HOUR
    \/ d.sentAt - c.sentAt >= Policy.min_gap_hours * HOUR

\* In no seven days does a customer get more messages than policy allows,
\* about one case or about all.
WeeklyCaps ==
  \A c \in contacts :
    LET week == {d \in contacts : d.sentAt \in c.sentAt - 7 * DAY .. c.sentAt}
    IN  /\ Cardinality(week) <= Policy.max_per_customer_7d
        /\ Cardinality({d \in week : d.own}) <= Policy.max_per_case_7d

\* The ladder is climbed a rung at a time: before the first action on a rung
\* there was one on the rung below, and since the last of those the dwell of
\* that rung has passed.
LadderClimbed ==
  \A a \in Sent :
    LET rung == rungIndexOf(a.type)
        before == {b \in Sent : b.executedAt < a.executedAt}
        below == {b \in before : rungIndexOf(b.type) = rung - 1}
    IN  (rung >= 2 /\ \A b \in before : rungIndexOf(b.type) < rung) =>
          /\ below # {}
          /\ \A b \in below : a.executedAt - b.executedAt >= Authority.dwell[rung] * DAY

\* From the moment a promise is recorded until its date has passed, the
\* customer hears nothing of the case, whatever was queued before.
PromiseRespected ==
  \A p \in promises : \A c \in contacts :
    c.own => c.sentAt < p.createdAt \/ c.sentAt > p.promisedDate

\* A debit under a mandate is preceded by a notice of at least notice_hours,
\* and the newest notice is as old.
NoticeBeforeDebit ==
  \A a \in {b \in Sent : b.type \in ChargeTypes} :
    LET notices == {n \in Sent : /\ n.type = "SEND_PRE_DEBIT_NOTICE"
                                 /\ n.executedAt < a.executedAt}
    IN  notices # {} /\ \A n \in notices : a.executedAt - n.executedAt >= NoticeSpan

\* When a tick is over nothing that is due is left in the outbox, unless the
\* tick was cut short: what a gate defers, it defers to an instant ahead.
DeferredAhead ==
  \A a \in Pending : pc = "drain" /\ a \notin todo => a.scheduledFor > now

\* Once a customer's distress or complaint has been read, or a dispute is
\* open, nothing is sent or charged any more, whatever was queued before and
\* wherever the tick that read it was cut short.
ObjectionsSilence ==
  \A a \in Sent :
    /\ row.disputeOpenedAt # None => a.executedAt < row.disputeOpenedAt
    /\ \A r \in replies :
         r.intent \in {"DISTRESS", "ABUSE"} /\ r.readAt # None => a.executedAt < r.readAt

=============================================================================
