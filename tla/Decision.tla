------------------------------- MODULE Decision -------------------------------
(***************************************************************************)
(* What the decision engine may decide on a case (src/decision/engine.ts): *)
(* the candidates of the playbook (src/decision/playbook.ts) and of the    *)
(* fixed schedule (src/decision/control-arm.ts), each put before the       *)
(* policy gate, one of them chosen, and the choice put before the stop     *)
(* gate.                                                                   *)
(*                                                                         *)
(* A view v is what src/engine/context-builder.ts loads of a case: the     *)
(* fields of a policy context, and those that only the engine and the stop *)
(* gate read.  The value of a candidate (the bandit's draw, the uplift     *)
(* model, the costs) is not modelled: any candidate but WAIT and the       *)
(* operational ones may have a positive one, and any of those may be the   *)
(* best.  All features of the engine are on, as in the running service.    *)
(***************************************************************************)
EXTENDS StopGate

FailureClass == {"TRANSIENT_INFRA", "FUNDS_TIMING", "AUTH_DROPOFF", "INSTRUMENT_INVALID",
                 "MANDATE_BROKEN", "RISK_DECLINE", "MERCHANT_DEFECT", "AMBIGUOUS"}

PREFERRED_CHANNEL == "WHATSAPP"

\* A candidate: contact, or silent with no channel.
contact(action, channel) == [action |-> action, channel |-> channel]
silent(action) == [action |-> action, channel |-> None]
WAIT == silent("WAIT")

-----------------------------------------------------------------------------
(* The playbook *)

ESCALATE_AFTER_TOUCHES == 3
OUR_OWN_FAULT == {"TRANSIENT_INFRA", "MERCHANT_DEFECT"}

\* What a class adds to WAIT, but for its operational action.
ByClass(v) ==
  LET when(condition, spec) == IF condition THEN {spec} ELSE {}
      toCustomer(action) == contact(action, PREFERRED_CHANNEL)
      mandateCapExceeded ==
        \/ v.failureClass = "MANDATE_BROKEN"
        \/ v.mandateCapPaise # None /\ v.outstandingPaise > v.mandateCapPaise
  IN  CASE v.failureClass = "TRANSIENT_INFRA" ->
             when(~v.cohortPaused, silent("RETRY_CHARGE"))
        [] v.failureClass = "FUNDS_TIMING" ->
             {silent("RETRY_CHARGE"), toCustomer("SEND_PRE_DEBIT_NOTICE")}
               \cup when(v.attemptCount >= 3, toCustomer("OFFER_PART_PAYMENT"))
               \cup when(v.attemptCount >= 3, toCustomer("OFFER_PLAN"))
        [] v.failureClass = "AUTH_DROPOFF" ->
             {silent("RETRY_CHARGE"), toCustomer("SEND_PAYMENT_LINK"),
              toCustomer("OFFER_METHOD_SWITCH")}
               \cup when(v.touchCount < 2, toCustomer("SEND_NUDGE"))
        [] v.failureClass = "INSTRUMENT_INVALID" ->
             {toCustomer("REQUEST_INSTRUMENT_UPDATE"), toCustomer("OFFER_METHOD_SWITCH")}
        [] v.failureClass = "MANDATE_BROKEN" ->
             {toCustomer("MANDATE_REPAIR")} \cup when(mandateCapExceeded, silent("SPLIT_RETRY"))
        [] v.failureClass = "RISK_DECLINE" ->
             {silent("ESCALATE_HUMAN")}
               \cup when(v.attemptCount < 1, silent("RETRY_CHARGE_ALT_ROUTE"))
        [] v.failureClass = "MERCHANT_DEFECT" -> {silent("RETRY_CHARGE")}
        [] v.failureClass = "AMBIGUOUS" -> {silent("RETRY_CHARGE"), silent("ESCALATE_HUMAN")}

candidatesFor(v) ==
  {WAIT} \cup ByClass(v)
    \cup (IF v.touchCount >= ESCALATE_AFTER_TOUCHES /\ v.failureClass \notin OUR_OWN_FAULT
               /\ ~v.cohortPaused
          THEN {contact("ESCALATE_CONTACT", "VOICE")} ELSE {})

\* Enqueued beside whatever is chosen, and never chosen itself.
operationalActions(v) ==
  IF v.arm = "CONTROL" THEN {}
  ELSE CASE v.failureClass = "TRANSIENT_INFRA" -> {"PAUSE_COHORT"}
         [] v.failureClass = "MERCHANT_DEFECT" -> {"RAISE_ENG_TICKET"}
         [] OTHER -> {}

-----------------------------------------------------------------------------
(* The fixed schedule *)

RETRY_OFFSETS_HOURS == <<24, 48, 72>>

\* A retry a day for three days, an SMS after the first failure, an e-mail
\* after the third.
controlAction(v) ==
  IF v.attemptCount < 3 /\ v.caseAge >= RETRY_OFFSETS_HOURS[v.attemptCount + 1] * HOUR
  THEN silent("RETRY_CHARGE")
  ELSE IF v.attemptCount >= 1 /\ v.touchCount = 0 THEN contact("SEND_NUDGE", "SMS")
  ELSE IF v.attemptCount >= 3 /\ v.touchCount = 1 THEN contact("SEND_NUDGE", "EMAIL")
  ELSE WAIT

-----------------------------------------------------------------------------
(* The gates see a view with an action (context-builder.ts) *)

HasTemplate(action) == action \in Contacts

\* Rendered from the view, in the customer's language and for the amount that
\* the ledger says; an approved template has no phrase to find.
render(v, action) ==
  [language |-> v.preferredLanguage, amountPaise |-> v.outstandingPaise,
   includesOffer |-> action \in Offers, phrases |-> {}]

draftFor(v, action) == IF HasTemplate(action) THEN render(v, action) ELSE None

policyContext(v, action, channel, content) ==
  [v EXCEPT !.action = action, !.channel = channel, !.content = content]

stopContext(v, action, bestRemainingEv) ==
  [at |-> v.at, action |-> action,
   outstandingPaise |-> v.outstandingPaise, originalAmountPaise |-> v.billedPaise,
   disputeOpen |-> v.disputeOpen, invoiceDisputed |-> v.isInvoice /\ v.disputeOpen,
   optedOut |-> v.optedOutGlobal, wrongPerson |-> ~v.contactRoleAuthorised,
   deceased |-> v.deceased, riskFlagged |-> v.riskFlagged,
   distressSignalled |-> v.distressSignalled, abuseSignalled |-> v.abuseSignalled,
   retriesExcludingInfra |-> v.attemptCount, touchCount |-> v.touchCount,
   bestRemainingEv |-> bestRemainingEv, mandateDead |-> v.failureClass = "MANDATE_BROKEN",
   cohortPaused |-> v.cohortPaused, killSwitchEngaged |-> v.killSwitchEngaged,
   merchantPaused |-> v.merchantPaused, hasActivePromise |-> v.hasActivePromise,
   promiseDueAt |-> v.promiseDueAt, caseAge |-> v.caseAge,
   economicStopsApply |-> v.arm # "CONTROL"]

-----------------------------------------------------------------------------
(* decide *)

specsFor(v) ==
  IF v.arm = "CONTROL" THEN {controlAction(v)}
  ELSE candidatesFor(v) \cup {controlAction(v)}

\* A candidate with the policy gate's decision on it.
evaluateSpec(v, spec) ==
  [spec |-> spec,
   decision |-> evaluate(policyContext(v, spec.action, spec.channel,
                                       draftFor(v, spec.action)))]

Admissible(candidate) == candidate.decision.verdict \in {"ALLOW", "MODIFY"}

HeldForNotice(candidate) == Holds(candidate.decision) = {"PRE_DEBIT_NOTICE"}

\* The preferred channel first.
NOTICE_CHANNELS == <<"WHATSAPP", "SMS", "EMAIL">>

NoticeSpecs ==
  {contact("SEND_PRE_DEBIT_NOTICE", NOTICE_CHANNELS[i]) : i \in DOMAIN NOTICE_CHANNELS}

\* A retry that only the notice holds brings the notice in, unless one was
\* ever sent.
WithNotice(v, scored) ==
  IF v.preDebitNoticeSentAt = None /\ \E c \in scored : HeldForNotice(c)
  THEN scored \cup {evaluateSpec(v, spec) : spec \in NoticeSpecs} ELSE scored

Scored(v) == WithNotice(v, {evaluateSpec(v, spec) : spec \in specsFor(v)})

\* What the control arm does: its schedule, or the first channel that a
\* notice may take.
Scheduled(v, admissible) ==
  IF controlAction(v) \in admissible THEN {controlAction(v)}
  ELSE LET open == {i \in DOMAIN NOTICE_CHANNELS :
                      contact("SEND_PRE_DEBIT_NOTICE", NOTICE_CHANNELS[i]) \in admissible}
       IN  IF open = {} THEN {}
           ELSE {contact("SEND_PRE_DEBIT_NOTICE", NOTICE_CHANNELS[Earliest(open)])}

\* The ways to choose: a candidate, whether anything has a positive value,
\* and the instant that makes waiting worth while.  The best candidate with
\* a positive value; else the fixed schedule's, else WAIT, and then perhaps
\* a candidate that is put off has a value that is worth waiting for.
Choices(v, scored) ==
  LET admissible == {c.spec : c \in {d \in scored : Admissible(d)}}
      scheduled == IF v.arm = "CONTROL" THEN Scheduled(v, admissible) ELSE {}
      waitable == {c.decision.deferUntil :
                     c \in {d \in scored : ~Admissible(d) /\ d.spec # WAIT}} \ {None}
      floor == IF v.arm # "CONTROL" /\ controlAction(v) \in admissible
               THEN controlAction(v) ELSE WAIT
      fallback == {[spec |-> floor, ev |-> 0, worthWaiting |-> None]}
        \cup {[spec |-> floor, ev |-> 1, worthWaiting |-> t] : t \in waitable}
      best == {[spec |-> s, ev |-> 1, worthWaiting |-> None] : s \in admissible \ {WAIT}}
  IN  IF scheduled # {}
      THEN {[spec |-> s, ev |-> 1, worthWaiting |-> None] : s \in scheduled}
      ELSE best \cup fallback

\* WAIT may itself be denied; a WAIT that nobody scored is admissible.
ChosenAdmissible(scored, spec) ==
  \A c \in scored : c.spec = spec => Admissible(c)

\* The outcome of a choice.
Outcome(v, scored, choice) ==
  LET stop == evaluateStopGate(stopContext(v, choice.spec.action, choice.ev))
      earliestDefer == Earliest({c.decision.deferUntil : c \in scored} \ {None})
      wakeAt == IF choice.spec = WAIT THEN choice.worthWaiting ELSE None
      deferUntil ==
        IF stop.verdict = "DEFER"
        THEN Latest({stop.deferUntil, v.at, earliestDefer} \ {None})
        ELSE IF ChosenAdmissible(scored, choice.spec) THEN wakeAt ELSE earliestDefer
  IN  [spec |-> choice.spec, ev |-> choice.ev, deferUntil |-> deferUntil,
       verdict |-> IF stop.verdict = "STOP" THEN "SUPPRESS"
                   ELSE IF stop.verdict = "DEFER" \/ deferUntil # None THEN "DEFER"
                   ELSE IF choice.spec = WAIT THEN "SUPPRESS" ELSE "EXECUTE"]

decide(v) ==
  LET scored == Scored(v)
  IN  {Outcome(v, scored, choice) : choice \in Choices(v, scored)}

-----------------------------------------------------------------------------
(* The reviewer (reviewer.ts), and when the case is decided again           *)
(* (orchestrator.ts)                                                        *)

\* Of what the reviewer looks for, a text of a template in the customer's
\* language can only have an offer that is beyond the cap.
review(draft) ==
  IF draft.includesOffer /\ draft.amountPaise > Authority.human_approval_required_above_paise
  THEN "BLOCK" ELSE "PASS"

Blocked(v, outcome) ==
  /\ outcome.verdict = "EXECUTE" /\ HasTemplate(outcome.spec.action)
  /\ review(draftFor(v, outcome.spec.action)) = "BLOCK"

nextDecisionFor(v, outcome) ==
  CASE outcome.verdict = "DEFER" /\ outcome.deferUntil # None ->
         Latest({outcome.deferUntil, v.at + HOUR})
    [] outcome.verdict = "EXECUTE" -> v.at + Authority.after_execute_hours * HOUR
    [] OTHER -> v.at + Authority.after_wait_hours * HOUR

=============================================================================
