------------------------------- MODULE StopGate -------------------------------
(***************************************************************************)
(* The stop gate (src/policy/stop-gate.ts): should the case be chased at   *)
(* all?  18 conditions, in order, each of which continues, defers or       *)
(* stops.  STOP_PARTIAL always continues.  The first that stops gives the  *)
(* reason, and an age limit applies when none does.                        *)
(***************************************************************************)
EXTENDS PolicyGate, Sequences

isOutbound(action) == action \notin {"WAIT", "STOP", "WRITE_OFF"}

\* What is not a charge and not idle is a touch, an engineering ticket too.
IsTouch(action) == isOutbound(action) /\ action \notin ChargeTypes

IsPartial(s) == s.outstandingPaise > 0 /\ s.outstandingPaise < s.originalAmountPaise

Uneconomic(s) ==
  s.outstandingPaise > 0 /\ s.outstandingPaise < Authority.auto_write_off_below_paise

Stops(s, condition) ==
  CASE condition = "STOP_PAID" -> s.outstandingPaise <= 0
    [] condition = "STOP_PARTIAL" -> FALSE
    [] condition = "STOP_DISPUTE" -> s.disputeOpen
    [] condition = "STOP_INVOICE_DISPUTE" -> s.invoiceDisputed
    [] condition = "STOP_OPT_OUT" -> s.optedOut
    [] condition = "STOP_WRONG_PERSON" -> s.wrongPerson
    [] condition = "STOP_DECEASED" -> s.deceased
    [] condition = "STOP_VULNERABILITY" -> s.distressSignalled
    [] condition = "STOP_ABUSE" -> s.abuseSignalled
    [] condition = "STOP_ATTEMPT_BUDGET" ->
         s.action \in ChargeTypes /\ s.retriesExcludingInfra >= Authority.max_retries_per_case
    [] condition = "STOP_TOUCH_BUDGET" ->
         IsTouch(s.action) /\ s.touchCount >= Authority.max_touches_per_case
    [] condition = "STOP_EV_NEGATIVE" -> s.economicStopsApply /\ s.bestRemainingEv <= 0
    [] condition = "STOP_UNECONOMIC" -> s.economicStopsApply /\ Uneconomic(s)
    [] condition = "STOP_MANDATE_DEAD" -> s.action \in ChargeTypes /\ s.mandateDead
    [] condition = "STOP_RISK_FLAG" -> s.riskFlagged
    [] condition = "STOP_KILL_SWITCH" -> s.killSwitchEngaged \/ s.merchantPaused
    [] OTHER -> FALSE

CONDITIONS == <<"STOP_PAID", "STOP_PARTIAL", "STOP_DISPUTE", "STOP_INVOICE_DISPUTE",
  "STOP_OPT_OUT", "STOP_WRONG_PERSON", "STOP_DECEASED", "STOP_VULNERABILITY", "STOP_ABUSE",
  "STOP_ATTEMPT_BUDGET", "STOP_TOUCH_BUDGET", "STOP_EV_NEGATIVE", "STOP_UNECONOMIC",
  "STOP_MANDATE_DEAD", "STOP_RISK_FLAG", "STOP_COHORT_PAUSED", "STOP_KILL_SWITCH",
  "STOP_PTP_ACTIVE">>

\* A paused route holds charges; a promise holds whatever is not silent.
CohortHolds(s) == s.action \in ChargeTypes /\ s.cohortPaused

PromiseHolds(s) == s.hasActivePromise /\ rungIndexOf(s.action) > 0

\* To a day after the promised date; without one, and for a route, an hour.
DeferInstants(s) ==
  (IF CohortHolds(s) THEN {s.at + HOUR} ELSE {})
  \cup (IF ~PromiseHolds(s) THEN {}
        ELSE IF s.promiseDueAt = None THEN {s.at + HOUR}
        ELSE {s.promiseDueAt + Authority.grace_hours * HOUR})

\* The reason is the first condition that stops, in the order above.
Reason(s) ==
  LET stopping == {i \in DOMAIN CONDITIONS : Stops(s, CONDITIONS[i])}
  IN  IF stopping # {} THEN CONDITIONS[Earliest(stopping)]
      ELSE IF s.caseAge > Authority.case_age_limit_days * DAY THEN "STOP_EV_NEGATIVE"
      ELSE None

evaluateStopGate(s) ==
  LET reason == Reason(s)
  IN  [verdict |-> IF reason # None THEN "STOP"
                   ELSE IF DeferInstants(s) # {} THEN "DEFER" ELSE "CONTINUE",
       reason |-> reason,
       deferUntil |-> IF reason # None THEN None ELSE Latest(DeferInstants(s)),
       reAnchorAmount |-> IsPartial(s)]

=============================================================================
