------------------------------ MODULE PolicyGate ------------------------------
(***************************************************************************)
(* The policy gate: 36 rules (src/policy/predicates.ts), declared in       *)
(* config/policy.yaml and run one after the other by src/policy/engine.ts  *)
(* on a context (src/policy/context.ts) that names an action, a channel    *)
(* and what is known of the case and the customer at an instant.           *)
(*                                                                         *)
(* A rule is here the set of its failures: empty when it does not apply or *)
(* is kept, otherwise one record with the instant it defers to, None if it *)
(* names none.  The parameters of the rules are the constants Policy and   *)
(* Authority; a drafted text is its language, its amount, whether it makes *)
(* an offer and the kinds of phrase (src/policy/lexicon.ts) found in it.   *)
(***************************************************************************)
EXTENDS Calendar, FiniteSets

CONSTANTS
  None,        \* undefined
  Policy,      \* the params of policy.yaml, by name
  Authority,   \* the limits of authority.yaml that rules and conditions read
  Broken       \* rules that throw: a parameter they cannot read

-----------------------------------------------------------------------------
(* src/policy/escalation.ts *)

ChargeTypes == {"RETRY_CHARGE", "RETRY_CHARGE_ALT_ROUTE", "SPLIT_RETRY"}

Offers == {"OFFER_PART_PAYMENT", "OFFER_PLAN", "OFFER_DISCOUNT", "GRANT_EXTENSION"}

\* Contacts that offer nothing, the pre-debit notice among them.
Reminders == {"SEND_NUDGE", "SEND_PRE_DEBIT_NOTICE", "SEND_PAYMENT_LINK",
              "REQUEST_INSTRUMENT_UPDATE", "MANDATE_REPAIR", "OFFER_METHOD_SWITCH"}

Silent == ChargeTypes \cup {"RAISE_ENG_TICKET", "PAUSE_COHORT", "RESUME_COHORT_CANARY",
                            "WAIT", "STOP", "WRITE_OFF"}

ActionType == Silent \cup Reminders \cup {"ESCALATE_CONTACT", "ESCALATE_HUMAN"} \cup Offers

Channel == {"WHATSAPP", "SMS", "EMAIL", "VOICE"}

\* The ladder: SILENT_RETRY, GENTLE_REMINDER, FIRM_REMINDER, OFFER,
\* HUMAN_CONTACT.  No action is on FORMAL_NOTICE.
FormalNotice == 5

rungIndexOf(action) ==
  CASE action \in Silent -> 0
    [] action \in Reminders -> 1
    [] action = "ESCALATE_CONTACT" -> 2
    [] action \in Offers -> 3
    [] action = "ESCALATE_HUMAN" -> 4

-----------------------------------------------------------------------------
(* policy.yaml: what a rule applies to, and what its failure means *)

Contacts == Reminders \cup Offers \cup {"ESCALATE_CONTACT"}

AllContact == {"OPT_OUT_ABSOLUTE", "DND_SCRUB", "WA_SESSION_WINDOW", "FREQ_PER_CHANNEL_DAY",
  "FREQ_PER_CASE_WEEK", "FREQ_GLOBAL_CUSTOMER_WEEK", "MIN_GAP_BETWEEN_TOUCHES",
  "NO_ESCALATION_DURING_PTP", "NO_ESCALATION_DURING_DISPUTE", "THIRD_PARTY_DISCLOSURE",
  "NO_THREATS", "NO_LEGAL_IMPERSONATION", "NO_DARK_PATTERNS", "NO_SHAMING",
  "LANGUAGE_MATCH", "AMOUNT_ACCURACY"}

AllActions == {"ESCALATION_ORDER", "ESCALATION_COOLDOWN", "PII_MINIMISATION",
  "PURPOSE_LIMITATION", "ERASURE_HONOURED", "HUMAN_APPROVAL_ABOVE_CEILING"}

\* The rules of a list name their actions.
AppliesTo(rule) ==
  CASE rule \in {"QUIET_HOURS", "GOOD_PAYER_GRACE"} -> Contacts
    [] rule = "RECOVERY_CALL_HOURS" -> {"ESCALATE_HUMAN"}
    [] rule = "NO_HOLIDAY_DUNNING" -> {"SEND_NUDGE", "ESCALATE_CONTACT", "ESCALATE_HUMAN",
                                       "OFFER_DISCOUNT"}
    [] rule = "CONSENT_REQUIRED" -> Contacts \cup {"ESCALATE_HUMAN"}
    [] rule \in {"PROMO_RECLASSIFY", "DISCOUNT_WITHIN_AUTHORITY"} -> {"OFFER_DISCOUNT"}
    [] rule = "EXTENSION_WITHIN_AUTHORITY" -> {"GRANT_EXTENSION"}
    [] rule = "MANDATE_CAP" -> ChargeTypes \ {"SPLIT_RETRY"}
    [] rule = "MANDATE_REQUIRED" -> ChargeTypes \cup {"SEND_PRE_DEBIT_NOTICE"}
    [] rule \in {"BANK_HOLIDAY_MANDATE", "PRE_DEBIT_NOTICE", "NETWORK_ATTEMPT_CAP",
                 "NO_RETRY_INTO_DOWNTIME"} -> ChargeTypes

applies(rule, c) ==
  \/ rule \in AllActions
  \/ rule \in AllContact /\ c.channel # None
  \/ rule \notin AllActions \cup AllContact /\ c.action \in AppliesTo(rule)

on_fail(rule) ==
  CASE rule \in {"QUIET_HOURS", "GOOD_PAYER_GRACE", "RECOVERY_CALL_HOURS",
         "NO_HOLIDAY_DUNNING", "BANK_HOLIDAY_MANDATE", "PROMO_RECLASSIFY",
         "FREQ_PER_CHANNEL_DAY", "FREQ_PER_CASE_WEEK", "FREQ_GLOBAL_CUSTOMER_WEEK",
         "MIN_GAP_BETWEEN_TOUCHES", "ESCALATION_COOLDOWN", "NO_ESCALATION_DURING_PTP",
         "PRE_DEBIT_NOTICE", "NO_RETRY_INTO_DOWNTIME"} -> "DEFER"
    [] rule \in {"WA_SESSION_WINDOW", "MANDATE_CAP"} -> "MODIFY"
    [] OTHER -> "DENY"

-----------------------------------------------------------------------------
(* The rules *)

Failure(rule, until) == [rule |-> rule, until |-> until]

\* run: a rule that throws fails, and defers to no instant.
Rule(rule, c, ok, until) ==
  IF ~applies(rule, c) THEN {}
  ELSE IF rule \in Broken THEN {Failure(rule, None)}
  ELSE IF ok THEN {} ELSE {Failure(rule, until)}

Check(rule, c, ok) == Rule(rule, c, ok, None)

\* A rule of hours of the day.
Hours(rule, c, ok, start, end) ==
  Rule(rule, c, ok \/ isWithinIstWindow(c.at, start, end),
       nextIstWindowStart(c.at, start, end))

\* 10:00 of the next day.
nextMorning(at) == atIst(addIstDays(at, 1), 10)

\* A reliable payer: enough settled cases, and min_recovery_rate percent of
\* them recovered.
EarnedGrace(c) ==
  /\ c.priorCasesResolved >= Policy.min_prior_cases
  /\ c.priorCasesRecovered * 100 >= Policy.min_recovery_rate * c.priorCasesResolved

\* caseAge is in half hours, as are all spans.
Timing(c) ==
  UNION {Hours("QUIET_HOURS", c, FALSE, Policy.start_hour, Policy.end_hour),
         Rule("GOOD_PAYER_GRACE", c,
              ~EarnedGrace(c) \/ c.caseAge >= Policy.grace_days * DAY,
              c.at + Policy.grace_days * DAY - c.caseAge),
         Hours("RECOVERY_CALL_HOURS", c, FALSE, Policy.call_start_hour, Policy.call_end_hour),
         Rule("NO_HOLIDAY_DUNNING", c, ~c.isFestival, nextMorning(c.at)),
         Rule("BANK_HOLIDAY_MANDATE", c, isBankingDay(c.at),
              IF NoBankingDay(c.at) THEN None ELSE nextBankingDay(c.at))}

\* The newest record of consent for the channel, or None.
ConsentOf(c) == IF c.channel = None THEN None ELSE c.consentByChannel[c.channel]

Granted(consent, at) ==
  /\ consent # None
  /\ consent.granted
  /\ consent.revokedAt = None \/ consent.revokedAt > at

InSession(c) ==
  c.lastInboundAt # None /\ c.at - c.lastInboundAt < Policy.session_hours * HOUR

Consent(c) ==
  UNION {Check("CONSENT_REQUIRED", c, c.channel = None \/ Granted(ConsentOf(c), c.at)),
         Check("OPT_OUT_ABSOLUTE", c, ~c.optedOutGlobal),
         Check("DND_SCRUB", c, c.channel \notin {"SMS", "VOICE"} \/ ~c.dnd),
         Hours("PROMO_RECLASSIFY", c, c.content = None \/ ~c.content.includesOffer,
               Policy.promo_start_hour, Policy.promo_end_hour),
         Check("WA_SESSION_WINDOW", c, c.channel # "WHATSAPP" \/ InSession(c))}

\* A slip: the gap is kept by the touches of the case, not of the customer.
\* (The caps and the gap read the customer's contacts of seven days.)
FrequencyOwnCase(c) ==
  UNION {Rule("FREQ_PER_CHANNEL_DAY", c,
              c.touchesByChannel24h[c.channel] < Policy.max_per_channel_24h, c.at + DAY),
         Rule("FREQ_PER_CASE_WEEK", c, c.touchesCase7d < Policy.max_per_case_7d, c.at + DAY),
         Rule("FREQ_GLOBAL_CUSTOMER_WEEK", c,
              c.touchesCustomer7d < Policy.max_per_customer_7d, c.at + DAY),
         Rule("MIN_GAP_BETWEEN_TOUCHES", c,
              c.touchesCase7d = 0 \/ c.at - c.lastTouchAt >= Policy.min_gap_hours * HOUR,
              c.lastTouchAt + Policy.min_gap_hours * HOUR)}

Frequency(c) ==
  UNION {Rule("FREQ_PER_CHANNEL_DAY", c,
              c.touchesByChannel24h[c.channel] < Policy.max_per_channel_24h, c.at + DAY),
         Rule("FREQ_PER_CASE_WEEK", c, c.touchesCase7d < Policy.max_per_case_7d, c.at + DAY),
         Rule("FREQ_GLOBAL_CUSTOMER_WEEK", c,
              c.touchesCustomer7d < Policy.max_per_customer_7d, c.at + DAY),
         Rule("MIN_GAP_BETWEEN_TOUCHES", c,
              c.lastTouchAt = None \/ c.at - c.lastTouchAt >= Policy.min_gap_hours * HOUR,
              c.lastTouchAt + Policy.min_gap_hours * HOUR)}

\* A slip: min_dwell_days of the rung below, as if rungs counted from one.
DwellBelow(c) == Authority.dwell[IF c.rungReached = 0 THEN 1 ELSE c.rungReached] * DAY

\* min_dwell_days of the rung that was reached.
Dwell(c) == Authority.dwell[c.rungReached + 1] * DAY

Escalation(c) ==
  UNION {Check("ESCALATION_ORDER", c, rungIndexOf(c.action) <= c.rungReached + 1),
         Rule("ESCALATION_COOLDOWN", c,
              \/ rungIndexOf(c.action) <= c.rungReached
              \/ c.lastRungChangeAt = None
              \/ c.at - c.lastRungChangeAt >= Dwell(c),
              c.lastRungChangeAt + Dwell(c)),
         Rule("NO_ESCALATION_DURING_PTP", c, ~c.hasActivePromise, c.at + DAY),
         Check("NO_ESCALATION_DURING_DISPUTE", c, ~c.disputeOpen),
         Check("THIRD_PARTY_DISCLOSURE", c, c.contactRoleAuthorised)}

\* Without a drafted text there is nothing to find.
Clean(c, phrase) == c.content = None \/ phrase \notin c.content.phrases

Content(c) ==
  UNION {Check("NO_THREATS", c, Clean(c, "THREAT")),
         Check("NO_LEGAL_IMPERSONATION", c,
               Clean(c, "LEGAL") \/ (rungIndexOf(c.action) >= FormalNotice /\ c.humanApproved)),
         Check("NO_DARK_PATTERNS", c, Clean(c, "DARK_PATTERN")),
         Check("NO_SHAMING", c, Clean(c, "SHAMING")),
         Check("LANGUAGE_MATCH", c,
               c.content = None \/ c.content.language = c.preferredLanguage),
         Check("AMOUNT_ACCURACY", c,
               c.content = None \/ c.content.amountPaise = c.outstandingPaise)}

DataProtection(c) ==
  UNION {Check("PII_MINIMISATION", c, ~c.payloadHasPii),
         Check("PURPOSE_LIMITATION", c,
               \/ c.channel = None
               \/ /\ ConsentOf(c) # None
                  /\ ConsentOf(c).purpose = "payment_recovery"),
         Check("ERASURE_HONOURED", c,
               c.erasureRequestedAt = None \/ c.erasureRequestedAt > c.at)}

\* Every method that a mandate may be on is among mandate_methods.
isMandateDebit(c) == c.instrumentMethod \in Policy.mandate_methods /\ c.mandateCapPaise # None

NoticeSpan == Policy.notice_hours * HOUR

\* A slip: any notice will do, however recent.
MandateNoticeOnly(c) ==
  UNION {Rule("PRE_DEBIT_NOTICE", c,
              ~isMandateDebit(c) \/ c.preDebitNoticeSentAt # None, c.at + NoticeSpan),
         Check("MANDATE_REQUIRED", c, isMandateDebit(c)),
         Check("MANDATE_CAP", c,
               c.mandateCapPaise = None \/ c.outstandingPaise <= c.mandateCapPaise)}

Mandate(c) ==
  UNION {Rule("PRE_DEBIT_NOTICE", c,
              \/ ~isMandateDebit(c)
              \/ c.preDebitNoticeSentAt # None /\ c.at - c.preDebitNoticeSentAt >= NoticeSpan,
              (IF c.preDebitNoticeSentAt = None THEN c.at ELSE c.preDebitNoticeSentAt)
                + NoticeSpan),
         Check("MANDATE_REQUIRED", c, isMandateDebit(c)),
         Check("MANDATE_CAP", c,
               c.mandateCapPaise = None \/ c.outstandingPaise <= c.mandateCapPaise)}

Authorised(c) ==
  UNION {Check("NETWORK_ATTEMPT_CAP", c, c.cardAttempts30d < Policy.max_attempts_30d),
         Rule("NO_RETRY_INTO_DOWNTIME", c, ~c.cohortPaused, c.at + HOUR),
         Check("DISCOUNT_WITHIN_AUTHORITY", c,
               /\ c.discountPct = None \/ c.discountPct <= Authority.max_pct
               /\ c.discountPaise = None \/ c.discountPaise <= Authority.max_paise),
         Check("EXTENSION_WITHIN_AUTHORITY", c,
               c.extensionDays = None \/ c.extensionDays <= Authority.max_days),
         Check("HUMAN_APPROVAL_ABOVE_CEILING", c,
               \/ c.outstandingPaise <= Authority.human_approval_required_above_paise
               \/ c.humanApproved)}

-----------------------------------------------------------------------------
(* src/policy/engine.ts *)

Failures(c) ==
  UNION {Timing(c), Consent(c), Frequency(c), Escalation(c), Content(c),
         DataProtection(c), Mandate(c), Authorised(c)}

Latest(instants) ==
  IF instants = {} THEN None ELSE CHOOSE t \in instants : \A u \in instants : u <= t

Earliest(instants) ==
  IF instants = {} THEN None ELSE CHOOSE t \in instants : \A u \in instants : t <= u

\* The verdict of the highest rank among the failures.
VerdictOf(failures) ==
  LET verdicts == {on_fail(f.rule) : f \in failures}
  IN  IF "DENY" \in verdicts THEN "DENY"
      ELSE IF "DEFER" \in verdicts THEN "DEFER"
      ELSE IF "MODIFY" \in verdicts THEN "MODIFY"
      ELSE "ALLOW"

\* The latest instant that a failure names counts.
DecisionOn(failures) ==
  [verdict |-> VerdictOf(failures), failures |-> failures,
   deferUntil |-> IF VerdictOf(failures) = "DENY" THEN None
                  ELSE Latest({f.until : f \in failures} \ {None})]

\* All rules run.
evaluate(c) == DecisionOn(Failures(c))

\* The rules that hold an action back.
Holds(decision) == {f.rule : f \in {g \in decision.failures : on_fail(g.rule) # "MODIFY"}}

=============================================================================
