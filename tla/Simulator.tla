------------------------------ MODULE Simulator ------------------------------
(***************************************************************************)
(* The simulated world (src/sim): a timeline of outages, defects and       *)
(* holidays, obligations that fall due, customers who pay or do not, and   *)
(* the events that a gateway would send of it.                             *)
(*                                                                         *)
(* A draw is a choice among the outcomes that have a positive probability. *)
(* Ability to pay, willingness and fatigue scale probabilities and neither *)
(* reach 1 nor, while a customer is there to be asked, 0; they are left    *)
(* out, as are replies (CaseCourse has them) and the statistics of a run.  *)
(***************************************************************************)
EXTENDS Calendar, FiniteSetsExt

CONSTANTS
  None,
  StartAt,        \* of the timeline
  WorldEvents     \* its events as they are written down, in order

SUBSCRIPTION_HALT_AFTER_ATTEMPTS == 3

-----------------------------------------------------------------------------
(* world.ts *)

\* "day N HH:MM".
resolveOffset(spec) ==
  startOfIstDay(addIstDays(StartAt, spec.day - 1)) + spec.hour * HOUR + spec.half

\* An event with its instants; severity is a percentage, 100 if not given.
parsed(event) ==
  [kind |-> event.kind, method |-> event.method, issuer |-> event.issuer,
   severity |-> IF event.severity = None THEN 100 ELSE event.severity,
   startAt |-> resolveOffset(event.start), endAt |-> resolveOffset(event.end)]

Timeline == {parsed(WorldEvents[n]) : n \in DOMAIN WorldEvents}

\* Every day on which a holiday is at the hour at which it starts.
bankHolidays ==
  UNION {{toIst(t) : t \in {addIstDays(e.startAt, n) : n \in 0..31} \cap StartAt..(e.endAt - 1)} :
           e \in {f \in Timeline : f.kind = "bank_holiday"}}

ASSUME TimelineAssumption ==
  /\ StartAt \in Int
  /\ \A e \in Timeline : e.startAt \in Int /\ e.endAt \in Int /\ e.startAt < e.endAt
  /\ \A e \in Timeline : e.kind = "gateway_downtime" => e.method # None
  /\ Holidays = bankHolidays

isActive(e, at) == at >= e.startAt /\ at < e.endAt

worldStateAt(at) == {e \in Timeline : isActive(e, at)}

merchantDefect(world) == \E e \in world : e.kind = "merchant_defect"

downtimeSeverity(world, method, issuer) ==
  Max({0} \cup {e.severity : e \in {d \in world : /\ d.kind = "gateway_downtime"
                                                  /\ d.method = method
                                                  /\ d.issuer \in {None, issuer}}})

-----------------------------------------------------------------------------
(* hidden/latent.ts and population.ts: what is generated *)

METHOD_WEIGHTS ==
  [d2c_subscription |-> {"upi", "emandate", "card"},
   one_time_checkout |-> {"upi", "card", "netbanking", "wallet"},
   b2b_invoice |-> {"netbanking", "nach", "upi"}]

usesMandate(o) == o.method \in {"emandate", "nach"} \/ o.portfolio = "d2c_subscription"

\* An instrument: a card may have expired in the month before the start.
generateInstrument(o) ==
  /\ o.portfolio \in DOMAIN METHOD_WEIGHTS /\ o.method \in METHOD_WEIGHTS[o.portfolio]
  /\ IF usesMandate(o)
     THEN o.mandateStatus \in {"ACTIVE", "REVOKED", "EXPIRED", "PAUSED"} /\ o.mandateCap \in Nat
     ELSE o.mandateStatus = "NONE" /\ o.mandateCap = None
  /\ IF o.method = "card" THEN \E n \in -30..900 : o.cardExpiresAt = StartAt + n * DAY
     ELSE o.cardExpiresAt = None
  /\ o.vpaValid \/ o.method = "upi"
  /\ o.tdsRatePct \in {None, 1, 2, 10}

\* An invoice is due at midnight, anything else on the hour.
generateObligation(o) ==
  /\ o.amount \in Nat \ {0}
  /\ o.dueAt \in Int /\ o.dueAt >= startOfIstDay(StartAt)
  /\ (o.dueAt - startOfIstDay(o.dueAt)) % (IF o.portfolio = "b2b_invoice" THEN DAY ELSE HOUR) = 0

\* The obligations of an account have one instrument.  A checkout is alone, a
\* subscription comes back every 30 days.
generatePopulation(obligations) ==
  \A i \in DOMAIN obligations :
    LET o == obligations[i]
        others == {obligations[j] : j \in {k \in DOMAIN obligations \ {i} :
                                            obligations[k].account = o.account}}
    IN  /\ generateInstrument(o) /\ generateObligation(o)
        /\ \A p \in others :
             /\ o = [p EXCEPT !.amount = o.amount, !.dueAt = o.dueAt]
             /\ o.portfolio # "one_time_checkout"
             /\ o.portfolio = "d2c_subscription" =>
                  (startOfIstDay(o.dueAt) - startOfIstDay(p.dueAt)) % (30 * DAY) = 0
        /\ o.portfolio = "b2b_invoice" => Cardinality(others) <= 3

-----------------------------------------------------------------------------
(* hidden/charge.ts and hidden/outcome.ts *)

CustomerPresentCauses ==
  [card |-> {"OTP_FAILED", "USER_CANCELLED", "CARD_BLOCKED"},
   netbanking |-> {"OTP_FAILED", "USER_CANCELLED"},
   upi |-> {"OTP_FAILED", "USER_CANCELLED"},
   wallet |-> {"USER_CANCELLED"}, emandate |-> {}, nach |-> {}]

FailureCauses(o) ==
  {"INSUFFICIENT_FUNDS", "LIMIT_EXCEEDED", "RISK_DECLINE", "GATEWAY_ERROR", "UNKNOWN"}
    \cup CustomerPresentCauses[o.method]

\* Who has cancelled or opted out never pays, and a debit settles on banking
\* days only.
chargePossible(o, dynamic, at) ==
  /\ ~dynamic.optedOut /\ ~dynamic.cancelled
  /\ o.method \in {"nach", "emandate"} => isBankingDay(at)

\* The causes of which a charge may fail, None where it succeeds.
attemptCharge(o, dynamic, amount, at) ==
  IF merchantDefect(worldStateAt(at)) THEN {"MERCHANT_DEFECT"}
  ELSE IF downtimeSeverity(worldStateAt(at), o.method, o.issuer) > 0 THEN {"DOWNTIME"}
  ELSE IF o.mandateStatus \in {"REVOKED", "EXPIRED"} THEN {"MANDATE_REVOKED"}
  ELSE IF o.mandateCap # None /\ amount > o.mandateCap THEN {"MANDATE_CAP_EXCEEDED"}
  ELSE IF o.cardExpiresAt # None /\ o.cardExpiresAt < at THEN {"CARD_EXPIRED"}
  ELSE IF o.method = "upi" /\ ~o.vpaValid THEN {"VPA_INVALID"}
  ELSE FailureCauses(o) \cup (IF chargePossible(o, dynamic, at) THEN {None} ELSE {})

\* What a message may lead to.  Who pays does nothing else; who does not may
\* opt out and cancel; a business does not cancel.
sampleOutcome(o, dynamic) ==
  IF dynamic.optedOut \/ dynamic.cancelled
  THEN {[paid |-> FALSE, optedOut |-> FALSE, cancelled |-> FALSE]}
  ELSE {[paid |-> TRUE, optedOut |-> FALSE, cancelled |-> FALSE]}
    \cup {[paid |-> FALSE, optedOut |-> out, cancelled |-> left] :
            out \in BOOLEAN,
            left \in (IF o.portfolio = "b2b_invoice" THEN {FALSE} ELSE BOOLEAN)}

-----------------------------------------------------------------------------
(* simulator.ts: the state of an obligation *)

NewObligation == [attempts |-> 0, settled |-> 0, resolved |-> FALSE, halted |-> FALSE]

NewDynamic == [optedOut |-> FALSE, cancelled |-> FALSE]

outstandingOf(o, state) == o.amount - state.settled

\* A charge of these is not even tried.
Closed(state) == state.resolved \/ state.halted

\* A business keeps back tax, rounded.
captured(o, outstanding) ==
  IF o.portfolio = "b2b_invoice" /\ o.tdsRatePct # None
  THEN outstanding - (2 * outstanding * o.tdsRatePct + 100) \div 200
  ELSE outstanding

settle(o, state) ==
  [state EXCEPT !.settled = @ + captured(o, outstandingOf(o, state)),
                !.resolved = state.settled + captured(o, outstandingOf(o, state)) >= o.amount]

Attempted(state) == [state EXCEPT !.attempts = @ + 1]

\* After a charge that failed.
Halts(o, state) ==
  o.portfolio = "d2c_subscription" /\ state.attempts >= SUBSCRIPTION_HALT_AFTER_ATTEMPTS

-----------------------------------------------------------------------------
(* events.ts: an event of the gateway, as far as it is read; a cohort of    *)
(* method and issuer where it names one.                                    *)

Event(name, amount, signature) == [event |-> name, amount |-> amount, signature |-> signature]

paymentFailed(amount, signature) == Event("payment.failed", amount, signature)

paymentCaptured(amount) == Event("payment.captured", amount, None)

\* Of a subscription no amount is told.
subscription(name) == Event(name, None, None)

orderAbandoned(amount) == Event("order.abandoned", amount, None)

\* What was billed; what has been paid of it is told and is not read.
invoice(name, amount) == Event(name, amount, None)

\* One for its start and one for its end, alike but for the name.
downtime(name, e) == [event |-> name, cohort |-> <<e.method, e.issuer>>]

-----------------------------------------------------------------------------
(* error-signatures.ts, and what failure-mapping.ts makes of a signature *)

Sig(source, step, reason) == [source |-> source, step |-> step, reason |-> reason]

SIGNATURES ==
  LET authorization(source, reason) == Sig(source, "payment_authorization", reason)
      authentication(reason) == Sig("customer", "payment_authentication", reason)
      initiation(source, reason) == Sig(source, "payment_initiation", reason)
  IN [DOWNTIME |-> {authorization("bank", "payment_failed_due_to_bank_downtime"),
                    authorization("gateway", "gateway_technical_error")},
      GATEWAY_ERROR |-> {initiation("gateway", "gateway_technical_error"),
                         authorization("internal", "server_error")},
      INSUFFICIENT_FUNDS |-> {authorization("issuer", "payment_failed_insufficient_funds")},
      LIMIT_EXCEEDED |-> {authorization("issuer", "payment_limit_exceeded")},
      OTP_FAILED |-> {authentication("invalid_otp"), authentication("payment_timeout")},
      USER_CANCELLED |-> {authentication("payment_cancelled")},
      CARD_EXPIRED |-> {authorization("customer", "payment_failed_card_expired")},
      CARD_BLOCKED |-> {authorization("issuer", "card_blocked")},
      VPA_INVALID |-> {initiation("customer", "invalid_vpa")},
      MANDATE_REVOKED |-> {authorization("customer", "mandate_revoked")},
      MANDATE_CAP_EXCEEDED |-> {initiation("business", "mandate_max_amount_exceeded")},
      RISK_DECLINE |-> {authorization("issuer", "payment_do_not_honour"),
                        authorization("issuer", "payment_declined_by_risk")},
      MERCHANT_DEFECT |-> {initiation("business", "input_validation_failed")},
      UNKNOWN |-> {authorization("nbfc", "payment_failed_unspecified")}]

\* A rule: the reasons above that it names or that its pattern finds, or else
\* the sources; the steps, where it has any; and the class.
ByReason(reasons, class) ==
  [applies |-> [s \in UNION {SIGNATURES[c] : c \in DOMAIN SIGNATURES} |-> s.reason \in reasons],
   class |-> class]

BySource(sources, steps, class) ==
  [applies |-> [s \in UNION {SIGNATURES[c] : c \in DOMAIN SIGNATURES} |->
                  s.source \in sources /\ s.step \in steps],
   class |-> class]

AnyStep == {"payment_authentication", "payment_authorization", "payment_initiation"}

RULES ==
  <<ByReason({"mandate_max_amount_exceeded", "mandate_revoked"}, "MANDATE_BROKEN"),
    ByReason({"input_validation_failed"}, "MERCHANT_DEFECT"),
    ByReason({"payment_failed_due_to_bank_downtime", "gateway_technical_error", "server_error"},
             "TRANSIENT_INFRA"),
    ByReason({"payment_failed_insufficient_funds", "payment_limit_exceeded"}, "FUNDS_TIMING"),
    ByReason({"invalid_otp", "payment_cancelled", "payment_timeout"}, "AUTH_DROPOFF"),
    ByReason({"payment_failed_card_expired", "card_blocked", "invalid_vpa"}, "INSTRUMENT_INVALID"),
    ByReason({"payment_do_not_honour", "payment_declined_by_risk"}, "RISK_DECLINE"),
    BySource({"business"}, AnyStep, "MERCHANT_DEFECT"),
    BySource({"gateway", "internal", "network"}, AnyStep, "TRANSIENT_INFRA"),
    BySource({"bank"}, {"payment_authorization"}, "TRANSIENT_INFRA"),
    BySource({"customer"}, {"payment_authentication"}, "AUTH_DROPOFF")>>

\* The first rule that matches.
classifyError(s) ==
  LET matching == {i \in DOMAIN RULES : RULES[i].applies[s]}
  IN  IF matching = {} THEN "AMBIGUOUS" ELSE RULES[Min(matching)].class

countsAgainstAttemptBudget(class) == class \notin {"TRANSIENT_INFRA", "MERCHANT_DEFECT"}

=============================================================================
