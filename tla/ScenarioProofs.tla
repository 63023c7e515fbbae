---------------------------- MODULE ScenarioProofs ----------------------------
EXTENDS Scenario, FiniteSetTheorems, SequenceTheorems, WellFoundedInduction, TLAPS

-----------------------------------------------------------------------------
(* The events of a delivery: one or two *)

\* A step of the fold over the events of i.
After(c, i, e) == project(c, i, toSignal(e))

\* The fold over some of the first events, of which g has the smaller ones.
BookedFrom(c, i, events, g, s) ==
  IF s = {} THEN c ELSE After(g[s \ {Max(s)}], i, events[Max(s)])

LEMMA BookedIs ==
  ASSUME NEW c, NEW i, NEW events
  PROVE  Booked(c, i, events) =
           (CHOOSE g : g = [s \in SUBSET DOMAIN events |-> BookedFrom(c, i, events, g, s)])
             [DOMAIN events]
BY Zenon DEF Booked, FoldLeft, MapThenFoldSet, BookedFrom, After

LEMMA MaxIs ==
  /\ Max({1}) = 1 /\ Max({2}) = 2 /\ Max({1, 2}) = 2
BY DEF Max

LEMMA BookedOne ==
  ASSUME NEW c, NEW i, NEW e
  PROVE  Booked(c, i, <<e>>) = After(c, i, e)
<1> DEFINE events == <<e>>
           F(g) == [s \in SUBSET DOMAIN events |-> BookedFrom(c, i, events, g, s)]
           f == [s \in SUBSET {1} |-> IF s = {} THEN c ELSE After(c, i, e)]
           h == CHOOSE g : g = F(g)
<1>1. DOMAIN events = {1} /\ events[1] = e OBVIOUS
<1>2. ASSUME NEW s \in SUBSET {1} PROVE s = {} \/ (s = {1} /\ Max(s) = 1 /\ s \ {Max(s)} = {})
  BY MaxIs
<1>3. \A s \in SUBSET {1} : f[s] = BookedFrom(c, i, events, f, s)
  BY <1>1, <1>2 DEF BookedFrom
<1>4. f = F(f) BY <1>1, <1>3
<1>5. h = F(h) BY <1>4
<1> HIDE DEF h
<1>6. h[{}] = c /\ h[{1}] = BookedFrom(c, i, events, h, {1})
  BY <1>1, <1>5 DEF BookedFrom
<1>7. h[{1}] = After(c, i, e) BY <1>1, <1>6, MaxIs DEF BookedFrom
<1> QED BY <1>1, <1>7, BookedIs DEF h

LEMMA BookedTwo ==
  ASSUME NEW c, NEW i, NEW d, NEW e
  PROVE  Booked(c, i, <<d, e>>) = After(After(c, i, d), i, e)
<1> DEFINE events == <<d, e>>
           F(g) == [s \in SUBSET DOMAIN events |-> BookedFrom(c, i, events, g, s)]
           f == [s \in SUBSET {1, 2} |-> IF s = {} THEN c
                                         ELSE IF s = {1} THEN After(c, i, d)
                                         ELSE IF s = {2} THEN After(c, i, e)
                                         ELSE After(After(c, i, d), i, e)]
           h == CHOOSE g : g = F(g)
<1>1. DOMAIN events = {1, 2} /\ events[1] = d /\ events[2] = e OBVIOUS
<1>2. ASSUME NEW s \in SUBSET {1, 2}
      PROVE  \/ s = {}
             \/ s = {1} /\ Max(s) = 1 /\ s \ {Max(s)} = {}
             \/ s = {2} /\ Max(s) = 2 /\ s \ {Max(s)} = {}
             \/ s = {1, 2} /\ Max(s) = 2 /\ s \ {Max(s)} = {1}
  BY MaxIs
<1>3. \A s \in SUBSET {1, 2} : f[s] = BookedFrom(c, i, events, f, s)
  BY <1>1, <1>2 DEF BookedFrom
<1>4. f = F(f) BY <1>1, <1>3
<1>5. h = F(h) BY <1>4
<1> HIDE DEF h
<1>6. \A s \in SUBSET {1, 2} : h[s] = BookedFrom(c, i, events, h, s)
  BY <1>1, <1>5
<1>7. h[{}] = c BY <1>6 DEF BookedFrom
<1>8. h[{1}] = After(c, i, d)
  BY <1>1, <1>6, <1>7, MaxIs DEF BookedFrom
<1>9. {1, 2} \ {2} = {1} OBVIOUS
<1>10. h[{1, 2}] = After(After(c, i, d), i, e)
  <2>1. h[{1, 2}] = BookedFrom(c, i, events, h, {1, 2}) BY <1>6
  <2>2. {1, 2} # {} OBVIOUS
  <2>3. h[{1, 2}] = After(h[{1, 2} \ {2}], i, events[2])
    BY <2>1, <2>2, MaxIs, Zenon DEF BookedFrom
  <2> QED BY <1>1, <1>8, <1>9, <2>3
<1> QED BY <1>1, <1>10, BookedIs DEF h

-----------------------------------------------------------------------------
(* Signatures *)

Sigs == UNION {SIGNATURES[c] : c \in DOMAIN SIGNATURES}

Applies(k, s) == RULES[k].applies[s]

LEMMA RulesByReason ==
  ASSUME NEW s \in Sigs
  PROVE  /\ Applies(1, s) <=> s.reason \in {"mandate_max_amount_exceeded", "mandate_revoked"}
         /\ Applies(2, s) <=> s.reason \in {"input_validation_failed"}
         /\ Applies(3, s) <=> s.reason \in {"payment_failed_due_to_bank_downtime",
                                            "gateway_technical_error", "server_error"}
         /\ Applies(4, s) <=> s.reason \in {"payment_failed_insufficient_funds",
                                            "payment_limit_exceeded"}
         /\ Applies(5, s) <=> s.reason \in {"invalid_otp", "payment_cancelled", "payment_timeout"}
         /\ Applies(6, s) <=> s.reason \in {"payment_failed_card_expired", "card_blocked",
                                            "invalid_vpa"}
         /\ Applies(7, s) <=> s.reason \in {"payment_do_not_honour", "payment_declined_by_risk"}
BY Zenon DEF Applies, RULES, ByReason, Sigs

LEMMA RulesBySource ==
  ASSUME NEW s \in Sigs
  PROVE  /\ Applies(8, s) <=> s.source \in {"business"} /\ s.step \in AnyStep
         /\ Applies(9, s) <=> s.source \in {"gateway", "internal", "network"} /\ s.step \in AnyStep
         /\ Applies(10, s) <=> s.source \in {"bank"} /\ s.step \in {"payment_authorization"}
         /\ Applies(11, s) <=> s.source \in {"customer"} /\ s.step \in {"payment_authentication"}
BY Zenon DEF Applies, RULES, BySource, Sigs

LEMMA RuleClasses ==
  /\ DOMAIN RULES = 1..11
  /\ RULES[1].class = "MANDATE_BROKEN" /\ RULES[2].class = "MERCHANT_DEFECT"
  /\ RULES[3].class = "TRANSIENT_INFRA" /\ RULES[4].class = "FUNDS_TIMING"
  /\ RULES[5].class = "AUTH_DROPOFF" /\ RULES[6].class = "INSTRUMENT_INVALID"
  /\ RULES[7].class = "RISK_DECLINE" /\ RULES[8].class = "MERCHANT_DEFECT"
  /\ RULES[9].class = "TRANSIENT_INFRA" /\ RULES[10].class = "TRANSIENT_INFRA"
  /\ RULES[11].class = "AUTH_DROPOFF"
BY DEF RULES, ByReason, BySource

LEMMA FirstRule ==
  ASSUME NEW s, NEW k \in 1..11, Applies(k, s), \A j \in 1..(k - 1) : ~Applies(j, s)
  PROVE  classifyError(s) = RULES[k].class
<1> DEFINE matching == {j \in DOMAIN RULES : RULES[j].applies[s]}
<1>1. k \in matching BY RuleClasses DEF Applies
<1>2. \A j \in matching : j \in 1..11 /\ k <= j BY RuleClasses DEF Applies
<1>3. Min(matching) = k
  <2> HIDE DEF matching
  <2>1. \E x \in matching : \A y \in matching : x <= y BY <1>1, <1>2
  <2>2. Min(matching) \in matching /\ \A y \in matching : Min(matching) <= y
    BY <2>1, Zenon DEF Min
  <2>3. Min(matching) \in 1..11 /\ k <= Min(matching) /\ Min(matching) <= k
    BY <1>1, <1>2, <2>2
  <2> QED BY <2>3
<1>4. matching # {} BY <1>1
<1> QED BY <1>3, <1>4 DEF classifyError

LEMMA NoRule ==
  ASSUME NEW s, \A j \in 1..11 : ~Applies(j, s)
  PROVE  classifyError(s) = "AMBIGUOUS"
BY RuleClasses DEF classifyError, Applies

Causes ==
  {"DOWNTIME", "GATEWAY_ERROR", "INSUFFICIENT_FUNDS", "LIMIT_EXCEEDED", "OTP_FAILED", "USER_CANCELLED", "CARD_EXPIRED", "CARD_BLOCKED", "VPA_INVALID", "MANDATE_REVOKED", "MANDATE_CAP_EXCEEDED", "RISK_DECLINE", "MERCHANT_DEFECT", "UNKNOWN"}

LEMMA CausesAre == Causes = DOMAIN SIGNATURES
BY DEF Causes, SIGNATURES

\* What the signatures of a cause have in common, as far as the rules look.
LEMMA Reasons ==
  ASSUME NEW cause \in Causes, NEW s \in SIGNATURES[cause]
  PROVE  /\ s \in Sigs
         /\ cause = "DOWNTIME" => s.reason \in {"payment_failed_due_to_bank_downtime", "gateway_technical_error"}
         /\ cause = "GATEWAY_ERROR" => s.reason \in {"gateway_technical_error", "server_error"}
         /\ cause = "INSUFFICIENT_FUNDS" => s.reason \in {"payment_failed_insufficient_funds"}
         /\ cause = "LIMIT_EXCEEDED" => s.reason \in {"payment_limit_exceeded"}
         /\ cause = "OTP_FAILED" => s.reason \in {"invalid_otp", "payment_timeout"}
         /\ cause = "USER_CANCELLED" => s.reason \in {"payment_cancelled"}
         /\ cause = "CARD_EXPIRED" => s.reason \in {"payment_failed_card_expired"}
         /\ cause = "CARD_BLOCKED" => s.reason \in {"card_blocked"}
         /\ cause = "VPA_INVALID" => s.reason \in {"invalid_vpa"}
         /\ cause = "MANDATE_REVOKED" => s.reason \in {"mandate_revoked"}
         /\ cause = "MANDATE_CAP_EXCEEDED" => s.reason \in {"mandate_max_amount_exceeded"}
         /\ cause = "RISK_DECLINE" => s.reason \in {"payment_do_not_honour", "payment_declined_by_risk"}
         /\ cause = "MERCHANT_DEFECT" => s.reason \in {"input_validation_failed"}
         /\ cause = "UNKNOWN" => s.reason \in {"payment_failed_unspecified"}
         /\ cause = "UNKNOWN" => s.source = "nbfc"
<1>1. s \in Sigs BY CausesAre DEF Sigs
<1>2. CASE cause = "DOWNTIME" BY <1>1, <1>2 DEF SIGNATURES, Sig
<1>3. CASE cause = "GATEWAY_ERROR" BY <1>1, <1>3 DEF SIGNATURES, Sig
<1>4. CASE cause = "INSUFFICIENT_FUNDS" BY <1>1, <1>4 DEF SIGNATURES, Sig
<1>5. CASE cause = "LIMIT_EXCEEDED" BY <1>1, <1>5 DEF SIGNATURES, Sig
<1>6. CASE cause = "OTP_FAILED" BY <1>1, <1>6 DEF SIGNATURES, Sig
<1>7. CASE cause = "USER_CANCELLED" BY <1>1, <1>7 DEF SIGNATURES, Sig
<1>8. CASE cause = "CARD_EXPIRED" BY <1>1, <1>8 DEF SIGNATURES, Sig
<1>9. CASE cause = "CARD_BLOCKED" BY <1>1, <1>9 DEF SIGNATURES, Sig
<1>10. CASE cause = "VPA_INVALID" BY <1>1, <1>10 DEF SIGNATURES, Sig
<1>11. CASE cause = "MANDATE_REVOKED" BY <1>1, <1>11 DEF SIGNATURES, Sig
<1>12. CASE cause = "MANDATE_CAP_EXCEEDED" BY <1>1, <1>12 DEF SIGNATURES, Sig
<1>13. CASE cause = "RISK_DECLINE" BY <1>1, <1>13 DEF SIGNATURES, Sig
<1>14. CASE cause = "MERCHANT_DEFECT" BY <1>1, <1>14 DEF SIGNATURES, Sig
<1>15. CASE cause = "UNKNOWN" BY <1>1, <1>15 DEF SIGNATURES, Sig
<1> QED BY <1>2, <1>3, <1>4, <1>5, <1>6, <1>7, <1>8, <1>9, <1>10, <1>11, <1>12, <1>13, <1>14, <1>15 DEF Causes

\* What counts against a case is what is the customer's doing.
LEMMA CountsIs ==
  ASSUME NEW cause \in Causes, NEW s \in SIGNATURES[cause]
  PROVE  countsAgainstAttemptBudget(classifyError(s)) <=> cause \notin OurOwn
<1>1. CASE cause = "DOWNTIME"
  <2>1. Applies(3, s) /\ \A j \in 1..2 : ~Applies(j, s)
    BY <1>1, Reasons, RulesByReason
  <2>2. classifyError(s) = RULES[3].class BY <2>1, FirstRule
  <2> QED BY <1>1, <2>2, RuleClasses DEF countsAgainstAttemptBudget, OurOwn
<1>2. CASE cause = "GATEWAY_ERROR"
  <2>1. Applies(3, s) /\ \A j \in 1..2 : ~Applies(j, s)
    BY <1>2, Reasons, RulesByReason
  <2>2. classifyError(s) = RULES[3].class BY <2>1, FirstRule
  <2> QED BY <1>2, <2>2, RuleClasses DEF countsAgainstAttemptBudget, OurOwn
<1>3. CASE cause = "INSUFFICIENT_FUNDS"
  <2>1. Applies(4, s) /\ \A j \in 1..3 : ~Applies(j, s)
    BY <1>3, Reasons, RulesByReason
  <2>2. classifyError(s) = RULES[4].class BY <2>1, FirstRule
  <2> QED BY <1>3, <2>2, RuleClasses DEF countsAgainstAttemptBudget, OurOwn
<1>4. CASE cause = "LIMIT_EXCEEDED"
  <2>1. Applies(4, s) /\ \A j \in 1..3 : ~Applies(j, s)
    BY <1>4, Reasons, RulesByReason
  <2>2. classifyError(s) = RULES[4].class BY <2>1, FirstRule
  <2> QED BY <1>4, <2>2, RuleClasses DEF countsAgainstAttemptBudget, OurOwn
<1>5. CASE cause = "OTP_FAILED"
  <2>1. Applies(5, s) /\ \A j \in 1..4 : ~Applies(j, s)
    BY <1>5, Reasons, RulesByReason
  <2>2. classifyError(s) = RULES[5].class BY <2>1, FirstRule
  <2> QED BY <1>5, <2>2, RuleClasses DEF countsAgainstAttemptBudget, OurOwn
<1>6. CASE cause = "USER_CANCELLED"
  <2>1. Applies(5, s) /\ \A j \in 1..4 : ~Applies(j, s)
    BY <1>6, Reasons, RulesByReason
  <2>2. classifyError(s) = RULES[5].class BY <2>1, FirstRule
  <2> QED BY <1>6, <2>2, RuleClasses DEF countsAgainstAttemptBudget, OurOwn
<1>7. CASE cause = "CARD_EXPIRED"
  <2>1. Applies(6, s) /\ \A j \in 1..5 : ~Applies(j, s)
    BY <1>7, Reasons, RulesByReason
  <2>2. classifyError(s) = RULES[6].class BY <2>1, FirstRule
  <2> QED BY <1>7, <2>2, RuleClasses DEF countsAgainstAttemptBudget, OurOwn
<1>8. CASE cause = "CARD_BLOCKED"
  <2>1. Applies(6, s) /\ \A j \in 1..5 : ~Applies(j, s)
    BY <1>8, Reasons, RulesByReason
  <2>2. classifyError(s) = RULES[6].class BY <2>1, FirstRule
  <2> QED BY <1>8, <2>2, RuleClasses DEF countsAgainstAttemptBudget, OurOwn
<1>9. CASE cause = "VPA_INVALID"
  <2>1. Applies(6, s) /\ \A j \in 1..5 : ~Applies(j, s)
    BY <1>9, Reasons, RulesByReason
  <2>2. classifyError(s) = RULES[6].class BY <2>1, FirstRule
  <2> QED BY <1>9, <2>2, RuleClasses DEF countsAgainstAttemptBudget, OurOwn
<1>10. CASE cause = "MANDATE_REVOKED"
  <2>1. Applies(1, s) /\ \A j \in 1..0 : ~Applies(j, s)
    BY <1>10, Reasons, RulesByReason
  <2>2. classifyError(s) = RULES[1].class BY <2>1, FirstRule
  <2> QED BY <1>10, <2>2, RuleClasses DEF countsAgainstAttemptBudget, OurOwn
<1>11. CASE cause = "MANDATE_CAP_EXCEEDED"
  <2>1. Applies(1, s) /\ \A j \in 1..0 : ~Applies(j, s)
    BY <1>11, Reasons, RulesByReason
  <2>2. classifyError(s) = RULES[1].class BY <2>1, FirstRule
  <2> QED BY <1>11, <2>2, RuleClasses DEF countsAgainstAttemptBudget, OurOwn
<1>12. CASE cause = "RISK_DECLINE"
  <2>1. Applies(7, s) /\ \A j \in 1..6 : ~Applies(j, s)
    BY <1>12, Reasons, RulesByReason
  <2>2. classifyError(s) = RULES[7].class BY <2>1, FirstRule
  <2> QED BY <1>12, <2>2, RuleClasses DEF countsAgainstAttemptBudget, OurOwn
<1>13. CASE cause = "MERCHANT_DEFECT"
  <2>1. Applies(2, s) /\ \A j \in 1..1 : ~Applies(j, s)
    BY <1>13, Reasons, RulesByReason
  <2>2. classifyError(s) = RULES[2].class BY <2>1, FirstRule
  <2> QED BY <1>13, <2>2, RuleClasses DEF countsAgainstAttemptBudget, OurOwn
<1>14. CASE cause = "UNKNOWN"
  <2>1. \A j \in 1..11 : ~Applies(j, s)
    BY <1>14, Reasons, RulesByReason, RulesBySource
  <2>2. classifyError(s) = "AMBIGUOUS" BY <2>1, NoRule
  <2> QED BY <1>14, <2>2 DEF countsAgainstAttemptBudget, OurOwn
<1> QED BY <1>1, <1>2, <1>3, <1>4, <1>5, <1>6, <1>7, <1>8, <1>9, <1>10, <1>11, <1>12, <1>13, <1>14 DEF Causes

-----------------------------------------------------------------------------
(* What an event makes of a case *)

Signal(kind, amount, class) == [kind |-> kind, amount |-> amount, class |-> class]

LEMMA SignalsAre ==
  ASSUME NEW a \in Nat, NEW cause \in Causes, NEW s \in SIGNATURES[cause]
  PROVE  /\ toSignal(paymentFailed(a, s)) = Signal("PAYMENT_FAILED", a, classifyError(s))
         /\ toSignal(paymentCaptured(a)) = Signal("PAYMENT_SUCCEEDED", a, None)
         /\ toSignal(orderAbandoned(a)) = Signal("CHECKOUT_ABANDONED", a, None)
         /\ toSignal(subscription("subscription.charged")) = Signal("SUBSCRIPTION_CHARGED", 0, None)
         /\ toSignal(subscription("subscription.halted")) = Signal("SUBSCRIPTION_HALTED", 0, None)
         /\ toSignal(invoice("invoice.paid", a)) = Signal("INVOICE_PAID", a, None)
         /\ toSignal(invoice("invoice.partially_paid", a)) = Signal("INVOICE_PARTIALLY_PAID", a, None)
<1>1. a # None /\ s # None BY NoneAssumption, CausesAre
<1> QED
  BY <1>1
  DEF toSignal, Signal, SIGNAL_KIND_BY_EVENT, paymentFailed, paymentCaptured, orderAbandoned, subscription, invoice, Event

LEMMA SomeSignature == \E cause \in Causes : \E s \in SIGNATURES[cause] : TRUE
<1>1. /\ "UNKNOWN" \in Causes
      /\ Sig("nbfc", "payment_authorization", "payment_failed_unspecified") \in SIGNATURES["UNKNOWN"]
  BY DEF Causes, SIGNATURES
<1> QED BY <1>1

\* Of an obligation.
LEMMA Population ==
  ASSUME NEW i \in Ids
  PROVE  /\ Obligation[i].amount \in Nat \ {0} /\ Obligation[i].dueAt \in Int
         /\ Obligation[i].tdsRatePct \in {None, 1, 2, 10}
         /\ Obligation[i].tdsRatePct # None => 10 * Obligation[i].tdsRatePct \in TdsRates
BY ScenarioAssumption, RatesAssumption
DEF Ids, generatePopulation, generateInstrument, generateObligation

\* The tax that a business keeps back is one that the books find.
LEMMA ShortfallIsFound ==
  ASSUME NEW a \in Nat \ {0}, NEW rate \in {1, 2, 10}, 10 * rate \in TdsRates,
         NEW d, d = (2 * a * rate + 100) \div 200
  PROVE  d \in Nat /\ d < a /\ (d > 0 => Ledger!Deductions(a, a - d) = {d})
<1>1. d \in Nat /\ d < a /\ 200 * d <= 2 * a * rate + 100 /\ 2 * a * rate + 100 < 200 * d + 200
  <2>1. CASE rate = 1 BY <2>1
  <2>2. CASE rate = 2 BY <2>2
  <2>3. CASE rate = 10 BY <2>3
  <2> QED BY <2>1, <2>2, <2>3
<1>2. Ledger!Rounded(a * (10 * rate), 1000) = d
  <2>1. CASE rate = 1 BY <1>1, <2>1 DEF Ledger!Rounded
  <2>2. CASE rate = 2 BY <1>1, <2>2 DEF Ledger!Rounded
  <2>3. CASE rate = 10 BY <1>1, <2>3 DEF Ledger!Rounded
  <2> QED BY <2>1, <2>2, <2>3
<1>3. ASSUME NEW e \in Int, Ledger!Distance(a - (a - d), e) <= 0 PROVE e = d
  BY <1>1, <1>3 DEF Ledger!Distance
<1>4. Ledger!Distance(a - (a - d), d) = 0
  BY <1>1 DEF Ledger!Distance
<1>5. ASSUME NEW r \in TdsRates PROVE Ledger!Rounded(a * r, 1000) \in Int
  <2>1. r \in Nat /\ a * r \in Nat BY RatesAssumption
  <2> QED BY <2>1 DEF Ledger!Rounded
<1>6. a - (a - d) = d BY <1>1
<1> QED BY <1>1, <1>2, <1>3, <1>4, <1>5, <1>6 DEF Ledger!Deductions

\* What is captured is all that is owed, but for the tax that an invoice keeps back.
LEMMA CapturedIs ==
  ASSUME NEW i \in Ids,
         NEW a, a = Obligation[i].amount, NEW p, p = captured(Obligation[i], a)
  PROVE  /\ p \in Nat \ {0} /\ p <= a
         /\ p # a => /\ Obligation[i].portfolio = "b2b_invoice"
                     /\ Ledger!Deductions(a, p) = {a - p}
<1> DEFINE o == Obligation[i]
           d == (2 * a * o.tdsRatePct + 100) \div 200
<1>1. a \in Nat \ {0} BY Population
<1>2. CASE o.portfolio = "b2b_invoice" /\ o.tdsRatePct # None
  <2>1. o.tdsRatePct \in {1, 2, 10} /\ 10 * o.tdsRatePct \in TdsRates BY <1>2, Population
  <2>2. p = a - d BY <1>2 DEF captured
  <2>3. d \in Nat /\ d < a /\ (d > 0 => Ledger!Deductions(a, a - d) = {d})
    BY <1>1, <2>1, ShortfallIsFound
  <2> HIDE DEF d, o
  <2>4. a - p = d /\ (p # a => d > 0) BY <1>1, <2>2, <2>3
  <2> QED BY <1>1, <1>2, <2>2, <2>3, <2>4 DEF o
<1>3. CASE ~(o.portfolio = "b2b_invoice" /\ o.tdsRatePct # None)
  BY <1>1, <1>3 DEF captured
<1> QED BY <1>2, <1>3

\* A case of an obligation; with nothing paid; and paid for.
Fits(c, i) ==
  /\ c \in Cases /\ c.amount = Obligation[i].amount
  /\ c.invoice = (Obligation[i].portfolio = "b2b_invoice")

Unpaid(c, i) == Fits(c, i) /\ c.paid = 0 /\ c.tax = 0 /\ c.state # "RECOVERED"

PaidUp(c, i) == Fits(c, i) /\ Owed(c) <= 0 /\ c.state = "RECOVERED" /\ c.resolvedAt \in Int

\* A payment is booked, its tax is found, and the case is recovered.
LEMMA PaymentIsBooked ==
  ASSUME NEW i \in Ids, NEW c, Unpaid(c, i), now \in Int,
         NEW p, p = captured(Obligation[i], c.amount)
  PROVE  LET d == After(c, i, paymentCaptured(p))
         IN  /\ PaidUp(d, i) /\ d.paid = p /\ d.resolvedAt = now
             /\ d.attemptCount = c.attemptCount /\ d.nextDecisionAt = c.nextDecisionAt
<1> DEFINE a == c.amount
           s == Signal("PAYMENT_SUCCEEDED", p, None)
           b == [c EXCEPT !.paid = p]
<1>1. /\ c \in Cases /\ a \in Nat /\ c.paid = 0 /\ c.tax = 0 /\ c.state # "RECOVERED"
      /\ a = Obligation[i].amount /\ c.invoice = (Obligation[i].portfolio = "b2b_invoice")
  BY DEF Unpaid, Fits, Cases
<1>2. /\ p \in Nat \ {0} /\ p <= a
      /\ p # a => c.invoice /\ Ledger!Deductions(a, p) = {a - p}
  BY <1>1, CapturedIs
<1>3. toSignal(paymentCaptured(p)) = s
  BY <1>2, SomeSignature, SignalsAre
<1>4. Billed(c, s) = c BY <1>1, <1>2 DEF Billed, Signal, Cases
<1>5. applySignal(c, s) = b BY <1>1, <1>2 DEF applySignal, Signal, Cases
<1>6. b \in Cases /\ b.paid = p /\ b.amount = a /\ b.tax = 0 /\ b.invoice = c.invoice
      /\ b.attemptCount = c.attemptCount /\ b.nextDecisionAt = c.nextDecisionAt
      /\ b.state = c.state
  BY <1>1, <1>2 DEF Cases
<1> DEFINE t == Taxed(b)
<1>7. t = [b EXCEPT !.tax = a - p]
  <2>1. Owed(b) = a - p BY <1>1, <1>2, <1>6 DEF Owed
  <2>2. CASE p = a
    <3>1. t = b BY <1>1, <2>1, <2>2 DEF Taxed
    <3>2. b.tax = a - p BY <1>1, <1>6, <2>2
    <3> QED BY <1>6, <3>1, <3>2 DEF Cases
  <2>3. CASE p # a
    <3>1. Owed(b) > 0 /\ b.paid > 0 BY <1>1, <1>2, <1>6, <2>1, <2>3
    <3>2. Ledger!Deductions(b.amount, b.paid) = {a - p} BY <1>2, <1>6, <2>3
    <3>3. t = [b EXCEPT !.tax = @ + CHOOSE x \in {a - p} : TRUE]
      BY <1>2, <1>6, <2>3, <3>1, <3>2 DEF Taxed
    <3>4. (CHOOSE x \in {a - p} : TRUE) = a - p OBVIOUS
    <3>5. b.tax + (CHOOSE x \in {a - p} : TRUE) = a - p BY <1>1, <1>2, <1>6, <3>4
    <3> QED BY <3>3, <3>5, Zenon
  <2> QED BY <2>2, <2>3
<1> HIDE DEF t, b, s
<1>8. t \in Cases /\ t.tax = a - p /\ t.paid = p /\ t.amount = a /\ t.invoice = c.invoice
      /\ t.attemptCount = c.attemptCount /\ t.nextDecisionAt = c.nextDecisionAt /\ t.state = c.state
  BY <1>1, <1>2, <1>6, <1>7 DEF Cases
<1>9. Owed(t) = 0 BY <1>1, <1>2, <1>8 DEF Owed
<1>10. Marked(t) = [t EXCEPT !.state = "RECOVERED", !.resolvedAt = now]
  BY <1>1, <1>8, <1>9 DEF Marked
<1>11. After(c, i, paymentCaptured(p)) = Marked(t)
  BY <1>1, <1>3, <1>4, <1>5, NoneAssumption DEF After, project, t
<1> DEFINE r == Marked(t)
<1>12. /\ r \in Cases /\ r.amount = a /\ r.invoice = c.invoice /\ r.paid = p /\ r.tax = t.tax
       /\ r.state = "RECOVERED" /\ r.resolvedAt = now
       /\ r.attemptCount = c.attemptCount /\ r.nextDecisionAt = c.nextDecisionAt
  BY <1>8, <1>10 DEF Cases
<1>13. Owed(r) = Owed(t) BY <1>8, <1>12 DEF Owed
<1> HIDE DEF r
<1>14. PaidUp(r, i) BY <1>1, <1>9, <1>12, <1>13 DEF PaidUp, Fits
<1> QED BY <1>11, <1>12, <1>14 DEF r

\* What reports the payment again changes nothing.
LEMMA ReportIsNothing ==
  ASSUME NEW i, NEW c, PaidUp(c, i), NEW e, NEW s, toSignal(e) = s,
         s.kind \in {"SUBSCRIPTION_CHARGED", "INVOICE_PAID", "INVOICE_PARTIALLY_PAID"},
         s.amount \in Nat, s.amount <= c.amount
  PROVE  After(c, i, e) = c
<1>1. c \in Cases /\ Owed(c) <= 0 /\ Owed(c) \in Int /\ c.state = "RECOVERED"
  BY DEF PaidUp, Fits, Cases, Owed
<1>2. Billed(c, s) = c BY <1>1 DEF Billed, Cases
<1>3. applySignal(c, s) = c BY DEF applySignal
<1>4. Taxed(c) = c BY <1>1 DEF Taxed
<1>5. Marked(c) = c BY <1>1 DEF Marked
<1> QED BY <1>1, <1>2, <1>3, <1>4, <1>5, NoneAssumption DEF After, project

Count(cause) == IF cause \in OurOwn THEN 0 ELSE 1

\* A signal of what is owed, or of nothing, that does not pay.
LEMMA UnpaidStays ==
  ASSUME NEW i, NEW c, Unpaid(c, i), c.amount > 0, NEW s,
         s.kind \in {"PAYMENT_FAILED", "SUBSCRIPTION_HALTED", "CHECKOUT_ABANDONED"},
         s.amount \in {0, c.amount},
         NEW n \in {0, 1},
         n = IF s.kind = "PAYMENT_FAILED" /\ countsAgainstAttemptBudget(s.class) THEN 1 ELSE 0
  PROVE  LET d == Marked(Taxed(applySignal(Billed(c, s), s)))
         IN  /\ Unpaid(d, i) /\ d.attemptCount = c.attemptCount + n
             /\ d.state = c.state /\ d.nextDecisionAt = c.nextDecisionAt
<1> DEFINE b == [c EXCEPT !.attemptCount = @ + n]
<1>1. /\ c \in Cases /\ c.amount \in Nat /\ c.attemptCount \in Nat
      /\ c.paid = 0 /\ c.tax = 0 /\ c.state # "RECOVERED"
  BY DEF Unpaid, Fits, Cases
<1>2. Billed(c, s) = c BY <1>1 DEF Billed, Cases
<1>3. applySignal(c, s) = b
  <2>1. CASE n = 1 BY <1>1, <2>1 DEF applySignal, Cases
  <2>2. CASE n = 0
    <3>1. applySignal(c, s) = c BY <2>2 DEF applySignal
    <3> QED BY <1>1, <2>2, <3>1 DEF Cases
  <2> QED BY <2>1, <2>2
<1>4. /\ b \in Cases /\ b.amount = c.amount /\ b.paid = 0 /\ b.tax = 0 /\ b.state = c.state
      /\ b.invoice = c.invoice /\ b.attemptCount = c.attemptCount + n
      /\ b.nextDecisionAt = c.nextDecisionAt
  BY <1>1 DEF Cases
<1> HIDE DEF b
<1>5. Owed(b) = c.amount BY <1>1, <1>4 DEF Owed
<1>6. Taxed(b) = b BY <1>4 DEF Taxed
<1>7. Marked(b) = b BY <1>1, <1>4, <1>5 DEF Marked
<1> QED BY <1>1, <1>2, <1>3, <1>4, <1>6, <1>7 DEF Unpaid, Fits

LEMMA FailureIsBooked ==
  ASSUME NEW i \in Ids, NEW c, Unpaid(c, i), NEW cause \in Causes, NEW x \in SIGNATURES[cause]
  PROVE  LET d == After(c, i, paymentFailed(c.amount, x))
         IN  /\ Unpaid(d, i) /\ d.attemptCount = c.attemptCount + Count(cause)
             /\ d.state = c.state /\ d.nextDecisionAt = c.nextDecisionAt
<1> DEFINE s == Signal("PAYMENT_FAILED", c.amount, classifyError(x))
<1>1. c \in Cases /\ c.amount \in Nat \ {0}
  BY Population DEF Unpaid, Fits
<1>2. toSignal(paymentFailed(c.amount, x)) = s BY <1>1, SignalsAre
<1>3. Count(cause) \in {0, 1}
      /\ Count(cause) = IF s.kind = "PAYMENT_FAILED" /\ countsAgainstAttemptBudget(s.class) THEN 1 ELSE 0
  BY CountsIs DEF Count, Signal
<1>4. s.kind = "PAYMENT_FAILED" /\ s.amount = c.amount BY DEF Signal
<1> HIDE DEF s
<1>5. After(c, i, paymentFailed(c.amount, x)) = Marked(Taxed(applySignal(Billed(c, s), s)))
  BY <1>1, <1>2, NoneAssumption DEF After, project
<1> QED BY <1>1, <1>3, <1>4, <1>5, UnpaidStays

LEMMA HaltIsBooked ==
  ASSUME NEW i \in Ids, NEW c, Unpaid(c, i)
  PROVE  LET d == After(c, i, subscription("subscription.halted"))
         IN  /\ Unpaid(d, i) /\ d.attemptCount = c.attemptCount
             /\ d.state = c.state /\ d.nextDecisionAt = c.nextDecisionAt
<1> DEFINE s == Signal("SUBSCRIPTION_HALTED", 0, None)
<1>1. c \in Cases /\ c.amount \in Nat \ {0} /\ c.attemptCount \in Nat
  BY Population DEF Unpaid, Fits, Cases
<1>2. toSignal(subscription("subscription.halted")) = s BY SomeSignature, SignalsAre
<1>3. s.kind = "SUBSCRIPTION_HALTED" /\ s.amount = 0 BY DEF Signal
<1> HIDE DEF s
<1>4. After(c, i, subscription("subscription.halted")) = Marked(Taxed(applySignal(Billed(c, s), s)))
  BY <1>1, <1>2, NoneAssumption DEF After, project
<1>5. LET d == Marked(Taxed(applySignal(Billed(c, s), s)))
      IN  /\ Unpaid(d, i) /\ d.attemptCount = c.attemptCount + 0
          /\ d.state = c.state /\ d.nextDecisionAt = c.nextDecisionAt
  BY <1>1, <1>3, UnpaidStays
<1> QED BY <1>1, <1>4, <1>5

\* What opens a case, for all that is owed.
LEMMA OpensUnpaid ==
  ASSUME NEW i \in Ids, now \in Int, NEW s, s.amount = Obligation[i].amount,
         s.kind \in {"PAYMENT_FAILED", "CHECKOUT_ABANDONED"},
         NEW n \in {0, 1},
         n = IF s.kind = "PAYMENT_FAILED" /\ countsAgainstAttemptBudget(s.class) THEN 1 ELSE 0
  PROVE  LET d == project(None, i, s)
         IN  /\ Unpaid(d, i) /\ d.attemptCount = n /\ d.nextDecisionAt = now
<1> DEFINE c == openCase(i, s)
<1>1. s.amount \in Nat \ {0} BY Population
<1>2. /\ Unpaid(c, i) /\ c.amount = s.amount /\ c.attemptCount = 0 /\ c.nextDecisionAt = now
  BY <1>1 DEF openCase, Unpaid, Fits, Cases
<1>3. project(None, i, s) = Marked(Taxed(applySignal(c, s)))
  BY <1>1 DEF project, Opens
<1>4. Billed(c, s) = c
  BY <1>1 DEF Billed, openCase
<1> HIDE DEF c
<1>5. LET d == Marked(Taxed(applySignal(Billed(c, s), s)))
      IN  Unpaid(d, i) /\ d.attemptCount = c.attemptCount + n /\ d.nextDecisionAt = c.nextDecisionAt
  BY <1>1, <1>2, UnpaidStays
<1> QED BY <1>2, <1>3, <1>4, <1>5

LEMMA FailureOpens ==
  ASSUME NEW i \in Ids, now \in Int, NEW cause \in Causes, NEW x \in SIGNATURES[cause]
  PROVE  LET d == After(None, i, paymentFailed(Obligation[i].amount, x))
         IN  Unpaid(d, i) /\ d.attemptCount = Count(cause) /\ d.nextDecisionAt = now
<1> DEFINE s == Signal("PAYMENT_FAILED", Obligation[i].amount, classifyError(x))
<1>1. toSignal(paymentFailed(Obligation[i].amount, x)) = s BY Population, SignalsAre
<1>2. /\ Count(cause) \in {0, 1} /\ s.kind = "PAYMENT_FAILED" /\ s.amount = Obligation[i].amount
      /\ Count(cause) = IF s.kind = "PAYMENT_FAILED" /\ countsAgainstAttemptBudget(s.class) THEN 1 ELSE 0
  BY CountsIs DEF Count, Signal
<1> HIDE DEF s
<1> QED BY <1>1, <1>2, OpensUnpaid DEF After

LEMMA AbandonmentOpens ==
  ASSUME NEW i \in Ids, now \in Int
  PROVE  LET d == After(None, i, orderAbandoned(Obligation[i].amount))
         IN  Unpaid(d, i) /\ d.attemptCount = 0 /\ d.nextDecisionAt = now
<1> DEFINE s == Signal("CHECKOUT_ABANDONED", Obligation[i].amount, None)
<1>1. toSignal(orderAbandoned(Obligation[i].amount)) = s
  BY Population, SomeSignature, SignalsAre
<1>2. s.kind = "CHECKOUT_ABANDONED" /\ s.amount = Obligation[i].amount
  BY DEF Signal
<1> HIDE DEF s
<1> QED BY <1>1, <1>2, OpensUnpaid DEF After

\* Nothing else does.
LEMMA StaysNone ==
  ASSUME NEW i, NEW e,
         toSignal(e).kind \notin {"PAYMENT_FAILED", "SUBSCRIPTION_HALTED", "CHECKOUT_ABANDONED"}
  PROVE  After(None, i, e) = None
BY DEF After, project, Opens

-----------------------------------------------------------------------------
(* The books: BooksMatchWorld *)

\* An obligation of the world.
States(i) ==
  {w \in [attempts : Nat, settled : Nat, resolved : BOOLEAN, halted : BOOLEAN] :
     w.settled <= Obligation[i].amount}

\* A case that is there agrees with the world; one that is not was blamed for
\* nothing.
Agree(i, w, c, b) ==
  /\ c = None => b = 0
  /\ c # None =>
       /\ c.attemptCount = b /\ c.paid = w.settled
       /\ w.settled = 0 => Unpaid(c, i)
       /\ w.settled > 0 => PaidUp(c, i)

CaseFits(i) == Agree(i, world[i], cases[i], blamed[i])

BooksTyped ==
  /\ now \in Int /\ \A t \in agenda : t.at \in Int
  /\ world \in [Ids -> [attempts : Nat, settled : Nat, resolved : BOOLEAN, halted : BOOLEAN]]
  /\ \A i \in Ids : world[i] \in States(i)
  /\ cases \in [Ids -> Cases \cup {None}] /\ blamed \in [Ids -> Nat]

IsDue(t) == t.work.label = "obligation-due"

\* An obligation falls due once, and before that nothing is known of it.
Untouched(i) == cases[i] = None /\ world[i].settled = 0

DueOnce ==
  /\ \A t \in agenda : IsDue(t) => t.work.of \in Ids /\ Untouched(t.work.of)
  /\ \A t, u \in agenda : IsDue(t) /\ IsDue(u) /\ t.work.of = u.work.of => t = u
  /\ pc = "obligation-due" =>
       task \in Ids /\ Untouched(task) /\ \A t \in agenda : IsDue(t) => t.work.of # task

RowsFit == \A r \in rows : r.case \in Ids /\ cases[r.case] # None

BooksInv == BooksTyped /\ (\A i \in Ids : CaseFits(i)) /\ DueOnce /\ RowsFit

LEMMA BooksInvSuffices == BooksInv => BooksMatchWorld
<1> SUFFICES ASSUME BooksInv, NEW i \in Ids PROVE
      /\ world[i].settled <= Obligation[i].amount
      /\ cases[i] # None =>
           /\ cases[i].paid = world[i].settled /\ cases[i].amount = Obligation[i].amount
           /\ cases[i].attemptCount = blamed[i]
           /\ cases[i].state = "RECOVERED" <=> world[i].settled > 0
  BY DEF BooksMatchWorld
<1>1. world[i].settled \in Nat /\ world[i].settled <= Obligation[i].amount
  BY DEF BooksInv, BooksTyped, States
<1>2. CaseFits(i) BY DEF BooksInv
<1>3. ASSUME cases[i] # None, world[i].settled = 0
      PROVE  cases[i].amount = Obligation[i].amount /\ cases[i].state # "RECOVERED"
  BY <1>2, <1>3 DEF CaseFits, Agree, Unpaid, Fits
<1>4. ASSUME cases[i] # None, world[i].settled > 0
      PROVE  cases[i].amount = Obligation[i].amount /\ cases[i].state = "RECOVERED"
  BY <1>2, <1>4 DEF CaseFits, Agree, PaidUp, Fits
<1> QED BY <1>1, <1>2, <1>3, <1>4 DEF CaseFits, Agree

Before(i) == i \in Ids /\ BooksTyped /\ CaseFits(i) /\ world[i].settled = 0

LEMMA BeforeIs ==
  ASSUME NEW i, Before(i)
  PROVE  /\ i \in Ids /\ now \in Int /\ world[i] \in States(i) /\ world[i].settled = 0
         /\ Agree(i, world[i], cases[i], blamed[i])
         /\ cases[i] = None => blamed[i] = 0
         /\ cases[i] # None => Unpaid(cases[i], i) /\ cases[i].amount = Obligation[i].amount
                               /\ cases[i].attemptCount = blamed[i] /\ cases[i].paid = 0
         /\ cases \in [Ids -> Cases \cup {None}] /\ blamed[i] \in Nat
         /\ DOMAIN world = Ids /\ DOMAIN cases = Ids /\ DOMAIN blamed = Ids
         /\ Obligation[i].amount \in Nat \ {0}
         /\ outstandingOf(Obligation[i], world[i]) = Obligation[i].amount
<1>1. world[i].settled \in Nat /\ Obligation[i].amount \in Nat \ {0}
  BY Population DEF Before, BooksTyped
<1> QED
  BY <1>1 DEF Before, BooksTyped, CaseFits, Agree, Unpaid, Fits, outstandingOf

\* A step that books for i, as long as i has not paid: to what its parts become.
Becomes(i, w, c, b) ==
  /\ world' = [world EXCEPT ![i] = w] /\ w \in States(i)
  /\ cases' = [cases EXCEPT ![i] = c] /\ c \in Cases \cup {None}
  /\ blamed' = [blamed EXCEPT ![i] = b] /\ b \in Nat
  /\ Agree(i, w, c, b)
  /\ cases[i] # None => c # None /\ c.nextDecisionAt = cases[i].nextDecisionAt
  /\ c # None /\ c.state = "RECOVERED" => c.resolvedAt = now

Moved(i) == \E w, c, b : Becomes(i, w, c, b)

LEMMA UnpaidIsNotRecovered ==
  ASSUME NEW i, NEW c, Unpaid(c, i)
  PROVE  c \in Cases /\ c # None /\ c.paid = 0 /\ c.state # "RECOVERED"
BY NoneAssumption DEF Unpaid, Fits

LEMMA NothingMoves ==
  ASSUME NEW i, Before(i), UNCHANGED <<world, cases, blamed>>
  PROVE  Moved(i)
<1>1. cases[i] # None => cases[i].state # "RECOVERED"
  BY BeforeIs, UnpaidIsNotRecovered
<1>2. /\ world' = [world EXCEPT ![i] = world[i]] /\ cases' = [cases EXCEPT ![i] = cases[i]]
      /\ blamed' = [blamed EXCEPT ![i] = blamed[i]]
  BY BeforeIs DEF Before, BooksTyped
<1>3. Becomes(i, world[i], cases[i], blamed[i])
  BY <1>1, <1>2, BeforeIs DEF Becomes
<1> QED BY <1>3 DEF Moved

\* Events that do not pay leave the obligation unpaid.
LEMMA UnpaidMoves ==
  ASSUME NEW i, Before(i),
         NEW w, w \in States(i), w.settled = 0, world' = [world EXCEPT ![i] = w],
         NEW c, Unpaid(c, i), cases' = [cases EXCEPT ![i] = c],
         NEW n \in Nat, c.attemptCount = blamed[i] + n, blamed' = [blamed EXCEPT ![i] = @ + n],
         cases[i] # None => c.nextDecisionAt = cases[i].nextDecisionAt
  PROVE  Moved(i)
<1> DEFINE b == blamed[i] + n
<1>1. b \in Nat /\ blamed' = [blamed EXCEPT ![i] = b] BY BeforeIs
<1>2. c \in Cases /\ c # None /\ c.paid = 0 /\ c.state # "RECOVERED" BY UnpaidIsNotRecovered
<1>3. Agree(i, w, c, b) BY <1>2 DEF Agree
<1>4. Becomes(i, w, c, b) BY <1>1, <1>2, <1>3 DEF Becomes
<1> QED BY <1>4 DEF Moved

LEMMA Settled ==
  ASSUME NEW i, Before(i), NEW p, p = captured(Obligation[i], Obligation[i].amount)
  PROVE  settle(Obligation[i], world[i]) \in States(i) /\ settle(Obligation[i], world[i]).settled = p
<1> DEFINE o == Obligation[i]
           w == world[i]
           S == [attempts : Nat, settled : Nat, resolved : BOOLEAN, halted : BOOLEAN]
<1>1. /\ w \in S /\ w.settled = 0 /\ outstandingOf(o, w) = o.amount
      /\ o.amount \in Nat \ {0} /\ p \in Nat \ {0} /\ p <= o.amount
  BY BeforeIs, CapturedIs DEF States
<1>2. settle(o, w) = [w EXCEPT !.settled = @ + p, !.resolved = (w.settled + p >= o.amount)]
  BY <1>1, Zenon DEF settle
<1> HIDE DEF w, o
<1> DEFINE n == w.settled + p
           r == n >= o.amount
           v == [w EXCEPT !.settled = n, !.resolved = r]
<1>3. n = p /\ n \in Nat BY <1>1
<1>4. r \in BOOLEAN OBVIOUS
<1>5. settle(o, w) = v BY <1>2
<1> HIDE DEF n, r
<1>6. v \in S /\ v.settled = n BY <1>1, <1>3, <1>4
<1> QED BY <1>1, <1>3, <1>5, <1>6 DEF States, o, w

LEMMA Short ==
  ASSUME NEW x, NEW y
  PROVE  /\ <<x>> \o <<>> = <<x>> /\ <<x, y>> \o <<>> = <<x, y>> /\ <<x>> \o <<y>> = <<x, y>>
<1>1. /\ <<x>> \in Seq({x, y}) /\ <<y>> \in Seq({x, y}) /\ <<x, y>> \in Seq({x, y})
  OBVIOUS
<1>2. <<x>> \o <<>> = <<x>> /\ <<x, y>> \o <<>> = <<x, y>> BY <1>1
<1>3. <<x>> \o <<y>> = <<x, y>>
  <2> DEFINE z == <<x>> \o <<y>>
  <2>1. z \in Seq({x, y}) /\ Len(z) = 2 /\ z[1] = x /\ z[2] = y
    BY <1>1, ConcatProperties
  <2> HIDE DEF z
  <2>2. Len(<<x, y>>) = 2 /\ \A i \in 1..2 : z[i] = <<x, y>>[i]
    BY <2>1
  <2>3. z = <<x, y>> BY <1>1, <2>1, <2>2, SeqEqual
  <2> QED BY <2>3 DEF z
<1> QED BY <1>2, <1>3

LEMMA DeliveredIs ==
  ASSUME NEW i, NEW events, Delivered(i, events)
  PROVE  cases' = [cases EXCEPT ![i] = Booked(@, i, events)]
BY Zenon DEF Delivered

LEMMA SettlesMoves ==
  ASSUME NEW i, Before(i), Settles(i)
  PROVE  Moved(i)
<1> DEFINE o == Obligation[i]
           a == o.amount
           p == captured(o, a)
           first == paymentCaptured(p)
           w == settle(o, world[i])
           invoiced == invoice(IF w.resolved THEN "invoice.paid" ELSE "invoice.partially_paid", a)
           charged == subscription("subscription.charged")
<1>1. p \in Nat \ {0} /\ p <= a /\ a \in Nat \ {0} BY BeforeIs, CapturedIs
<1>3. w \in States(i) /\ w.settled = p BY Settled
<1>4. /\ world' = [world EXCEPT ![i] = w] /\ blamed' = blamed
      /\ \E second \in {invoiced, charged} :
           \/ cases' = [cases EXCEPT ![i] = Booked(@, i, <<first>>)]
           \/ cases' = [cases EXCEPT ![i] = Booked(@, i, <<first, second>>)]
  <2>1. /\ world' = [world EXCEPT ![i] = w] /\ blamed' = blamed
        /\ Delivered(i,
             (<<paymentCaptured(captured(o, outstandingOf(o, world[i])))>>
               \o (IF o.portfolio = "b2b_invoice" THEN <<invoiced>> ELSE <<>>))
               \o (IF o.portfolio = "d2c_subscription" /\ w.resolved THEN <<charged>> ELSE <<>>))
    BY Zenon DEF Settles
  <2>2. /\ world' = [world EXCEPT ![i] = w] /\ blamed' = blamed
        /\ cases' = [cases EXCEPT ![i] = Booked(@, i,
             (<<first>> \o (IF o.portfolio = "b2b_invoice" THEN <<invoiced>> ELSE <<>>))
               \o (IF o.portfolio = "d2c_subscription" /\ w.resolved THEN <<charged>> ELSE <<>>))]
    <3>1. outstandingOf(o, world[i]) = a BY BeforeIs
    <3>2. first = paymentCaptured(captured(o, outstandingOf(o, world[i]))) BY <3>1
    <3> HIDE DEF first, invoiced, charged, w
    <3> QED BY <2>1, <3>2, DeliveredIs
  <2>3. \A x, y : <<x>> \o <<>> = <<x>> /\ <<x>> \o <<y>> = <<x, y>>
                  /\ <<x, y>> \o <<>> = <<x, y>>
    BY Short
  <2> HIDE DEF first, invoiced, charged
  <2>4. CASE o.portfolio = "b2b_invoice"
    <3>1. o.portfolio # "d2c_subscription" BY <2>4
    <3> QED BY <2>2, <2>3, <2>4, <3>1
  <2>5. CASE o.portfolio # "b2b_invoice" BY <2>2, <2>3, <2>5
  <2> QED BY <2>4, <2>5
<1>5. PICK second \in {invoiced, charged} :
        \/ cases' = [cases EXCEPT ![i] = Booked(@, i, <<first>>)]
        \/ cases' = [cases EXCEPT ![i] = Booked(@, i, <<first, second>>)]
  BY <1>4
<1>6. /\ toSignal(second).kind \in {"SUBSCRIPTION_CHARGED", "INVOICE_PAID", "INVOICE_PARTIALLY_PAID"}
      /\ toSignal(second).amount \in Nat /\ toSignal(second).amount <= a
      /\ toSignal(first).kind = "PAYMENT_SUCCEEDED"
  BY <1>1, <1>5, SomeSignature, SignalsAre DEF Signal
<1> HIDE DEF invoiced, charged, first, a, p, w
<1> DEFINE c == After(cases[i], i, first)
<1>7. CASE cases[i] = None
  <2>1. c = None BY <1>6, <1>7, StaysNone
  <2>2. After(c, i, second) = None BY <1>6, <2>1, StaysNone
  <2>3. cases' = [cases EXCEPT ![i] = None] BY <1>5, <2>1, <2>2, BookedOne, BookedTwo
  <2>4. Agree(i, w, None, blamed[i]) BY <1>7, BeforeIs DEF Agree
  <2>5. blamed' = [blamed EXCEPT ![i] = blamed[i]] BY <1>4 DEF Before, BooksTyped
  <2>6. Becomes(i, w, None, blamed[i]) BY <1>3, <1>4, <1>7, <2>3, <2>4, <2>5, BeforeIs DEF Becomes
  <2> QED BY <2>6 DEF Moved
<1>8. CASE cases[i] # None
  <2>1. /\ PaidUp(c, i) /\ c.paid = p /\ c.resolvedAt = now
        /\ c.attemptCount = blamed[i] /\ c.nextDecisionAt = cases[i].nextDecisionAt
    BY <1>8, BeforeIs, PaymentIsBooked DEF first, p, a
  <2>2. c.amount = a BY <2>1 DEF PaidUp, Fits, a
  <2>3. c \in Cases /\ c # None BY <2>1, NoneAssumption DEF PaidUp, Fits
  <2> HIDE DEF c
  <2>4. After(c, i, second) = c BY <1>6, <2>1, <2>2, ReportIsNothing
  <2>5. cases' = [cases EXCEPT ![i] = c] BY <1>5, <2>4, BookedOne, BookedTwo DEF c
  <2>6. Agree(i, w, c, blamed[i]) BY <1>1, <1>3, <2>1, <2>3 DEF Agree
  <2>7. blamed' = [blamed EXCEPT ![i] = blamed[i]] BY <1>4 DEF Before, BooksTyped
  <2>8. Becomes(i, w, c, blamed[i])
    BY <1>3, <1>4, <1>8, <2>1, <2>3, <2>5, <2>6, <2>7, BeforeIs DEF Becomes
  <2> QED BY <2>8 DEF Moved
<1> QED BY <1>7, <1>8

\* An attempt that failed changes neither what was settled nor what is owed.
LEMMA Tried ==
  ASSUME NEW i, Before(i), NEW h \in BOOLEAN,
         NEW v, v = Attempted(world[i]), NEW w, w = [v EXCEPT !.halted = h]
  PROVE  /\ w \in States(i) /\ w.settled = 0
         /\ outstandingOf(Obligation[i], v) = Obligation[i].amount
<1>1. /\ world[i] \in [attempts : Nat, settled : Nat, resolved : BOOLEAN, halted : BOOLEAN]
      /\ world[i].settled = 0 /\ Obligation[i].amount \in Nat
  BY BeforeIs DEF States
<1>2. v \in [attempts : Nat, settled : Nat, resolved : BOOLEAN, halted : BOOLEAN] /\ v.settled = 0
  BY <1>1 DEF Attempted
<1>3. w \in [attempts : Nat, settled : Nat, resolved : BOOLEAN, halted : BOOLEAN] /\ w.settled = 0
  BY <1>2
<1> QED BY <1>1, <1>2, <1>3 DEF States, outstandingOf

\* A charge that failed, before the subscription halts.
LEMMA FailureMakes ==
  ASSUME NEW i, Before(i), NEW cause \in Causes, NEW x \in SIGNATURES[cause],
         NEW c, c = After(cases[i], i, paymentFailed(Obligation[i].amount, x))
  PROVE  /\ Unpaid(c, i) /\ c.attemptCount = blamed[i] + Count(cause)
         /\ cases[i] # None => c.nextDecisionAt = cases[i].nextDecisionAt
<1>1. Count(cause) \in Nat BY DEF Count
<1>2. CASE cases[i] = None BY <1>1, <1>2, BeforeIs, FailureOpens
<1>3. CASE cases[i] # None BY <1>3, BeforeIs, FailureIsBooked
<1> QED BY <1>2, <1>3

LEMMA FailsMoves ==
  ASSUME NEW i, Before(i), NEW cause \in Causes, Fails(i, cause)
  PROVE  Moved(i)
<1> DEFINE o == Obligation[i]
           v == Attempted(world[i])
           h == Halts(o, v)
           w == [v EXCEPT !.halted = h]
           halted == subscription("subscription.halted")
<1>1. PICK x \in SIGNATURES[cause] :
        /\ world' = [world EXCEPT ![i] = w]
        /\ Delivered(i, <<paymentFailed(outstandingOf(o, v), x)>> \o (IF h THEN <<halted>> ELSE <<>>))
        /\ blamed' = [blamed EXCEPT ![i] = @ + (IF cause \in OurOwn THEN 0 ELSE 1)]
  BY Zenon DEF Fails
<1>2. h \in BOOLEAN BY DEF Halts
<1>3. /\ w \in States(i) /\ w.settled = 0 /\ outstandingOf(o, v) = o.amount
  BY <1>2, Tried
<1> DEFINE first == paymentFailed(o.amount, x)
           c == After(cases[i], i, first)
           d == After(c, i, halted)
<1>4. /\ Unpaid(c, i) /\ c.attemptCount = blamed[i] + Count(cause)
      /\ cases[i] # None => c.nextDecisionAt = cases[i].nextDecisionAt
  BY FailureMakes
<1>5. /\ Unpaid(d, i) /\ d.attemptCount = c.attemptCount /\ d.nextDecisionAt = c.nextDecisionAt
  BY <1>4, BeforeIs, HaltIsBooked
<1>6. blamed' = [blamed EXCEPT ![i] = @ + Count(cause)] /\ Count(cause) \in Nat
  BY <1>1 DEF Count
<1> HIDE DEF w, halted, first, h
<1>7. \/ Delivered(i, <<first>>) \/ Delivered(i, <<first, halted>>)
  BY <1>1, <1>3, Short DEF first
<1>8. Booked(cases[i], i, <<first>>) = c /\ Booked(cases[i], i, <<first, halted>>) = d
  BY BookedOne, BookedTwo
<1> HIDE DEF c, d
<1>9. cases' = [cases EXCEPT ![i] = c] \/ cases' = [cases EXCEPT ![i] = d]
  BY <1>7, <1>8, DeliveredIs
<1>10. CASE cases' = [cases EXCEPT ![i] = c]
  BY <1>1, <1>3, <1>4, <1>6, <1>10, UnpaidMoves
<1>11. CASE cases' = [cases EXCEPT ![i] = d]
  BY <1>1, <1>3, <1>4, <1>5, <1>6, <1>11, UnpaidMoves
<1> QED BY <1>9, <1>10, <1>11

LEMMA AbandonMoves ==
  ASSUME NEW i, Before(i), cases[i] = None, Abandon(i)
  PROVE  Moved(i)
<1> DEFINE e == orderAbandoned(Obligation[i].amount)
           c == After(None, i, e)
<1>1. Delivered(i, <<e>>) /\ world' = world /\ blamed' = blamed
  BY BeforeIs, Zenon DEF Abandon
<1>2. cases' = [cases EXCEPT ![i] = c] BY <1>1, DeliveredIs, BookedOne
<1>3. Unpaid(c, i) /\ c.attemptCount = 0 BY BeforeIs, AbandonmentOpens
<1> HIDE DEF c
<1>4. /\ world' = [world EXCEPT ![i] = world[i]] /\ blamed' = [blamed EXCEPT ![i] = @ + 0]
      /\ c.attemptCount = blamed[i] + 0
  BY <1>1, <1>3, BeforeIs DEF Before, BooksTyped
<1> QED BY <1>2, <1>3, <1>4, BeforeIs, UnpaidMoves

LEMMA ChargeFails ==
  ASSUME NEW i \in Ids,
         NEW dynamic, NEW amount, NEW at, NEW cause \in attemptCharge(Obligation[i], dynamic, amount, at)
  PROVE  cause = None \/ cause \in Causes
<1> DEFINE o == Obligation[i]
<1>1. o.method \in {"upi", "emandate", "card", "netbanking", "wallet", "nach"}
  <2>1. o.portfolio \in DOMAIN METHOD_WEIGHTS /\ o.method \in METHOD_WEIGHTS[o.portfolio]
    BY ScenarioAssumption DEF Ids, generatePopulation, generateInstrument
  <2> HIDE DEF o
  <2> QED BY <2>1 DEF METHOD_WEIGHTS
<1>2. CustomerPresentCauses[o.method] \subseteq Causes
  BY <1>1 DEF CustomerPresentCauses, Causes
<1> HIDE DEF o
<1>3. FailureCauses(o) \subseteq Causes BY <1>2 DEF FailureCauses, Causes
<1>4. {"MERCHANT_DEFECT", "DOWNTIME", "MANDATE_REVOKED", "MANDATE_CAP_EXCEEDED", "CARD_EXPIRED",
       "VPA_INVALID"} \subseteq Causes
  BY DEF Causes
<1>5. cause \in attemptCharge(o, dynamic, amount, at) BY DEF o
<1> QED BY <1>3, <1>4, <1>5 DEF attemptCharge

LEMMA ChargeMoves ==
  ASSUME NEW i, Before(i), Charge(i)
  PROVE  Moved(i)
<1>1. CASE UNCHANGED <<world, cases, detector, blamed>>
  <2>1. UNCHANGED <<world, cases, blamed>> BY <1>1
  <2> QED BY <2>1, NothingMoves
<1>2. CASE \E cause \in attemptCharge(Obligation[i], people[Obligation[i].account],
                                      outstandingOf(Obligation[i], world[i]), now) :
             IF cause = None THEN Settles(i) ELSE Fails(i, cause)
  <2>1. PICK cause \in attemptCharge(Obligation[i], people[Obligation[i].account],
                                     outstandingOf(Obligation[i], world[i]), now) :
          IF cause = None THEN Settles(i) ELSE Fails(i, cause)
    BY <1>2
  <2>2. cause = None \/ cause \in Causes BY BeforeIs, ChargeFails
  <2>3. CASE cause = None BY <2>1, <2>3, SettlesMoves
  <2>4. CASE cause # None BY <2>1, <2>2, <2>4, FailsMoves
  <2> QED BY <2>3, <2>4
<1> QED BY <1>1, <1>2 DEF Charge

LEMMA ContactMoves ==
  ASSUME NEW i, Before(i), Contact(i)
  PROVE  Moved(i)
<1>1. Settles(i) \/ UNCHANGED <<world, cases, blamed>> BY DEF Contact
<1> QED BY <1>1, SettlesMoves, NothingMoves

\* A step that leaves the books alone, and runs no obligation that is due.
LEMMA StillTrue ==
  ASSUME BooksInv, UNCHANGED <<now, agenda, world, cases, blamed>>, rows' \subseteq rows,
         pc' # "obligation-due"
  PROVE  BooksInv'
<1>1. BooksTyped' BY DEF BooksInv, BooksTyped, States
<1>2. \A i \in Ids : CaseFits(i)' BY DEF BooksInv, CaseFits
<1>3. DueOnce' BY DEF BooksInv, DueOnce, Untouched
<1>4. RowsFit' BY DEF BooksInv, RowsFit
<1> QED BY <1>1, <1>2, <1>3, <1>4 DEF BooksInv

LEMMA MovedIs ==
  ASSUME BooksInv, NEW i, Before(i), Moved(i), UNCHANGED <<now, agenda>>
  PROVE  /\ BooksTyped' /\ \A j \in Ids : CaseFits(j)'
         /\ \A j \in Ids : cases[j] # None => cases'[j] # None
         /\ \A j \in Ids \ {i} : Untouched(j) => Untouched(j)'
<1>1. PICK w, c, b : Becomes(i, w, c, b) BY DEF Moved
<1>2. i \in Ids /\ BooksTyped BY DEF Before
<1>3. BooksTyped'
  BY <1>1, <1>2 DEF BooksTyped, Becomes, States
<1>4. ASSUME NEW j \in Ids PROVE CaseFits(j)'
  <2>1. CASE j = i
    <3>1. world'[j] = w /\ cases'[j] = c /\ blamed'[j] = b
      BY <1>1, <1>2, <2>1 DEF BooksTyped, Becomes
    <3> QED BY <1>1, <2>1, <3>1 DEF CaseFits, Becomes
  <2>2. CASE j # i
    <3>1. world'[j] = world[j] /\ cases'[j] = cases[j] /\ blamed'[j] = blamed[j]
      BY <1>1, <1>2, <2>2 DEF BooksTyped, Becomes
    <3> QED BY <3>1 DEF BooksInv, CaseFits
  <2> QED BY <2>1, <2>2
<1>5. \A j \in Ids : cases[j] # None => cases'[j] # None
  BY <1>1, <1>2 DEF BooksTyped, Becomes
<1>6. \A j \in Ids \ {i} : Untouched(j) => Untouched(j)'
  BY <1>1, <1>2 DEF BooksTyped, Becomes, Untouched
<1> QED BY <1>3, <1>4, <1>5, <1>6

LEMMA UntouchedIsBefore ==
  ASSUME BooksInv, NEW i \in Ids, Untouched(i)
  PROVE  Before(i)
BY DEF BooksInv, Before, Untouched

\* A case that is owed for has been paid nothing, and the other way round.
LEMMA PaidIs ==
  ASSUME BooksInv, NEW i \in Ids, cases[i] # None
  PROVE  /\ cases[i] \in Cases /\ Owed(cases[i]) \in Int
         /\ Owed(cases[i]) > 0 \/ cases[i].state # "RECOVERED" => Before(i) /\ Unpaid(cases[i], i)
         /\ Owed(cases[i]) <= 0 => PaidUp(cases[i], i) /\ world[i].settled > 0
<1>1. cases[i] \in Cases BY DEF BooksInv, BooksTyped
<1>2. Owed(cases[i]) \in Int BY <1>1 DEF Owed, Cases
<1>3. world[i].settled \in Nat /\ CaseFits(i) /\ BooksTyped
  BY DEF BooksInv, BooksTyped
<1>4. CASE world[i].settled = 0
  <2>1. Unpaid(cases[i], i) BY <1>3, <1>4 DEF CaseFits, Agree
  <2>2. Owed(cases[i]) > 0 BY <2>1, Population DEF Unpaid, Fits, Owed
  <2> QED BY <1>1, <1>2, <1>3, <1>4, <2>1, <2>2 DEF Before
<1>5. CASE world[i].settled > 0
  <2>1. PaidUp(cases[i], i) BY <1>3, <1>5 DEF CaseFits, Agree
  <2>2. cases[i].state = "RECOVERED" /\ Owed(cases[i]) <= 0 BY <2>1 DEF PaidUp
  <2> QED BY <1>1, <1>2, <1>5, <2>1, <2>2
<1> QED BY <1>3, <1>4, <1>5

LEMMA AdvanceKeepsBooks ==
  ASSUME BooksInv, Advance
  PROVE  BooksInv'
<1>1. PICK t \in agenda :
        /\ agenda' = agenda \ {t} /\ now' = t.at /\ pc' = t.work.label /\ task' = t.work.of
        /\ UNCHANGED <<world, cases, blamed, rows>>
  BY Zenon DEF Advance, Clock!Run, books
<1>2. BooksTyped' BY <1>1 DEF BooksInv, BooksTyped, States
<1>3. \A i \in Ids : CaseFits(i)' BY <1>1 DEF BooksInv, CaseFits
<1>4. DueOnce'
  <2>1. \A u \in agenda' : u \in agenda /\ u # t BY <1>1
  <2>2. \A i : Untouched(i)' <=> Untouched(i) BY <1>1 DEF Untouched
  <2>3. \A u \in agenda' : IsDue(u) => u.work.of \in Ids /\ Untouched(u.work.of)'
    BY <2>1, <2>2 DEF BooksInv, DueOnce
  <2>4. \A u, x \in agenda' : IsDue(u) /\ IsDue(x) /\ u.work.of = x.work.of => u = x
    BY <2>1 DEF BooksInv, DueOnce
  <2>5. ASSUME pc' = "obligation-due"
        PROVE  task' \in Ids /\ Untouched(task)' /\ \A u \in agenda' : IsDue(u) => u.work.of # task'
    <3>1. IsDue(t) BY <1>1, <2>5 DEF IsDue
    <3>2. t.work.of \in Ids /\ Untouched(t.work.of) BY <1>1, <3>1 DEF BooksInv, DueOnce
    <3>3. Untouched(task)' BY <1>1, <3>2 DEF Untouched
    <3>4. \A u \in agenda' : IsDue(u) => u.work.of # t.work.of
      BY <2>1, <3>1 DEF BooksInv, DueOnce
    <3> QED BY <1>1, <3>2, <3>3, <3>4
  <2> QED BY <2>3, <2>4, <2>5 DEF DueOnce, IsDue, Untouched
<1>5. RowsFit' BY <1>1 DEF BooksInv, RowsFit
<1> QED BY <1>2, <1>3, <1>4, <1>5 DEF BooksInv

LEMMA ObligationDueKeepsBooks ==
  ASSUME BooksInv, ObligationDue
  PROVE  BooksInv'
<1>1. /\ pc = "obligation-due" /\ (Abandon(task) \/ Charge(task))
      /\ pc' = "idle" /\ UNCHANGED <<now, agenda, rows>>
  BY DEF ObligationDue, Done
<1>2. task \in Ids /\ Untouched(task) /\ \A t \in agenda : IsDue(t) => t.work.of # task
  BY <1>1 DEF BooksInv, DueOnce
<1>3. Before(task) /\ cases[task] = None BY <1>2, UntouchedIsBefore DEF Untouched
<1>4. Moved(task) BY <1>1, <1>3, AbandonMoves, ChargeMoves
<1>5. /\ BooksTyped' /\ \A j \in Ids : CaseFits(j)'
      /\ \A j \in Ids : cases[j] # None => cases'[j] # None
      /\ \A j \in Ids \ {task} : Untouched(j) => Untouched(j)'
  BY <1>1, <1>3, <1>4, MovedIs
<1>6. DueOnce'
  <2>1. \A t \in agenda : IsDue(t) => t.work.of \in Ids /\ Untouched(t.work.of)'
    BY <1>2, <1>5 DEF BooksInv, DueOnce
  <2> QED BY <1>1, <2>1 DEF BooksInv, DueOnce, IsDue, Untouched
<1>7. RowsFit' BY <1>1, <1>5 DEF BooksInv, RowsFit
<1> QED BY <1>5, <1>6, <1>7 DEF BooksInv

\* A step that changes the case of i and nothing else, from agreement to agreement.
LEMMA CaseChanges ==
  ASSUME BooksInv, NEW i \in Ids, cases[i] # None, NEW c \in Cases,
         cases' = [cases EXCEPT ![i] = c], UNCHANGED <<now, agenda, world, blamed>>,
         Agree(i, world[i], c, blamed[i]),
         \A r \in rows' : r.case \in Ids /\ cases[r.case] # None,
         pc' # "obligation-due"
  PROVE  BooksInv'
<1>1. c # None BY NoneAssumption
<1>2. cases'[i] = c /\ \A j \in Ids \ {i} : cases'[j] = cases[j]
  BY DEF BooksInv, BooksTyped
<1>3. BooksTyped' BY DEF BooksInv, BooksTyped, States
<1>4. \A j \in Ids : CaseFits(j)' BY <1>2 DEF BooksInv, CaseFits
<1>5. \A j \in Ids : Untouched(j) => Untouched(j)' BY <1>2 DEF Untouched
<1>6. DueOnce'
  <2>1. \A t \in agenda : IsDue(t) => t.work.of \in Ids /\ Untouched(t.work.of)'
    BY <1>5 DEF BooksInv, DueOnce
  <2> QED BY <2>1 DEF BooksInv, DueOnce, IsDue, Untouched
<1>7. RowsFit' BY <1>1, <1>2 DEF RowsFit
<1> QED BY <1>3, <1>4, <1>6, <1>7 DEF BooksInv

LEMMA DecideKeepsBooks ==
  ASSUME BooksInv, NEW i \in Ids, NEW arm \in Arms, Decide(i, arm)
  PROVE  BooksInv'
<1> DEFINE n == now + (IF Held(i, arm) THEN 1 ELSE IF arm = "WAIT" THEN AFTER_WAIT
                       ELSE AFTER_EXECUTE) * HOUR
           c == [cases[i] EXCEPT !.state = "IN_PROGRESS", !.nextDecisionAt = n]
<1>1. /\ CaseDue(i) /\ pc' = "decide" /\ UNCHANGED <<now, agenda, world, blamed>>
      /\ cases' = [cases EXCEPT ![i].state = "IN_PROGRESS", ![i].nextDecisionAt = n]
      /\ \A r \in rows' : r \in rows \/ r.case = i
  BY DEF Decide, Goto
<1>2. cases[i] # None /\ cases[i].state # "RECOVERED" BY <1>1 DEF CaseDue
<1>3. cases[i] \in Cases /\ Unpaid(cases[i], i) /\ Before(i) BY <1>2, PaidIs
<1>4. n \in Int
  BY ScenarioAssumption DEF BooksInv, BooksTyped, HOUR
<1> HIDE DEF n
<1>5. /\ c \in Cases /\ c.amount = cases[i].amount /\ c.paid = cases[i].paid /\ c.tax = cases[i].tax
      /\ c.attemptCount = cases[i].attemptCount /\ c.invoice = cases[i].invoice
      /\ c.state = "IN_PROGRESS"
  BY <1>3, <1>4 DEF Cases
<1>6. cases' = [cases EXCEPT ![i] = c]
  BY <1>1, <1>3 DEF BooksInv, BooksTyped, Cases
<1> HIDE DEF c
<1>7. Unpaid(c, i) BY <1>3, <1>5 DEF Unpaid, Fits
<1>8. Agree(i, world[i], c, blamed[i])
  BY <1>2, <1>3, <1>5, <1>7, BeforeIs, NoneAssumption DEF Agree
<1>9. \A r \in rows' : r.case \in Ids /\ cases[r.case] # None
  BY <1>1, <1>2 DEF BooksInv, RowsFit
<1> QED BY <1>1, <1>2, <1>5, <1>6, <1>8, <1>9, CaseChanges

LEMMA DrainKeepsBooks ==
  ASSUME BooksInv, NEW row \in rows, Drain(row)
  PROVE  BooksInv'
<1> DEFINE i == row.case
<1>1. i \in Ids /\ cases[i] # None /\ pc' = "drain" /\ UNCHANGED <<now, agenda>>
  BY DEF BooksInv, RowsFit, Drain, Goto
<1>2. CASE StopPaid(row)
  <2> DEFINE c == [cases[i] EXCEPT !.state = "RECOVERED", !.resolvedAt = now]
  <2>1. /\ Owed(cases[i]) <= 0 /\ UNCHANGED <<world, blamed>> /\ rows' \subseteq rows
        /\ cases' = [cases EXCEPT ![i].state = "RECOVERED", ![i].resolvedAt = now]
    BY <1>2 DEF StopPaid
  <2>2. cases[i] \in Cases /\ PaidUp(cases[i], i) /\ world[i].settled > 0
    BY <1>1, <2>1, PaidIs
  <2>3. now \in Int BY DEF BooksInv, BooksTyped
  <2>4. /\ c \in Cases /\ c.amount = cases[i].amount /\ c.paid = cases[i].paid /\ c.tax = cases[i].tax
        /\ c.attemptCount = cases[i].attemptCount /\ c.invoice = cases[i].invoice
        /\ c.state = "RECOVERED" /\ c.resolvedAt = now
    BY <2>2, <2>3 DEF Cases
  <2>5. cases' = [cases EXCEPT ![i] = c]
    BY <1>1, <2>1, <2>2 DEF BooksInv, BooksTyped, Cases
  <2> HIDE DEF c
  <2>6. PaidUp(c, i) BY <2>2, <2>3, <2>4 DEF PaidUp, Fits, Owed
  <2>7. Agree(i, world[i], cases[i], blamed[i]) BY <1>1 DEF BooksInv, CaseFits
  <2>8. Agree(i, world[i], c, blamed[i])
    BY <1>1, <2>2, <2>4, <2>6, <2>7, NoneAssumption DEF Agree
  <2>9. \A r \in rows' : r.case \in Ids /\ cases[r.case] # None
    BY <2>1 DEF BooksInv, RowsFit
  <2> QED BY <1>1, <2>1, <2>4, <2>5, <2>8, <2>9, CaseChanges
<1>3. CASE Dispatch(row)
  <2>1. /\ Owed(cases[i]) > 0 /\ rows' \subseteq rows
        /\ Charge(i) \/ Contact(i)
    BY <1>3 DEF Dispatch
  <2>2. Before(i) BY <1>1, <2>1, PaidIs
  <2>3. Moved(i) BY <2>1, <2>2, ChargeMoves, ContactMoves
  <2>4. /\ BooksTyped' /\ \A j \in Ids : CaseFits(j)'
        /\ \A j \in Ids : cases[j] # None => cases'[j] # None
        /\ \A j \in Ids \ {i} : Untouched(j) => Untouched(j)'
    BY <1>1, <2>2, <2>3, MovedIs
  <2>5. DueOnce'
    <3>1. \A t \in agenda : IsDue(t) => t.work.of \in Ids /\ Untouched(t.work.of)'
      BY <1>1, <2>4 DEF BooksInv, DueOnce, Untouched
    <3> QED BY <1>1, <3>1 DEF BooksInv, DueOnce, IsDue, Untouched
  <2>6. RowsFit' BY <2>1, <2>4 DEF BooksInv, RowsFit
  <2> QED BY <2>4, <2>5, <2>6 DEF BooksInv
<1> QED BY <1>2, <1>3 DEF Drain

LEMMA TasksAre ==
  ASSUME NEW s \in Scenarios, NEW t \in Tasks(s)
  PROVE  /\ t.at \in Int
         /\ IsDue(t) => \E k \in DOMAIN s.due :
                          /\ s.due[k] \in Ids
                          /\ t = Task(Obligation[s.due[k]].dueAt, "obligation-due", s.due[k],
                                      (s.hours + s.hours) + k)
<1> DEFINE Due(k) == Task(Obligation[s.due[k]].dueAt, "obligation-due", s.due[k],
                          (s.hours + s.hours) + k)
<1>1. s.hours \in Nat /\ s.due \in Seq(Ids) BY ScenarioAssumption DEF Ids
<1>2. ASSUME NEW label, NEW from \in Nat, NEW n \in Nat, label # "obligation-due",
             t \in Hourly(s, from, label, n)
      PROVE  t.at \in Int /\ ~IsDue(t)
  BY <1>1, <1>2, TimelineAssumption DEF Hourly, Task, Clock!Task, IsDue, HOUR
<1>3. ASSUME NEW n, t \in DowntimeTasks(n) PROVE t.at \in Int /\ ~IsDue(t)
  <2>1. PICK k \in DOMAIN WorldEvents : \E event, m :
          \/ t = Task(parsed(WorldEvents[k]).startAt, "downtime", event, m)
          \/ t = Task(parsed(WorldEvents[k]).endAt, "downtime", event, m)
    BY <1>3, Zenon DEF DowntimeTasks
  <2>2. parsed(WorldEvents[k]).startAt \in Int /\ parsed(WorldEvents[k]).endAt \in Int
    BY TimelineAssumption DEF Timeline
  <2> QED BY <2>1, <2>2 DEF Task, Clock!Task, IsDue
<1>4. ASSUME t \in DueTasks(s, s.hours + s.hours)
      PROVE  t.at \in Int /\ \E k \in DOMAIN s.due : s.due[k] \in Ids /\ t = Due(k)
  <2>1. PICK k \in DOMAIN s.due : t = Due(k) BY <1>4 DEF DueTasks
  <2>2. s.due[k] \in Ids BY <1>1
  <2>3. t.at = Obligation[s.due[k]].dueAt BY <2>1 DEF Task, Clock!Task
  <2> QED BY <2>1, <2>2, <2>3, Population
<1>5. \/ t \in Hourly(s, 1, "engine-tick", 0)
      \/ t \in Hourly(s, 0, "background-traffic", s.hours)
      \/ t \in DueTasks(s, s.hours + s.hours)
      \/ \E n : t \in DowntimeTasks(n)
  BY DEF Tasks
<1> QED BY <1>1, <1>2, <1>3, <1>4, <1>5

LEMMA BooksInvInit == Init => BooksInv
<1> SUFFICES ASSUME Init PROVE BooksInv OBVIOUS
<1>1. /\ scenario \in Scenarios /\ now = StartAt /\ agenda = Tasks(scenario) /\ pc = "idle"
      /\ world = [i \in Ids |-> NewObligation] /\ cases = [i \in Ids |-> None]
      /\ blamed = [i \in Ids |-> 0] /\ rows = {}
  BY DEF Init
<1>2. BooksTyped
  <2>1. ASSUME NEW i \in Ids PROVE NewObligation \in States(i)
    BY Population DEF NewObligation, States
  <2> QED BY <1>1, <2>1, TasksAre, TimelineAssumption DEF BooksTyped, NewObligation
<1>3. \A i \in Ids : CaseFits(i) /\ Untouched(i)
  BY <1>1 DEF CaseFits, Agree, Untouched, NewObligation
<1>4. DueOnce
  <2>1. ASSUME NEW t \in agenda, IsDue(t) PROVE t.work.of \in Ids /\ Untouched(t.work.of)
    BY <1>1, <1>3, <2>1, TasksAre DEF Task, Clock!Task
  <2>2. ASSUME NEW t \in agenda, NEW u \in agenda, IsDue(t), IsDue(u), t.work.of = u.work.of
        PROVE  t = u
    <3>1. PICK k \in DOMAIN scenario.due :
            t = Task(Obligation[scenario.due[k]].dueAt, "obligation-due", scenario.due[k],
                     (scenario.hours + scenario.hours) + k)
      BY <1>1, <2>2, TasksAre
    <3>2. PICK j \in DOMAIN scenario.due :
            u = Task(Obligation[scenario.due[j]].dueAt, "obligation-due", scenario.due[j],
                     (scenario.hours + scenario.hours) + j)
      BY <1>1, <2>2, TasksAre
    <3>3. t.work.of = scenario.due[k] /\ u.work.of = scenario.due[j]
      BY <3>1, <3>2 DEF Task, Clock!Task
    <3>4. k = j BY <1>1, <2>2, <3>3, ScenarioAssumption
    <3> QED BY <3>1, <3>2, <3>4
  <2> QED BY <1>1, <2>1, <2>2 DEF DueOnce
<1>5. RowsFit BY <1>1 DEF RowsFit
<1> QED BY <1>2, <1>3, <1>4, <1>5 DEF BooksInv

LEMMA BooksInvKept == BooksInv /\ [Next]_vars => BooksInv'
<1> SUFFICES ASSUME BooksInv, [Next]_vars PROVE BooksInv' OBVIOUS
<1> DEFINE Idle == UNCHANGED <<now, agenda, world, cases, blamed, rows>> /\ pc' # "obligation-due"
<1>1. Idle => BooksInv' BY StillTrue
<1>2. CASE UNCHANGED vars
  <2>1. UNCHANGED <<now, agenda, world, cases, blamed, rows, pc, task>> BY <1>2 DEF vars, books
  <2> QED BY <2>1 DEF BooksInv, BooksTyped, States, CaseFits, DueOnce, IsDue, Untouched, RowsFit
<1>3. CASE Advance BY <1>3, AdvanceKeepsBooks
<1>4. CASE Traffic BY <1>1, <1>4 DEF Traffic, Done, books
<1>5. CASE Downtime BY <1>1, <1>5 DEF Downtime, Done, books
<1>6. CASE ObligationDue BY <1>6, ObligationDueKeepsBooks
<1>7. CASE Sense BY <1>1, <1>7 DEF Sense, Goto, books
<1>8. CASE Feedback BY <1>1, <1>8 DEF Feedback, Goto, books
<1>9. CASE Flushed BY <1>1, <1>9 DEF Flushed, Goto, books
<1>10. CASE FlushFails BY <1>1, <1>10 DEF FlushFails, Done, books
<1>11. ASSUME NEW arm \in Arms, Flush(arm) PROVE BooksInv'
  BY <1>1, <1>11 DEF Flush, Goto, books
<1>12. ASSUME NEW i \in Ids, NEW arm \in Arms, Decide(i, arm) PROVE BooksInv'
  BY <1>12, DecideKeepsBooks
<1>13. CASE Decided BY <1>1, <1>13 DEF Decided, Goto, books
<1>14. CASE Ticked BY <1>1, <1>14 DEF Ticked, Done, books
<1>15. CASE Restart BY <1>1, <1>15 DEF Restart, Done, books
<1>16. ASSUME NEW row \in rows, Drain(row) PROVE BooksInv' BY <1>16, DrainKeepsBooks
<1> QED
  BY <1>2, <1>3, <1>4, <1>5, <1>6, <1>7, <1>8, <1>9, <1>10, <1>11, <1>12, <1>13, <1>14, <1>15,
     <1>16
  DEF Next

\* The books of a case agree with what happened in the world
\* (scripts/lib/scenario.ts, src/sim, src/ingest), whatever the population, the
\* timeline and the faults.
THEOREM BooksAreTrue == Spec => []BooksMatchWorld
<1>1. Spec => []BooksInv BY BooksInvInit, BooksInvKept, PTL DEF Spec
<1> QED BY <1>1, BooksInvSuffices, PTL

-----------------------------------------------------------------------------
(* What was decided is counted once: CountedOnce *)

Decisions == [case : Ids, arm : Arms, at : Int]

Counts == [Arms -> [successes : Nat, failures : Nat]]

CountsTyped ==
  /\ \A s \in {tracker, credited, expired} : s \subseteq Decisions /\ IsFiniteSet(s)
  /\ {table, lost, drained} \subseteq Counts
  /\ bandit \in [posteriors : Counts, pending : Counts]

Apart == tracker \cap (credited \cup expired) = {} /\ credited \cap expired = {}

\* The decisions of an arm.
Of(s, arm) == {d \in s : d.arm = arm}

\* Every success and every failure is in one of four places.
Places(t, l, d, p, good, bad) ==
  \A arm \in Arms :
    /\ t[arm].successes + l[arm].successes + d[arm].successes + p[arm].successes
         = Cardinality(Of(good, arm))
    /\ t[arm].failures + l[arm].failures + d[arm].failures + p[arm].failures
         = Cardinality(Of(bad, arm))

Balanced == Places(table, lost, drained, bandit.pending, credited, expired)

Flushing == pc # "flush" => drained = NoCounts

\* The next decision of a case is after the ones that were made.
Dated ==
  \A d \in tracker \cup credited \cup expired :
    cases[d.case] # None /\ d.at < cases[d.case].nextDecisionAt

CountInv == CountsTyped /\ Apart /\ Balanced /\ Flushing /\ Dated

LEMMA NothingCounted == NoCounts \in Counts
BY DEF NoCounts, Counts

LEMMA PlusTyped ==
  ASSUME NEW a \in Counts, NEW b \in Counts
  PROVE  /\ Plus(a, b) \in Counts
         /\ \A arm \in Arms : /\ Plus(a, b)[arm].successes = a[arm].successes + b[arm].successes
                              /\ Plus(a, b)[arm].failures = a[arm].failures + b[arm].failures
BY DEF Plus, Counts

LEMMA CountsEqual ==
  ASSUME NEW a \in Counts, NEW b \in Counts,
         \A arm \in Arms : a[arm].successes = b[arm].successes /\ a[arm].failures = b[arm].failures
  PROVE  a = b
<1>1. \A arm \in Arms : a[arm] = b[arm] BY DEF Counts
<1> QED BY <1>1 DEF Counts

LEMMA TallyIs ==
  ASSUME NEW good, IsFiniteSet(good), NEW bad, IsFiniteSet(bad)
  PROVE  /\ Tally(good, bad) \in Counts
         /\ \A arm \in Arms : /\ Tally(good, bad)[arm].successes = Cardinality(Of(good, arm))
                              /\ Tally(good, bad)[arm].failures = Cardinality(Of(bad, arm))
<1>1. ASSUME NEW s, IsFiniteSet(s), NEW arm PROVE Cardinality(Of(s, arm)) \in Nat
  BY <1>1, FS_Subset, FS_CardinalityType DEF Of
<1>2. \A arm \in Arms : Cardinality(Of(good, arm)) \in Nat /\ Cardinality(Of(bad, arm)) \in Nat
  BY <1>1
<1>3. Tally(good, bad) = [arm \in Arms |-> [successes |-> Cardinality(Of(good, arm)),
                                            failures |-> Cardinality(Of(bad, arm))]]
  BY Zenon DEF Tally, Of
<1> QED BY <1>2, <1>3 DEF Counts

LEMMA CountsAdd ==
  ASSUME NEW s, IsFiniteSet(s), NEW t, IsFiniteSet(t), s \cap t = {}, NEW arm
  PROVE  Cardinality(Of(s \cup t, arm)) = Cardinality(Of(s, arm)) + Cardinality(Of(t, arm))
<1>1. IsFiniteSet(Of(s, arm)) /\ IsFiniteSet(Of(t, arm)) BY FS_Subset DEF Of
<1>2. Of(s \cup t, arm) = Of(s, arm) \cup Of(t, arm) /\ Of(s, arm) \cap Of(t, arm) = {}
  BY DEF Of
<1>3. Cardinality({}) = 0 BY FS_EmptySet
<1>4. Cardinality(Of(s, arm)) \in Nat /\ Cardinality(Of(t, arm)) \in Nat
  BY <1>1, FS_CardinalityType
<1>5. Cardinality(Of(s, arm) \cup Of(t, arm))
        = Cardinality(Of(s, arm)) + Cardinality(Of(t, arm)) - Cardinality(Of(s, arm) \cap Of(t, arm))
  BY <1>1, FS_Union
<1>6. Cardinality(Of(s, arm) \cap Of(t, arm)) = 0 BY <1>2, <1>3, Zenon
<1>7. Cardinality(Of(s \cup t, arm)) = Cardinality(Of(s, arm) \cup Of(t, arm)) BY <1>2, Zenon
<1> DEFINE a == Cardinality(Of(s, arm))
           b == Cardinality(Of(t, arm))
           c == Cardinality(Of(s, arm) \cap Of(t, arm))
<1>8. a \in Nat /\ b \in Nat /\ c = 0 /\ Cardinality(Of(s \cup t, arm)) = a + b - c
  BY <1>4, <1>5, <1>6, <1>7, Zenon
<1> HIDE DEF a, b, c
<1>9. a + b - c = a + b BY <1>8
<1> QED BY <1>8, <1>9, Zenon DEF a, b

LEMMA CountInvSuffices == CountInv => CountedOnce
<1> SUFFICES ASSUME CountInv PROVE CountedOnce OBVIOUS
<1>1. /\ table \in Counts /\ lost \in Counts /\ drained \in Counts /\ bandit.pending \in Counts
      /\ IsFiniteSet(credited) /\ IsFiniteSet(expired)
  BY DEF CountInv, CountsTyped
<1> DEFINE sum == Plus(Plus(table, lost), Plus(drained, bandit.pending))
           tally == Tally(credited, expired)
<1>2. /\ sum \in Counts
      /\ \A arm \in Arms :
           /\ sum[arm].successes = (table[arm].successes + lost[arm].successes)
                                     + (drained[arm].successes + bandit.pending[arm].successes)
           /\ sum[arm].failures = (table[arm].failures + lost[arm].failures)
                                     + (drained[arm].failures + bandit.pending[arm].failures)
  BY <1>1, PlusTyped
<1>3. /\ tally \in Counts
      /\ \A arm \in Arms : /\ tally[arm].successes = Cardinality(Of(credited, arm))
                           /\ tally[arm].failures = Cardinality(Of(expired, arm))
  BY <1>1, TallyIs
<1> HIDE DEF sum, tally
<1>4. ASSUME NEW arm \in Arms
      PROVE  sum[arm].successes = tally[arm].successes /\ sum[arm].failures = tally[arm].failures
  <2>1. /\ table[arm] \in [successes : Nat, failures : Nat]
        /\ lost[arm] \in [successes : Nat, failures : Nat]
        /\ drained[arm] \in [successes : Nat, failures : Nat]
        /\ bandit.pending[arm] \in [successes : Nat, failures : Nat]
    BY <1>1 DEF Counts
  <2> QED BY <1>2, <1>3, <2>1 DEF CountInv, Balanced, Places
<1>5. sum = tally BY <1>2, <1>3, <1>4, CountsEqual
<1> QED BY <1>5 DEF CountInv, Apart, CountedOnce, sum, tally

\* A step that makes no decision.
DatesKept ==
  \A j \in Ids : cases[j] # None =>
    cases'[j] # None /\ cases'[j].nextDecisionAt = cases[j].nextDecisionAt

LEMMA MovedDates ==
  ASSUME NEW i, Before(i), Moved(i)
  PROVE  DatesKept
<1>1. PICK w, c, b : Becomes(i, w, c, b) BY DEF Moved
<1> QED BY <1>1 DEF Before, BooksTyped, Becomes, DatesKept

LEMMA ObligationDueDates ==
  ASSUME BooksInv, ObligationDue
  PROVE  DatesKept
<1>1. task \in Ids /\ Untouched(task) /\ (Abandon(task) \/ Charge(task))
  BY DEF BooksInv, DueOnce, ObligationDue
<1>2. Before(task) /\ cases[task] = None BY <1>1, UntouchedIsBefore DEF Untouched
<1> QED BY <1>1, <1>2, AbandonMoves, ChargeMoves, MovedDates

LEMMA DrainDates ==
  ASSUME BooksInv, NEW row \in rows, Drain(row)
  PROVE  DatesKept
<1> DEFINE i == row.case
<1>1. i \in Ids /\ cases[i] # None BY DEF BooksInv, RowsFit
<1>2. CASE StopPaid(row)
  <2>1. cases' = [cases EXCEPT ![i].state = "RECOVERED", ![i].resolvedAt = now]
    BY <1>2 DEF StopPaid
  <2>2. cases \in [Ids -> Cases \cup {None}] /\ cases[i] \in Cases
    BY <1>1 DEF BooksInv, BooksTyped
  <2>3. now \in Int BY DEF BooksInv, BooksTyped
  <2>4. ASSUME NEW j \in Ids, cases[j] # None
        PROVE  cases'[j] \in Cases /\ cases'[j].nextDecisionAt = cases[j].nextDecisionAt
    BY <2>1, <2>2, <2>3, <2>4 DEF Cases
  <2> QED BY <2>4, NoneAssumption DEF DatesKept
<1>3. CASE Dispatch(row)
  <2>1. /\ Owed(cases[i]) > 0
        /\ Charge(i) \/ Contact(i)
    BY <1>3 DEF Dispatch
  <2>2. Before(i) BY <1>1, <2>1, PaidIs
  <2> QED BY <2>1, <2>2, ChargeMoves, ContactMoves, MovedDates
<1> QED BY <1>2, <1>3 DEF Drain

\* A step that counts nothing.
LEMMA CountStays ==
  ASSUME CountInv, DatesKept, UNCHANGED <<tracker, credited, expired, table, lost, drained>>,
         bandit' \in [posteriors : Counts, pending : Counts], bandit'.pending = bandit.pending,
         pc' = "flush" \/ drained = NoCounts
  PROVE  CountInv'
<1>1. CountsTyped' BY DEF CountInv, CountsTyped
<1>2. Apart' BY DEF CountInv, Apart
<1>3. Balanced' BY DEF CountInv, Balanced
<1>4. Flushing' BY DEF Flushing
<1>5. Dated'
  BY DEF CountInv, CountsTyped, Decisions, Dated, DatesKept
<1> QED BY <1>1, <1>2, <1>3, <1>4, <1>5 DEF CountInv

LEMMA NotFlushing ==
  ASSUME CountInv, pc # "flush"
  PROVE  drained = NoCounts
BY DEF CountInv, Flushing

LEMMA RestoreTyped ==
  ASSUME NEW b \in [posteriors : Counts, pending : Counts], NEW t \in Counts
  PROVE  /\ restore(b, t) \in [posteriors : Counts, pending : Counts]
         /\ restore(b, t).pending = b.pending
<1> DEFINE f == [arm \in Arms |-> IF t[arm] = NoCounts[arm] THEN b.posteriors[arm] ELSE t[arm]]
<1>1. b.posteriors \in Counts OBVIOUS
<1>2. f \in Counts BY <1>1 DEF Counts
<1>3. restore(b, t) = [b EXCEPT !.posteriors = f] BY DEF restore
<1> HIDE DEF f
<1> QED BY <1>2, <1>3

LEMMA SenseCounts ==
  ASSUME CountInv, Sense
  PROVE  CountInv'
<1>1. /\ pc = "engine-tick" /\ UNCHANGED <<cases, tracker, credited, expired, table, lost, drained>>
      /\ bandit' = bandit \/ bandit' = restore(bandit, table)
  BY DEF Sense, Goto, books, learnt
<1>2. bandit \in [posteriors : Counts, pending : Counts] /\ table \in Counts
  BY DEF CountInv, CountsTyped
<1>3. bandit' \in [posteriors : Counts, pending : Counts] /\ bandit'.pending = bandit.pending
  BY <1>1, <1>2, RestoreTyped
<1>4. DatesKept BY <1>1 DEF DatesKept
<1> QED BY <1>1, <1>3, <1>4, NotFlushing, CountStays

\* What is credited and what has expired are decisions that were waited for.
LEMMA FeedbackIs ==
  ASSUME Feedback
  PROVE  \E good, bad :
           /\ good = UNION {Credited(tracker, i, cases[i].resolvedAt) : i \in RecoveredSince(now - HOUR)}
           /\ bad = Expired(tracker \ good, now)
           /\ good \subseteq tracker /\ bad \subseteq tracker /\ good \cap bad = {}
           /\ tracker' = tracker \ (good \cup bad)
           /\ drained' = update(bandit, good, bad).pending
           /\ bandit' = drainPending(update(bandit, good, bad))
           /\ credited' = credited \cup good /\ expired' = expired \cup bad
<1> DEFINE good == UNION {Credited(tracker, i, cases[i].resolvedAt) : i \in RecoveredSince(now - HOUR)}
           bad == Expired(tracker \ good, now)
<1>1. /\ tracker' = tracker \ (good \cup bad)
      /\ drained' = update(bandit, good, bad).pending
      /\ bandit' = drainPending(update(bandit, good, bad))
      /\ credited' = credited \cup good /\ expired' = expired \cup bad
  BY Zenon DEF Feedback
<1>2. good \subseteq tracker BY DEF Credited
<1>3. bad \subseteq tracker \ good BY DEF Expired
<1> HIDE DEF good, bad
<1>4. bad \subseteq tracker /\ good \cap bad = {} BY <1>3
<1> QED BY <1>1, <1>2, <1>4 DEF good, bad

LEMMA FeedbackCounts ==
  ASSUME CountInv, Feedback
  PROVE  CountInv'
<1>1. PICK good, bad :
        /\ good \subseteq tracker /\ bad \subseteq tracker /\ good \cap bad = {}
        /\ tracker' = tracker \ (good \cup bad)
        /\ drained' = update(bandit, good, bad).pending
        /\ bandit' = drainPending(update(bandit, good, bad))
        /\ credited' = credited \cup good /\ expired' = expired \cup bad
  BY FeedbackIs
<1>2. /\ UNCHANGED <<cases, table, lost>> /\ pc' = "flush" /\ drained = NoCounts
  BY NotFlushing DEF Feedback, Goto, books
<1>3. /\ IsFiniteSet(tracker) /\ IsFiniteSet(credited) /\ IsFiniteSet(expired)
      /\ tracker \subseteq Decisions /\ credited \subseteq Decisions /\ expired \subseteq Decisions
      /\ table \in Counts /\ lost \in Counts
      /\ bandit \in [posteriors : Counts, pending : Counts]
  BY DEF CountInv, CountsTyped
<1>4. IsFiniteSet(good) /\ IsFiniteSet(bad) /\ IsFiniteSet(tracker')
  BY <1>1, <1>3, FS_Subset
<1>5. IsFiniteSet(credited') /\ IsFiniteSet(expired') BY <1>1, <1>3, <1>4, FS_Union
<1> DEFINE tally == Tally(good, bad)
           counted == update(bandit, good, bad)
<1>6. tally \in Counts BY <1>4, TallyIs
<1>7. counted \in [posteriors : Counts, pending : Counts] /\ counted.pending = Plus(bandit.pending, tally)
  BY <1>3, <1>6, PlusTyped DEF update
<1>8. drained' = Plus(bandit.pending, tally) /\ drained' \in Counts
  BY <1>1, <1>3, <1>6, <1>7, PlusTyped
<1> HIDE DEF counted
<1>9. bandit' \in [posteriors : Counts, pending : Counts] /\ bandit'.pending = NoCounts
  BY <1>1, <1>7, NothingCounted DEF drainPending, counted
<1>10. CountsTyped' BY <1>1, <1>2, <1>3, <1>4, <1>5, <1>8, <1>9 DEF CountsTyped
<1>11. Apart' BY <1>1 DEF CountInv, Apart
<1>12. Balanced'
  <2> SUFFICES ASSUME NEW arm \in Arms
      PROVE  /\ table[arm].successes + lost[arm].successes + drained'[arm].successes
                   + bandit'.pending[arm].successes
                  = Cardinality(Of(credited', arm))
             /\ table[arm].failures + lost[arm].failures + drained'[arm].failures
                   + bandit'.pending[arm].failures
                  = Cardinality(Of(expired', arm))
    BY <1>2 DEF Balanced, Places
  <2>1. credited \cap good = {} /\ expired \cap bad = {} BY <1>1 DEF CountInv, Apart
  <2>2. /\ Cardinality(Of(credited', arm)) = Cardinality(Of(credited, arm)) + Cardinality(Of(good, arm))
        /\ Cardinality(Of(expired', arm)) = Cardinality(Of(expired, arm)) + Cardinality(Of(bad, arm))
    BY <1>1, <1>3, <1>4, <2>1, CountsAdd
  <2>3. /\ drained'[arm].successes = bandit.pending[arm].successes + Cardinality(Of(good, arm))
        /\ drained'[arm].failures = bandit.pending[arm].failures + Cardinality(Of(bad, arm))
    BY <1>3, <1>4, <1>6, <1>8, PlusTyped, TallyIs
  <2>4. /\ bandit'.pending[arm].successes = 0 /\ bandit'.pending[arm].failures = 0
        /\ drained[arm].successes = 0 /\ drained[arm].failures = 0
    BY <1>2, <1>9 DEF NoCounts
  <2>5. /\ table[arm] \in [successes : Nat, failures : Nat]
        /\ lost[arm] \in [successes : Nat, failures : Nat]
        /\ bandit.pending[arm] \in [successes : Nat, failures : Nat]
        /\ tally[arm] \in [successes : Nat, failures : Nat]
    BY <1>3, <1>6 DEF Counts
  <2>6. tally[arm].successes = Cardinality(Of(good, arm)) /\ tally[arm].failures = Cardinality(Of(bad, arm))
    BY <1>4, TallyIs
  <2>7. /\ table[arm].successes + lost[arm].successes + 0 + bandit.pending[arm].successes
             = Cardinality(Of(credited, arm))
        /\ table[arm].failures + lost[arm].failures + 0 + bandit.pending[arm].failures
             = Cardinality(Of(expired, arm))
    BY <2>4 DEF CountInv, Balanced, Places
  <2> HIDE DEF tally
  <2> QED BY <2>2, <2>3, <2>4, <2>5, <2>6, <2>7
<1>13. Flushing' BY <1>2 DEF Flushing
<1>14. Dated' BY <1>1, <1>2 DEF CountInv, Dated
<1> QED BY <1>10, <1>11, <1>12, <1>13, <1>14 DEF CountInv

LEMMA FlushCounts ==
  ASSUME CountInv, NEW arm \in Arms, Flush(arm)
  PROVE  CountInv'
<1>1. /\ pc' = "flush"
      /\ table' = [table EXCEPT ![arm] = Plus(table, drained)[arm]]
      /\ drained' = [drained EXCEPT ![arm] = NoCounts[arm]]
      /\ UNCHANGED <<cases, bandit, tracker, credited, expired, lost>>
  BY DEF Flush, Goto, books
<1>2. table \in Counts /\ drained \in Counts /\ lost \in Counts /\ bandit.pending \in Counts
  BY DEF CountInv, CountsTyped
<1>3. Plus(table, drained) \in Counts /\ NoCounts \in Counts BY <1>2, PlusTyped, NothingCounted
<1>4. table' \in Counts /\ drained' \in Counts BY <1>1, <1>2, <1>3 DEF Counts
<1>5. CountsTyped' BY <1>1, <1>4 DEF CountInv, CountsTyped
<1>6. Balanced'
  <2> SUFFICES ASSUME NEW a \in Arms
      PROVE  /\ table'[a].successes + lost[a].successes + drained'[a].successes
                   + bandit.pending[a].successes
                  = Cardinality(Of(credited, a))
             /\ table'[a].failures + lost[a].failures + drained'[a].failures
                   + bandit.pending[a].failures
                  = Cardinality(Of(expired, a))
    BY <1>1 DEF Balanced, Places
  <2>1. /\ table[a].successes + lost[a].successes + drained[a].successes
              + bandit.pending[a].successes
             = Cardinality(Of(credited, a))
        /\ table[a].failures + lost[a].failures + drained[a].failures
              + bandit.pending[a].failures
             = Cardinality(Of(expired, a))
    BY DEF CountInv, Balanced, Places
  <2>2. /\ table[a] \in [successes : Nat, failures : Nat]
        /\ drained[a] \in [successes : Nat, failures : Nat]
        /\ lost[a] \in [successes : Nat, failures : Nat]
        /\ bandit.pending[a] \in [successes : Nat, failures : Nat]
    BY <1>2 DEF Counts
  <2>3. CASE a # arm
    <3>1. table'[a] = table[a] /\ drained'[a] = drained[a] BY <1>1, <1>2, <2>3 DEF Counts
    <3> QED BY <2>1, <3>1
  <2>4. CASE a = arm
    <3>1. table'[a] = Plus(table, drained)[a] /\ drained'[a] = NoCounts[a]
      BY <1>1, <1>2, <2>4 DEF Counts
    <3>2. /\ table'[a].successes = table[a].successes + drained[a].successes
          /\ table'[a].failures = table[a].failures + drained[a].failures
          /\ drained'[a].successes = 0 /\ drained'[a].failures = 0
      BY <1>2, <3>1, PlusTyped DEF NoCounts
    <3> QED BY <2>1, <2>2, <3>2
  <2> QED BY <2>3, <2>4
<1>7. Apart' BY <1>1 DEF CountInv, Apart
<1>8. Flushing' BY <1>1 DEF Flushing
<1>9. Dated' BY <1>1 DEF CountInv, Dated
<1> QED BY <1>5, <1>6, <1>7, <1>8, <1>9 DEF CountInv

LEMMA FlushedCounts ==
  ASSUME CountInv, Flushed
  PROVE  CountInv'
<1>1. /\ UNCHANGED <<cases, bandit, tracker, drained, table, credited, expired, lost>>
      /\ \A arm \in Arms : drained[arm] = NoCounts[arm]
  BY DEF Flushed, Unwritten, Goto, books, process, learnt
<1>2. drained \in Counts /\ bandit \in [posteriors : Counts, pending : Counts]
  BY DEF CountInv, CountsTyped
<1>3. drained = NoCounts BY <1>1, <1>2, NothingCounted DEF Counts
<1>4. DatesKept BY <1>1 DEF DatesKept
<1> QED BY <1>1, <1>2, <1>3, <1>4, CountStays

LEMMA FlushFailsCounts ==
  ASSUME CountInv, FlushFails
  PROVE  CountInv'
<1>1. /\ lost' = Plus(lost, drained) /\ drained' = NoCounts
      /\ UNCHANGED <<cases, bandit, tracker, credited, expired, table>>
  BY DEF FlushFails, books
<1>2. table \in Counts /\ drained \in Counts /\ lost \in Counts /\ bandit.pending \in Counts
  BY DEF CountInv, CountsTyped
<1>3. CountsTyped' BY <1>1, <1>2, PlusTyped, NothingCounted DEF CountInv, CountsTyped
<1>4. Balanced'
  <2> SUFFICES ASSUME NEW a \in Arms
      PROVE  /\ table[a].successes + lost'[a].successes + drained'[a].successes
                   + bandit.pending[a].successes
                  = Cardinality(Of(credited, a))
             /\ table[a].failures + lost'[a].failures + drained'[a].failures
                   + bandit.pending[a].failures
                  = Cardinality(Of(expired, a))
    BY <1>1 DEF Balanced, Places
  <2>1. /\ table[a].successes + lost[a].successes + drained[a].successes
              + bandit.pending[a].successes
             = Cardinality(Of(credited, a))
        /\ table[a].failures + lost[a].failures + drained[a].failures
              + bandit.pending[a].failures
             = Cardinality(Of(expired, a))
    BY DEF CountInv, Balanced, Places
  <2>2. /\ table[a] \in [successes : Nat, failures : Nat]
        /\ drained[a] \in [successes : Nat, failures : Nat]
        /\ lost[a] \in [successes : Nat, failures : Nat]
        /\ bandit.pending[a] \in [successes : Nat, failures : Nat]
    BY <1>2 DEF Counts
  <2>3. /\ lost'[a].successes = lost[a].successes + drained[a].successes
        /\ lost'[a].failures = lost[a].failures + drained[a].failures
        /\ drained'[a].successes = 0 /\ drained'[a].failures = 0
    BY <1>1, <1>2, PlusTyped DEF NoCounts
  <2> QED BY <2>1, <2>2, <2>3
<1>5. Apart' BY <1>1 DEF CountInv, Apart
<1>6. Flushing' BY <1>1 DEF Flushing
<1>7. Dated' BY <1>1 DEF CountInv, Dated
<1> QED BY <1>3, <1>4, <1>5, <1>6, <1>7 DEF CountInv

LEMMA RestartCounts ==
  ASSUME CountInv, Restart
  PROVE  CountInv'
<1>1. /\ lost' = Plus(lost, Plus(drained, bandit.pending)) /\ drained' = NoCounts
      /\ bandit' = [posteriors |-> table, pending |-> NoCounts] /\ tracker' = {}
      /\ UNCHANGED <<cases, credited, expired, table>>
  BY DEF Restart, NewProcess, NewBandit, books
<1>2. table \in Counts /\ drained \in Counts /\ lost \in Counts /\ bandit.pending \in Counts
  BY DEF CountInv, CountsTyped
<1>3. Plus(drained, bandit.pending) \in Counts /\ lost' \in Counts /\ NoCounts \in Counts
  BY <1>1, <1>2, PlusTyped, NothingCounted
<1>4. bandit' \in [posteriors : Counts, pending : Counts] /\ bandit'.pending = NoCounts
  BY <1>1, <1>2, <1>3
<1>5. IsFiniteSet({}) BY FS_EmptySet
<1>6. CountsTyped' BY <1>1, <1>2, <1>3, <1>4, <1>5 DEF CountInv, CountsTyped
<1>7. Balanced'
  <2> SUFFICES ASSUME NEW a \in Arms
      PROVE  /\ table[a].successes + lost'[a].successes + drained'[a].successes
                   + bandit'.pending[a].successes
                  = Cardinality(Of(credited, a))
             /\ table[a].failures + lost'[a].failures + drained'[a].failures
                   + bandit'.pending[a].failures
                  = Cardinality(Of(expired, a))
    BY <1>1 DEF Balanced, Places
  <2>1. /\ table[a].successes + lost[a].successes + drained[a].successes
              + bandit.pending[a].successes
             = Cardinality(Of(credited, a))
        /\ table[a].failures + lost[a].failures + drained[a].failures
              + bandit.pending[a].failures
             = Cardinality(Of(expired, a))
    BY DEF CountInv, Balanced, Places
  <2>2. /\ table[a] \in [successes : Nat, failures : Nat]
        /\ drained[a] \in [successes : Nat, failures : Nat]
        /\ lost[a] \in [successes : Nat, failures : Nat]
        /\ bandit.pending[a] \in [successes : Nat, failures : Nat]
    BY <1>2 DEF Counts
  <2>3. /\ lost'[a].successes
             = lost[a].successes + (drained[a].successes + bandit.pending[a].successes)
        /\ lost'[a].failures
             = lost[a].failures + (drained[a].failures + bandit.pending[a].failures)
    BY <1>1, <1>2, <1>3, PlusTyped
  <2>4. /\ drained'[a].successes = 0 /\ drained'[a].failures = 0
        /\ bandit'.pending[a].successes = 0 /\ bandit'.pending[a].failures = 0
    BY <1>1, <1>4 DEF NoCounts
  <2> QED BY <2>1, <2>2, <2>3, <2>4
<1>8. Apart' BY <1>1 DEF CountInv, Apart
<1>9. Flushing' BY <1>1 DEF Flushing
<1>10. Dated' BY <1>1 DEF CountInv, Dated
<1> QED BY <1>6, <1>7, <1>8, <1>9, <1>10 DEF CountInv

\* A case is decided upon when its next decision is due: later than before.
LEMMA DecideIs ==
  ASSUME BooksInv, NEW i \in Ids, NEW arm \in Arms, Decide(i, arm)
  PROVE  /\ cases[i] # None /\ cases[i].nextDecisionAt \in Int /\ cases[i].nextDecisionAt <= now
         /\ cases[i].state # "RECOVERED"
         /\ cases'[i] # None /\ cases'[i].nextDecisionAt \in Int /\ cases'[i].nextDecisionAt > now
         /\ cases'[i].state = "IN_PROGRESS"
         /\ \A j \in Ids \ {i} : cases'[j] = cases[j]
         /\ now \in Int
<1> DEFINE n == now + (IF Held(i, arm) THEN 1 ELSE IF arm = "WAIT" THEN AFTER_WAIT
                       ELSE AFTER_EXECUTE) * HOUR
           c == [cases[i] EXCEPT !.state = "IN_PROGRESS", !.nextDecisionAt = n]
<1>1. /\ CaseDue(i)
      /\ cases' = [cases EXCEPT ![i].state = "IN_PROGRESS", ![i].nextDecisionAt = n]
  BY DEF Decide
<1>2. cases[i] # None /\ cases[i].state # "RECOVERED" /\ cases[i].nextDecisionAt <= now
  BY <1>1 DEF CaseDue
<1>3. cases[i] \in Cases /\ now \in Int /\ DOMAIN cases = Ids
  BY <1>2 DEF BooksInv, BooksTyped
<1>4. n \in Int /\ n > now
  BY <1>3, ScenarioAssumption DEF HOUR
<1> HIDE DEF n
<1>5. c \in Cases /\ c.nextDecisionAt = n /\ c.state = "IN_PROGRESS" BY <1>3, <1>4 DEF Cases
<1>6. cases' = [cases EXCEPT ![i] = c]
  BY <1>1, <1>3 DEF Cases
<1> HIDE DEF c
<1>7. cases'[i] = c /\ \A j \in Ids \ {i} : cases'[j] = cases[j] BY <1>3, <1>6
<1>8. cases[i].nextDecisionAt \in Int BY <1>3 DEF Cases
<1> QED BY <1>2, <1>3, <1>4, <1>5, <1>7, <1>8, NoneAssumption

LEMMA DecideCounts ==
  ASSUME BooksInv, CountInv, NEW i \in Ids, NEW arm \in Arms, Decide(i, arm)
  PROVE  CountInv'
<1> DEFINE x == [case |-> i, arm |-> arm, at |-> now]
<1>1. /\ tracker' = tracker \cup {x} /\ pc = "decide"
      /\ UNCHANGED <<bandit, drained, table, credited, expired, lost>>
  BY DEF Decide, record, learnt
<1>2. drained = NoCounts BY <1>1, NotFlushing
<1>3. x \in Decisions /\ x.case = i /\ x.at = now BY DecideIs DEF Decisions
<1> HIDE DEF x
<1>4. CountsTyped'
  <2>1. IsFiniteSet(tracker') /\ tracker' \subseteq Decisions
    BY <1>1, <1>3, FS_AddElement DEF CountInv, CountsTyped
  <2> QED BY <1>1, <2>1 DEF CountInv, CountsTyped
<1>5. x \notin credited \cup expired
  <2>1. \A d \in credited \cup expired : d.case = i => d.at < cases[i].nextDecisionAt /\ d.at \in Int
    BY DEF CountInv, Dated, CountsTyped, Decisions
  <2> QED BY <1>3, <2>1, DecideIs
<1>6. Apart' BY <1>1, <1>5 DEF CountInv, Apart
<1>7. Balanced' BY <1>1 DEF CountInv, Balanced
<1>8. Flushing' BY <1>1, <1>2 DEF Flushing
<1>9. Dated'
  <2> SUFFICES ASSUME NEW d \in tracker' \cup credited' \cup expired'
               PROVE  cases'[d.case] # None /\ d.at < cases'[d.case].nextDecisionAt
    BY DEF Dated
  <2>1. CASE d = x BY <1>3, <2>1, DecideIs
  <2>2. CASE d # x
    <3>1. /\ d.case \in Ids /\ d.at \in Int
          /\ cases[d.case] # None /\ d.at < cases[d.case].nextDecisionAt
      BY <1>1, <2>2 DEF CountInv, CountsTyped, Decisions, Dated
    <3>2. CASE d.case = i BY <3>1, <3>2, DecideIs
    <3>3. CASE d.case # i BY <3>1, <3>3, DecideIs
    <3> QED BY <3>2, <3>3
  <2> QED BY <2>1, <2>2
<1> QED BY <1>4, <1>6, <1>7, <1>8, <1>9 DEF CountInv

LEMMA CountInvInit == Init => CountInv
<1> SUFFICES ASSUME Init PROVE CountInv OBVIOUS
<1>1. /\ tracker = {} /\ credited = {} /\ expired = {} /\ table = NoCounts /\ lost = NoCounts
      /\ drained = NoCounts /\ bandit = [posteriors |-> NoCounts, pending |-> NoCounts]
  BY DEF Init, NewBandit
<1>2. IsFiniteSet({}) /\ Cardinality({}) = 0 BY FS_EmptySet
<1>3. \A arm : Of({}, arm) = {} BY DEF Of
<1>4. CountsTyped BY <1>1, <1>2, NothingCounted DEF CountsTyped
<1>5. bandit.pending = NoCounts BY <1>1
<1>6. Balanced BY <1>1, <1>2, <1>3, <1>5 DEF Balanced, Places, NoCounts
<1> QED BY <1>1, <1>4, <1>6 DEF CountInv, Apart, Flushing, Dated

LEMMA CountInvKept == BooksInv /\ CountInv /\ [Next]_vars => CountInv'
<1> SUFFICES ASSUME BooksInv, CountInv, [Next]_vars PROVE CountInv' OBVIOUS
<1> DEFINE Rest == /\ UNCHANGED <<bandit, tracker, drained, table, credited, expired, lost>>
                   /\ pc # "flush" /\ DatesKept
<1>1. Rest => CountInv'
  <2>1. bandit \in [posteriors : Counts, pending : Counts] BY DEF CountInv, CountsTyped
  <2> QED BY <2>1, NotFlushing, CountStays
<1>2. UNCHANGED cases => DatesKept BY DEF DatesKept
<1>3. CASE UNCHANGED vars
  <2>1. UNCHANGED <<cases, bandit, tracker, drained, table, credited, expired, lost, pc>>
    BY <1>3 DEF vars, books, process, learnt
  <2> QED BY <2>1 DEF CountInv, CountsTyped, Apart, Balanced, Flushing, Dated
<1>4. CASE Advance BY <1>1, <1>2, <1>4 DEF Advance, books, process, learnt
<1>5. CASE Traffic BY <1>1, <1>2, <1>5 DEF Traffic, books, learnt
<1>6. CASE Downtime BY <1>1, <1>2, <1>6 DEF Downtime, books, learnt
<1>7. CASE ObligationDue BY <1>1, <1>7, ObligationDueDates DEF ObligationDue, learnt
<1>8. CASE Sense BY <1>8, SenseCounts
<1>9. CASE Feedback BY <1>9, FeedbackCounts
<1>10. CASE Flushed BY <1>10, FlushedCounts
<1>11. CASE FlushFails BY <1>11, FlushFailsCounts
<1>12. ASSUME NEW arm \in Arms, Flush(arm) PROVE CountInv' BY <1>12, FlushCounts
<1>13. ASSUME NEW i \in Ids, NEW arm \in Arms, Decide(i, arm) PROVE CountInv'
  BY <1>13, DecideCounts
<1>14. CASE Decided BY <1>1, <1>2, <1>14 DEF Decided, books, process, learnt
<1>15. CASE Ticked BY <1>1, <1>2, <1>15 DEF Ticked, books, process, learnt
<1>16. CASE Restart BY <1>16, RestartCounts
<1>17. ASSUME NEW row \in rows, Drain(row) PROVE CountInv'
  BY <1>1, <1>17, DrainDates DEF Drain, learnt
<1> QED
  BY <1>3, <1>4, <1>5, <1>6, <1>7, <1>8, <1>9, <1>10, <1>11, <1>12, <1>13, <1>14, <1>15, <1>16,
     <1>17
  DEF Next

\* A decision is learnt from once (src/decision/feedback.ts, bandit.ts,
\* bandit-store.ts), and no count is lost but with a flush that failed or a
\* process that was replaced.
THEOREM CountsAreRight == Spec => []CountedOnce
<1>1. Init => BooksInv /\ CountInv BY BooksInvInit, CountInvInit
<1>2. BooksInv /\ CountInv /\ [Next]_vars => (BooksInv /\ CountInv)'
  BY BooksInvKept, CountInvKept
<1>3. BooksInv /\ CountInv => CountedOnce BY CountInvSuffices
<1> QED BY <1>1, <1>2, <1>3, PTL DEF Spec

-----------------------------------------------------------------------------
(* No recovery is missed: RecoveriesCredited *)

IsTick(t) == t.work.label = "engine-tick"

Ticks == {t \in agenda : IsTick(t)}

\* If there are ticks to come, the next is not after that.
TickBy(at) == Ticks = {} \/ \E t \in Ticks : t.at <= at

\* An hour after a tick there is one, unless it is the last.
Chain ==
  \A t \in Ticks : (\E u \in Ticks : u.at = t.at + HOUR) \/ (\A u \in Ticks : u.at <= t.at)

TicksInv ==
  /\ now \in Int
  /\ \A t \in agenda :
       /\ t.at \in Int /\ t.at >= now
       /\ t.work.label \in {"engine-tick", "background-traffic", "obligation-due", "downtime"}
  /\ Chain /\ TickBy(now + HOUR)

Recovered(i) == cases[i] # None /\ cases[i].state = "RECOVERED"

\* A recovery of the case followed the decision within the window.
Within(d) ==
  /\ Recovered(d.case)
  /\ cases[d.case].resolvedAt >= d.at /\ cases[d.case].resolvedAt - d.at <= ATTRIBUTION

InTick == pc \in {"engine-tick", "feedback"}

\* A tick that comes looks an hour back and sees a recovery of that instant.
Awaited(at) == IF InTick THEN now <= at + HOUR ELSE TickBy(at + HOUR)

WaitedFor == \A d \in tracker : Within(d) => Awaited(cases[d.case].resolvedAt)

Over == \A d \in expired : now - d.at > ATTRIBUTION /\ ~Within(d)

WindowInv == WaitedFor /\ Over

LEMMA WindowInvSuffices == CountInv /\ WindowInv => RecoveriesCredited
BY DEF CountInv, Dated, WindowInv, Over, Within, Recovered, RecoveriesCredited

LEMMA HourIs == HOUR \in Nat /\ HOUR > 0
BY DEF HOUR

LEMMA TasksInTime ==
  ASSUME NEW s \in Scenarios, NEW t \in Tasks(s)
  PROVE  /\ t.at \in Int /\ t.at >= StartAt
         /\ t.work.label \in {"engine-tick", "background-traffic", "obligation-due", "downtime"}
         /\ IsTick(t) => \E h \in 1..(s.hours - 1) : t.at = StartAt + h * HOUR
<1> DEFINE P == /\ t.at \in Int /\ t.at >= StartAt
                /\ t.work.label \in {"engine-tick", "background-traffic", "obligation-due", "downtime"}
                /\ IsTick(t) => \E h \in 1..(s.hours - 1) : t.at = StartAt + h * HOUR
<1>1. s.hours \in Nat /\ s.due \in Seq(Ids) BY ScenarioAssumption DEF Ids
<1>2. CASE t \in Hourly(s, 1, "engine-tick", 0)
  <2>1. PICK h \in 1..(s.hours - 1) : t = Task(StartAt + h * HOUR, "engine-tick", None, 0 + h)
    BY <1>2 DEF Hourly
  <2>2. t.at = StartAt + h * HOUR /\ t.work.label = "engine-tick"
    BY <2>1 DEF Task, Clock!Task
  <2> QED BY <1>1, <2>2, TimelineAssumption DEF HOUR
<1>3. CASE t \in Hourly(s, 0, "background-traffic", s.hours)
  <2>1. PICK h \in 0..(s.hours - 1) :
          t = Task(StartAt + h * HOUR, "background-traffic", None, s.hours + h)
    BY <1>3 DEF Hourly
  <2>2. t.at = StartAt + h * HOUR /\ t.work.label = "background-traffic"
    BY <2>1 DEF Task, Clock!Task
  <2> QED BY <1>1, <2>2, TimelineAssumption DEF HOUR, IsTick
<1>4. ASSUME NEW n, t \in DowntimeTasks(n) PROVE P
  <2>1. PICK k \in DOMAIN WorldEvents :
          /\ parsed(WorldEvents[k]).kind = "gateway_downtime"
          /\ \E event, m :
               \/ t = Task(parsed(WorldEvents[k]).startAt, "downtime", event, m)
               \/ t = Task(parsed(WorldEvents[k]).endAt, "downtime", event, m)
    BY <1>4, Zenon DEF DowntimeTasks
  <2> DEFINE e == parsed(WorldEvents[k])
  <2>2. e \in Timeline BY DEF Timeline
  <2>3. e.startAt \in Int /\ e.endAt \in Int /\ e.startAt < e.endAt /\ e.startAt >= StartAt
    BY <2>1, <2>2, TimelineAssumption, ScenarioAssumption
  <2>4. t.at \in {e.startAt, e.endAt} /\ t.work.label = "downtime"
    BY <2>1 DEF Task, Clock!Task
  <2> HIDE DEF e
  <2> QED BY <2>3, <2>4, TimelineAssumption DEF IsTick
<1>5. CASE t \in DueTasks(s, s.hours + s.hours)
  <2>1. PICK k \in DOMAIN s.due :
          /\ Obligation[s.due[k]].dueAt >= StartAt
          /\ t = Task(Obligation[s.due[k]].dueAt, "obligation-due", s.due[k], (s.hours + s.hours) + k)
    BY <1>5 DEF DueTasks
  <2>2. t.at = Obligation[s.due[k]].dueAt /\ t.work.label = "obligation-due"
    BY <2>1 DEF Task, Clock!Task
  <2>3. s.due[k] \in Ids BY <1>1
  <2> QED BY <2>1, <2>2, <2>3, Population DEF IsTick
<1>6. \/ t \in Hourly(s, 1, "engine-tick", 0)
      \/ t \in Hourly(s, 0, "background-traffic", s.hours)
      \/ t \in DueTasks(s, s.hours + s.hours)
      \/ \E n : t \in DowntimeTasks(n)
  BY DEF Tasks
<1> QED BY <1>2, <1>3, <1>4, <1>5, <1>6

LEMMA TicksInvInit == Init => TicksInv
<1> SUFFICES ASSUME Init PROVE TicksInv OBVIOUS
<1>1. scenario \in Scenarios /\ now = StartAt /\ agenda = Tasks(scenario) /\ StartAt \in Int
  BY TimelineAssumption DEF Init
<1> DEFINE hours == scenario.hours
           Tick(h) == Task(StartAt + h * HOUR, "engine-tick", None, 0 + h)
<1>2. hours \in Nat BY <1>1, ScenarioAssumption
<1>3. ASSUME NEW h \in 1..(hours - 1) PROVE Tick(h) \in Ticks /\ Tick(h).at = StartAt + h * HOUR
  BY <1>1, <1>2 DEF Ticks, IsTick, Tasks, Hourly, Task, Clock!Task
<1>4. \A t \in Ticks : \E h \in 1..(hours - 1) : t.at = StartAt + h * HOUR
  BY <1>1, TasksInTime DEF Ticks
<1> HIDE DEF Tick, hours
<1>5. Chain
  <2> SUFFICES ASSUME NEW t \in Ticks
               PROVE  (\E u \in Ticks : u.at = t.at + HOUR) \/ (\A u \in Ticks : u.at <= t.at)
    BY DEF Chain
  <2>1. PICK h \in 1..(hours - 1) : t.at = StartAt + h * HOUR BY <1>4
  <2>2. CASE h < hours - 1
    <3>1. h + 1 \in 1..(hours - 1) BY <1>2, <2>2
    <3>2. Tick(h + 1) \in Ticks /\ Tick(h + 1).at = StartAt + (h + 1) * HOUR BY <1>3, <3>1
    <3>3. StartAt + (h + 1) * HOUR = t.at + HOUR BY <1>1, <2>1 DEF HOUR
    <3> QED BY <3>2, <3>3
  <2>3. CASE h = hours - 1
    <3>1. ASSUME NEW u \in Ticks PROVE u.at <= t.at
      <4>1. PICK g \in 1..(hours - 1) : u.at = StartAt + g * HOUR BY <1>4
      <4> QED BY <1>1, <1>2, <2>1, <2>3, <4>1 DEF HOUR
    <3> QED BY <3>1
  <2> QED BY <1>2, <2>2, <2>3
<1>6. TickBy(now + HOUR)
  <2>1. CASE hours > 1
    <3>1. 1 \in 1..(hours - 1) BY <1>2, <2>1
    <3>2. Tick(1) \in Ticks /\ Tick(1).at = StartAt + 1 * HOUR BY <1>3, <3>1
    <3> QED BY <1>1, <3>2 DEF TickBy, HOUR
  <2>2. CASE ~(hours > 1)
    <3>1. 1..(hours - 1) = {} BY <1>2, <2>2
    <3> QED BY <1>4, <3>1 DEF TickBy
  <2> QED BY <2>1, <2>2
<1> QED BY <1>1, <1>5, <1>6, TasksInTime DEF TicksInv

\* What the clock does when it runs a task.
LEMMA AdvanceIs ==
  ASSUME TicksInv, Advance
  PROVE  \E t \in agenda :
           /\ agenda' = agenda \ {t} /\ now' = t.at /\ now' \in Int /\ now' >= now
           /\ pc = "idle" /\ pc' = t.work.label
           /\ \A u \in agenda : u.at \in Int /\ u.at >= now'
           /\ UNCHANGED <<cases, tracker, expired>>
<1>1. PICK t \in agenda :
        /\ \A other \in agenda \ {t} : Clock!Precedes(t, other)
        /\ agenda' = agenda \ {t} /\ now' = t.at /\ pc' = t.work.label
        /\ pc = "idle" /\ UNCHANGED <<cases, tracker, expired>>
  BY Zenon DEF Advance, Clock!Run, books, process, learnt
<1>2. t.at \in Int /\ t.at >= now BY DEF TicksInv
<1>3. \A u \in agenda : u.at \in Int /\ u.at >= t.at
  BY <1>1, <1>2 DEF TicksInv, Clock!Precedes
<1> QED BY <1>1, <1>2, <1>3

LEMMA TicksInvKept == TicksInv /\ [Next]_vars => TicksInv'
<1> SUFFICES ASSUME TicksInv, [Next]_vars PROVE TicksInv' OBVIOUS
<1>1. CASE UNCHANGED <<now, agenda>>
  BY <1>1 DEF TicksInv, Chain, TickBy, Ticks, IsTick
<1>2. CASE Advance
  <2>1. PICK t \in agenda :
          /\ agenda' = agenda \ {t} /\ now' = t.at /\ now' \in Int /\ now' >= now
          /\ \A u \in agenda : u.at \in Int /\ u.at >= now'
    BY <1>2, AdvanceIs
  <2>2. \A u \in agenda' :
          /\ u.at \in Int /\ u.at >= now'
          /\ u.work.label \in {"engine-tick", "background-traffic", "obligation-due", "downtime"}
    BY <2>1 DEF TicksInv
  <2>3. Ticks' = Ticks \ {t} BY <2>1 DEF Ticks, IsTick
  <2>4. \A u \in Ticks : u.at \in Int /\ u.at >= t.at BY <2>1 DEF Ticks
  <2>5. Chain'
    <3> SUFFICES ASSUME NEW u \in Ticks'
                 PROVE  (\E v \in Ticks' : v.at = u.at + HOUR) \/ (\A v \in Ticks' : v.at <= u.at)
      BY DEF Chain
    <3>1. u \in Ticks BY <2>3
    <3>2. CASE \E v \in Ticks : v.at = u.at + HOUR
      <4>1. PICK v \in Ticks : v.at = u.at + HOUR BY <3>2
      <4>2. v.at # t.at BY <2>1, <2>4, <3>1, <4>1, HourIs
      <4> QED BY <2>3, <4>1, <4>2
    <3>3. CASE \A v \in Ticks : v.at <= u.at BY <2>3, <3>3
    <3> QED BY <3>1, <3>2, <3>3 DEF TicksInv, Chain
  <2>6. TickBy(now + HOUR)' 
    <3>1. CASE IsTick(t)
      <4>1. t \in Ticks BY <3>1 DEF Ticks
      <4>2. CASE \E u \in Ticks : u.at = t.at + HOUR
        <5>1. PICK u \in Ticks : u.at = t.at + HOUR BY <4>2
        <5>2. u \in Ticks' BY <2>1, <2>3, <5>1, HourIs
        <5> QED BY <2>1, <5>1, <5>2, HourIs DEF TickBy
      <4>3. CASE \A u \in Ticks : u.at <= t.at
        <5>1. \A u \in Ticks' : u.at <= now' + HOUR
          BY <2>1, <2>3, <2>4, <4>3, HourIs
        <5> QED BY <5>1 DEF TickBy
      <4> QED BY <4>1, <4>2, <4>3 DEF TicksInv, Chain
    <3>2. CASE ~IsTick(t)
      <4>1. Ticks' = Ticks BY <2>3, <3>2 DEF Ticks
      <4>2. now \in Int /\ TickBy(now + HOUR) BY DEF TicksInv
      <4>3. CASE Ticks = {} BY <4>1, <4>3 DEF TickBy
      <4>4. CASE Ticks # {}
        <5>1. PICK u \in Ticks : u.at <= now + HOUR BY <4>2, <4>4 DEF TickBy
        <5>2. u.at <= now' + HOUR BY <2>1, <2>4, <4>2, <5>1, HourIs
        <5> QED BY <4>1, <5>1, <5>2 DEF TickBy
      <4> QED BY <4>3, <4>4
    <3> QED BY <3>1, <3>2
  <2> QED BY <2>1, <2>2, <2>5, <2>6 DEF TicksInv
<1>3. Next => Advance \/ UNCHANGED <<now, agenda>>
  BY DEF Next, Traffic, Downtime, ObligationDue, Sense, Feedback, Flushed, FlushFails, Flush, Decide,
         Decided, Ticked, Restart, Drain, Done, Goto
<1>4. UNCHANGED vars => UNCHANGED <<now, agenda>> BY DEF vars
<1> QED BY <1>1, <1>2, <1>3, <1>4

\* A case that becomes recovered, or is again, is so as of now.
RecoversNow ==
  \A j \in Ids : Recovered(j)' =>
    \/ Recovered(j) /\ cases'[j].resolvedAt = cases[j].resolvedAt
    \/ cases'[j].resolvedAt = now

LEMMA MovedRecovers ==
  ASSUME NEW i, Before(i), Moved(i)
  PROVE  RecoversNow
<1>1. PICK w, c, b : Becomes(i, w, c, b) BY DEF Moved
<1>2. ASSUME NEW j \in Ids, Recovered(j)'
      PROVE  \/ Recovered(j) /\ cases'[j].resolvedAt = cases[j].resolvedAt
             \/ cases'[j].resolvedAt = now
  <2>1. DOMAIN cases = Ids /\ cases' = [cases EXCEPT ![i] = c]
        /\ (c # None /\ c.state = "RECOVERED" => c.resolvedAt = now)
    BY <1>1 DEF Before, BooksTyped, Becomes
  <2>2. CASE j = i BY <1>2, <2>1, <2>2 DEF Recovered
  <2>3. CASE j # i BY <1>2, <2>1, <2>3 DEF Recovered
  <2> QED BY <2>2, <2>3
<1> QED BY <1>2 DEF RecoversNow

LEMMA ObligationDueRecovers ==
  ASSUME BooksInv, ObligationDue
  PROVE  RecoversNow
<1>1. task \in Ids /\ Untouched(task) /\ (Abandon(task) \/ Charge(task))
  BY DEF BooksInv, DueOnce, ObligationDue
<1>2. Before(task) /\ cases[task] = None BY <1>1, UntouchedIsBefore DEF Untouched
<1> QED BY <1>1, <1>2, AbandonMoves, ChargeMoves, MovedRecovers

LEMMA DrainRecovers ==
  ASSUME BooksInv, NEW row \in rows, Drain(row)
  PROVE  RecoversNow
<1> DEFINE i == row.case
<1>1. i \in Ids /\ cases[i] # None BY DEF BooksInv, RowsFit
<1>2. CASE StopPaid(row)
  <2>1. cases' = [cases EXCEPT ![i].state = "RECOVERED", ![i].resolvedAt = now]
    BY <1>2 DEF StopPaid
  <2>2. cases \in [Ids -> Cases \cup {None}] /\ cases[i] \in Cases
    BY <1>1 DEF BooksInv, BooksTyped
  <2>3. cases'[i].resolvedAt = now /\ \A j \in Ids \ {i} : cases'[j] = cases[j]
    BY <1>1, <2>1, <2>2 DEF Cases
  <2> QED BY <2>3 DEF RecoversNow, Recovered
<1>3. CASE Dispatch(row)
  <2>1. /\ Owed(cases[i]) > 0
        /\ Charge(i) \/ Contact(i)
    BY <1>3 DEF Dispatch
  <2>2. Before(i) BY <1>1, <2>1, PaidIs
  <2> QED BY <2>1, <2>2, ChargeMoves, ContactMoves, MovedRecovers
<1> QED BY <1>2, <1>3 DEF Drain

LEMMA DecideRecovers ==
  ASSUME BooksInv, NEW i \in Ids, NEW arm \in Arms, Decide(i, arm)
  PROVE  RecoversNow /\ ~Recovered(i)'
<1>1. ~Recovered(i)' /\ \A j \in Ids \ {i} : cases'[j] = cases[j]
  BY DecideIs DEF Recovered
<1> QED BY <1>1 DEF RecoversNow, Recovered

LEMMA RecoveredAt ==
  ASSUME BooksInv, NEW i \in Ids, Recovered(i)
  PROVE  cases[i].resolvedAt \in Int
<1>1. cases[i] # None /\ cases[i].state = "RECOVERED" BY DEF Recovered
<1>2. PaidUp(cases[i], i) BY <1>1, PaidIs DEF Unpaid
<1> QED BY <1>2 DEF PaidUp

\* A step in an instant that waits for nothing new but decisions of open cases.
LEMMA WindowStays ==
  ASSUME BooksInv, TicksInv, CountInv, WindowInv, RecoversNow,
         UNCHANGED <<now, agenda, expired>>,
         ~InTick \/ UNCHANGED cases,
         InTick' = InTick,
         \A d \in tracker' : d \in tracker \/ (d.case \in Ids /\ ~Recovered(d.case)')
  PROVE  WindowInv'
<1>1. /\ now \in Int /\ TickBy(now + HOUR) BY DEF TicksInv
<1>2. ASSUME NEW at PROVE TickBy(at)' <=> TickBy(at)
  BY DEF TickBy, Ticks, IsTick
<1>3. ASSUME NEW d \in tracker', Within(d)' PROVE Awaited(cases[d.case].resolvedAt)'
  <2>1. d.case \in Ids /\ d \in tracker /\ Recovered(d.case)'
    BY <1>3 DEF Within, CountInv, CountsTyped, Decisions
  <2>2. CASE Recovered(d.case) /\ cases'[d.case].resolvedAt = cases[d.case].resolvedAt
    <3>1. Within(d) BY <1>3, <2>1, <2>2 DEF Within
    <3>2. Awaited(cases[d.case].resolvedAt) BY <2>1, <3>1 DEF WindowInv, WaitedFor
    <3> QED BY <1>2, <2>2, <3>2 DEF Awaited
  <2>3. CASE ~(Recovered(d.case) /\ cases'[d.case].resolvedAt = cases[d.case].resolvedAt)
    <3>1. cases'[d.case].resolvedAt = now BY <2>1, <2>3 DEF RecoversNow
    <3>2. ~InTick BY <2>1, <2>3 DEF Recovered
    <3> QED BY <1>1, <1>2, <3>1, <3>2 DEF Awaited
  <2> QED BY <2>2, <2>3
<1>4. ASSUME NEW d \in expired PROVE now - d.at > ATTRIBUTION /\ ~Within(d)'
  <2>1. d.case \in Ids /\ now - d.at > ATTRIBUTION /\ ~Within(d)
    BY DEF WindowInv, Over, CountInv, CountsTyped, Decisions
  <2>2. ASSUME Within(d)' PROVE FALSE
    <3>1. Recovered(d.case)' /\ cases'[d.case].resolvedAt - d.at <= ATTRIBUTION
          /\ cases'[d.case].resolvedAt >= d.at
      BY <2>2 DEF Within
    <3>2. CASE Recovered(d.case) /\ cases'[d.case].resolvedAt = cases[d.case].resolvedAt
      BY <2>1, <3>1, <3>2 DEF Within
    <3>3. CASE cases'[d.case].resolvedAt = now
      <4>1. d.at \in Int /\ ATTRIBUTION \in Int
        BY ScenarioAssumption DEF CountInv, CountsTyped, Decisions
      <4> QED BY <1>1, <2>1, <3>1, <3>3, <4>1
    <3> QED BY <2>1, <3>1, <3>2, <3>3 DEF RecoversNow
  <2> QED BY <2>1, <2>2
<1>5. WaitedFor' BY <1>3 DEF WaitedFor
<1>6. Over' BY <1>4 DEF Over
<1> QED BY <1>5, <1>6 DEF WindowInv

LEMMA AdvanceWindow ==
  ASSUME BooksInv, TicksInv, CountInv, WindowInv, Advance
  PROVE  WindowInv'
<1>1. PICK t \in agenda :
        /\ agenda' = agenda \ {t} /\ now' = t.at /\ now' \in Int /\ now' >= now
        /\ pc = "idle" /\ pc' = t.work.label
        /\ \A u \in agenda : u.at \in Int /\ u.at >= now'
        /\ UNCHANGED <<cases, tracker, expired>>
  BY AdvanceIs
<1>2. now \in Int /\ t.work.label # "feedback" /\ ~InTick BY <1>1 DEF TicksInv, InTick
<1>3. Ticks' = Ticks \ {t} BY <1>1 DEF Ticks, IsTick
<1>4. ASSUME NEW d \in tracker, Within(d)' PROVE Awaited(cases[d.case].resolvedAt)'
  <2> DEFINE at == cases[d.case].resolvedAt
  <2>1. d.case \in Ids BY DEF CountInv, CountsTyped, Decisions
  <2>2. Within(d) BY <1>1, <1>4 DEF Within, Recovered
  <2>3. TickBy(at + HOUR) BY <1>2, <2>2 DEF WindowInv, WaitedFor, Awaited
  <2>4. at \in Int BY <2>1, <2>2, RecoveredAt DEF Within
  <2>5. at' = at BY <1>1
  <2>6. CASE IsTick(t)
    <3>1. t \in Ticks BY <2>6 DEF Ticks
    <3>2. PICK u \in Ticks : u.at <= at + HOUR BY <2>3, <3>1 DEF TickBy
    <3>3. now' <= at + HOUR BY <1>1, <2>4, <3>2, HourIs DEF Ticks
    <3>4. InTick' BY <1>1, <2>6 DEF InTick, IsTick
    <3> QED BY <2>5, <3>3, <3>4 DEF Awaited
  <2>7. CASE ~IsTick(t)
    <3>1. Ticks' = Ticks BY <1>3, <2>7 DEF Ticks
    <3>2. TickBy(at + HOUR)' BY <2>3, <2>5, <3>1 DEF TickBy
    <3>3. ~InTick' BY <1>1, <1>2, <2>7 DEF InTick, IsTick
    <3> QED BY <3>2, <3>3 DEF Awaited
  <2> QED BY <2>6, <2>7
<1>5. ASSUME NEW d \in expired PROVE now' - d.at > ATTRIBUTION /\ ~Within(d)'
  <2>1. now - d.at > ATTRIBUTION /\ ~Within(d) /\ d.at \in Int /\ ATTRIBUTION \in Int
    BY ScenarioAssumption DEF WindowInv, Over, CountInv, CountsTyped, Decisions
  <2> QED BY <1>1, <1>2, <2>1 DEF Within, Recovered
<1>6. WaitedFor' BY <1>1, <1>4 DEF WaitedFor
<1>7. Over' BY <1>1, <1>5 DEF Over
<1> QED BY <1>6, <1>7 DEF WindowInv

\* What a tick takes for a failure was followed by no recovery: that would have
\* been credited by now.
LEMMA FeedbackWindow ==
  ASSUME BooksInv, TicksInv, CountInv, WindowInv, Feedback
  PROVE  WindowInv'
<1>1. PICK good, bad :
        /\ good = UNION {Credited(tracker, i, cases[i].resolvedAt) : i \in RecoveredSince(now - HOUR)}
        /\ bad = Expired(tracker \ good, now)
        /\ tracker' = tracker \ (good \cup bad) /\ expired' = expired \cup bad
  BY FeedbackIs
<1>2. pc = "feedback" /\ UNCHANGED <<now, cases>> BY DEF Feedback, Goto, books
<1>3. ASSUME NEW d \in tracker, Within(d) PROVE d \in good
  <2> DEFINE at == cases[d.case].resolvedAt
  <2>1. d.case \in Ids BY DEF CountInv, CountsTyped, Decisions
  <2>2. at \in Int /\ now \in Int BY <1>3, <2>1, RecoveredAt DEF Within, TicksInv
  <2>3. now <= at + HOUR BY <1>2, <1>3 DEF WindowInv, WaitedFor, Awaited, InTick
  <2>4. at >= now - HOUR BY <2>2, <2>3, HourIs
  <2>5. d.case \in RecoveredSince(now - HOUR) BY <1>3, <2>1, <2>4 DEF RecoveredSince, Within, Recovered
  <2>6. d \in Credited(tracker, d.case, at) BY <1>3 DEF Credited, Within
  <2> QED BY <1>1, <2>5, <2>6
<1>4. \A d : Within(d)' <=> Within(d) BY <1>2 DEF Within, Recovered
<1>5. WaitedFor' BY <1>1, <1>3, <1>4 DEF WaitedFor
<1>6. \A d \in bad : d \in tracker /\ d \notin good /\ now - d.at > ATTRIBUTION
  BY <1>1 DEF Expired
<1>7. Over' BY <1>1, <1>2, <1>3, <1>4, <1>6 DEF WindowInv, Over
<1> QED BY <1>5, <1>7 DEF WindowInv

LEMMA WindowInvKept ==
  BooksInv /\ TicksInv /\ CountInv /\ WindowInv /\ [Next]_vars => WindowInv'
<1> SUFFICES ASSUME BooksInv, TicksInv, CountInv, WindowInv, [Next]_vars PROVE WindowInv' OBVIOUS
<1> DEFINE Rest == /\ RecoversNow /\ UNCHANGED <<now, agenda, expired>>
                   /\ ~InTick \/ UNCHANGED cases
                   /\ InTick' = InTick /\ tracker' \subseteq tracker
<1>1. Rest => WindowInv' BY WindowStays
<1>2. UNCHANGED cases => RecoversNow BY DEF RecoversNow, Recovered
<1> HIDE DEF Rest
<1>3. CASE UNCHANGED vars
  <2>1. UNCHANGED <<now, agenda, cases, tracker, expired, pc>> BY <1>3 DEF vars, books, process, learnt
  <2> QED BY <1>1, <1>2, <2>1 DEF Rest, InTick
<1>4. CASE Advance BY <1>4, AdvanceWindow
<1>5. CASE Traffic BY <1>1, <1>2, <1>5 DEF Traffic, Done, books, learnt, Rest, InTick
<1>6. CASE Downtime BY <1>1, <1>2, <1>6 DEF Downtime, Done, books, learnt, Rest, InTick
<1>7. CASE ObligationDue
  BY <1>1, <1>7, ObligationDueRecovers DEF ObligationDue, Done, learnt, Rest, InTick
<1>8. CASE Sense BY <1>1, <1>2, <1>8 DEF Sense, Goto, books, learnt, Rest, InTick
<1>9. CASE Feedback BY <1>9, FeedbackWindow
<1>10. CASE Flushed BY <1>1, <1>2, <1>10 DEF Flushed, Goto, books, process, learnt, Rest, InTick
<1>11. CASE FlushFails BY <1>1, <1>2, <1>11 DEF FlushFails, Done, books, Rest, InTick
<1>12. ASSUME NEW arm \in Arms, Flush(arm) PROVE WindowInv'
  BY <1>1, <1>2, <1>12 DEF Flush, Goto, books, Rest, InTick
<1>13. ASSUME NEW i \in Ids, NEW arm \in Arms, Decide(i, arm) PROVE WindowInv'
  <2>1. RecoversNow /\ ~Recovered(i)' BY <1>13, DecideRecovers
  <2>2. /\ tracker' = tracker \cup {[case |-> i, arm |-> arm, at |-> now]}
        /\ UNCHANGED <<now, agenda, expired>> /\ pc = "decide" /\ pc' = "decide"
    BY <1>13 DEF Decide, Goto, record, learnt
  <2>3. \A d \in tracker' : d \in tracker \/ (d.case \in Ids /\ ~Recovered(d.case)')
    BY <2>1, <2>2
  <2> QED BY <2>1, <2>2, <2>3, WindowStays DEF InTick
<1>14. CASE Decided BY <1>1, <1>2, <1>14 DEF Decided, Goto, books, process, learnt, Rest, InTick
<1>15. CASE Ticked BY <1>1, <1>2, <1>15 DEF Ticked, Done, books, process, learnt, Rest, InTick
<1>16. CASE Restart
  <2>1. tracker' = {} /\ UNCHANGED <<now, cases, expired>> BY <1>16 DEF Restart, NewProcess, Done, books
  <2>2. \A d : Within(d)' <=> Within(d) BY <2>1 DEF Within, Recovered
  <2> QED BY <2>1, <2>2 DEF WindowInv, WaitedFor, Over
<1>17. ASSUME NEW row \in rows, Drain(row) PROVE WindowInv'
  BY <1>1, <1>17, DrainRecovers DEF Drain, Goto, learnt, Rest, InTick
<1> QED
  BY <1>3, <1>4, <1>5, <1>6, <1>7, <1>8, <1>9, <1>10, <1>11, <1>12, <1>13, <1>14, <1>15, <1>16,
     <1>17
  DEF Next

\* No decision that a recovery followed in time is learnt from as a failure
\* (src/decision/feedback.ts, scripts/lib/scenario.ts): ticks an hour apart,
\* each of which looks an hour back, see every recovery.
THEOREM NoRecoveryIsMissed == Spec => []RecoveriesCredited
<1> DEFINE IInv == BooksInv /\ TicksInv /\ CountInv /\ WindowInv
<1>1. Init => IInv
  <2>1. Init => WindowInv BY DEF Init, WindowInv, WaitedFor, Over
  <2> QED BY <2>1, BooksInvInit, TicksInvInit, CountInvInit
<1>2. IInv /\ [Next]_vars => IInv'
  BY BooksInvKept, TicksInvKept, CountInvKept, WindowInvKept
<1>3. IInv => RecoveriesCredited BY WindowInvSuffices
<1> QED BY <1>1, <1>2, <1>3, PTL DEF Spec

-----------------------------------------------------------------------------
(* Sums over the instants of a window *)

LEMMA NatHasLeast ==
  ASSUME NEW Nums \in SUBSET Nat, Nums # {}
  PROVE  \E x \in Nums : \A y \in Nums : x <= y
<1>1. PICK x \in Nums : \A y \in Nums : <<y, x>> \notin OpToRel(<, Nat)
  BY NatLessThanWellFounded, WFMin
<1>2. \A y \in Nums : ~(y < x)
  BY <1>1, Zenon DEF OpToRel
<1> QED BY <1>2

\* Sums over the sets of instants in a window: f is summed, g has the sums of
\* the smaller sets.
Some(s) == CHOOSE x \in s : TRUE
SumFrom(f, g, s) == IF s = {} THEN 0 ELSE f[Some(s)] + g[s \ {Some(s)}]

Counting(f) == IsFiniteSet(DOMAIN f) /\ \A t \in DOMAIN f : f[t] \in Nat

\* One is taken away, and the set is smaller by one.
LEMMA OneLess ==
  ASSUME NEW D, IsFiniteSet(D), NEW s \in SUBSET D, s # {}
  PROVE  /\ Cardinality(s) \in Nat \ {0} /\ s \ {Some(s)} \in SUBSET D
         /\ Cardinality(s \ {Some(s)}) = Cardinality(s) - 1
         /\ Some(s) \in s
<1>1. Some(s) \in s BY DEF Some
<1>2. IsFiniteSet(s) BY FS_Subset
<1>3. Cardinality(s \ {Some(s)}) = Cardinality(s) - 1
  BY <1>1, <1>2, FS_RemoveElement
<1>4. Cardinality(s) \in Nat /\ Cardinality(s) # 0
  BY <1>2, FS_CardinalityType, FS_EmptySet
<1> QED BY <1>1, <1>3, <1>4

\* The sums of all sets of up to n.
SumsUpTo(f, n, g) ==
  /\ g \in [SUBSET DOMAIN f -> Nat]
  /\ \A s \in SUBSET DOMAIN f : Cardinality(s) <= n => g[s] = SumFrom(f, g, s)

LEMMA SumsGrow ==
  ASSUME NEW f, Counting(f), NEW n \in Nat, NEW g, SumsUpTo(f, n, g)
  PROVE  \E h : SumsUpTo(f, n + 1, h)
<1> DEFINE D == DOMAIN f
           h == [s \in SUBSET D |-> IF Cardinality(s) <= n THEN g[s] ELSE SumFrom(f, g, s)]
<1>1. ASSUME NEW s \in SUBSET D PROVE h[s] \in Nat
  <2>1. g[s] \in Nat /\ h[s] \in {g[s], SumFrom(f, g, s)} BY DEF SumsUpTo
  <2>2. CASE s = {} BY <2>1, <2>2 DEF SumFrom
  <2>3. CASE s # {}
    <3>1. s \ {Some(s)} \in SUBSET D /\ f[Some(s)] \in Nat
      BY <2>3, OneLess DEF Counting
    <3>2. g[s \ {Some(s)}] \in Nat BY <3>1 DEF SumsUpTo
    <3> QED BY <2>1, <2>3, <3>1, <3>2 DEF SumFrom
  <2> QED BY <2>2, <2>3
<1>2. h \in [SUBSET D -> Nat] BY <1>1
<1>3. ASSUME NEW s \in SUBSET D, Cardinality(s) <= n + 1
      PROVE  h[s] = SumFrom(f, h, s)
  <2>1. CASE s = {}
    <3>1. Cardinality(s) = 0 /\ g[s] = 0
      BY <2>1, FS_EmptySet DEF SumsUpTo, SumFrom
    <3> QED BY <2>1, <3>1 DEF SumFrom
  <2>2. CASE s # {}
    <3>1. /\ Cardinality(s) \in Nat /\ s \ {Some(s)} \in SUBSET D
          /\ Cardinality(s \ {Some(s)}) = Cardinality(s) - 1
      BY <2>2, OneLess DEF Counting
    <3>2. Cardinality(s \ {Some(s)}) <= n BY <1>3, <3>1
    <3>3. h[s \ {Some(s)}] = g[s \ {Some(s)}] BY <3>1, <3>2
    <3>4. SumFrom(f, h, s) = SumFrom(f, g, s) BY <2>2, <3>3 DEF SumFrom
    <3>5. Cardinality(s) <= n => g[s] = SumFrom(f, g, s) BY DEF SumsUpTo
    <3>6. h[s] = SumFrom(f, g, s) BY <3>5
    <3> QED BY <3>4, <3>6
  <2> QED BY <2>1, <2>2
<1> HIDE DEF h
<1> QED BY <1>2, <1>3 DEF SumsUpTo

LEMMA SumsExist ==
  ASSUME NEW f, Counting(f)
  PROVE  \E g \in [SUBSET DOMAIN f -> Nat] : \A s \in SUBSET DOMAIN f : g[s] = SumFrom(f, g, s)
<1> DEFINE Nums == {m \in Nat : ~\E g : SumsUpTo(f, m, g)}
<1>1. ASSUME Nums # {} PROVE FALSE
  <2>1. PICK m \in Nums : \A l \in Nums : m <= l
    <3> HIDE DEF Nums
    <3>1. Nums \in SUBSET Nat BY DEF Nums
    <3> QED BY <1>1, <3>1, NatHasLeast
  <2>2. SumsUpTo(f, 0, [s \in SUBSET DOMAIN f |-> 0])
    <3>1. ASSUME NEW s \in SUBSET DOMAIN f, Cardinality(s) <= 0 PROVE s = {}
      <4>1. s # {} => Cardinality(s) \in Nat \ {0} BY OneLess DEF Counting
      <4> QED BY <3>1, <4>1
    <3> QED BY <3>1 DEF SumsUpTo, SumFrom
  <2>3. m # 0 BY <2>1, <2>2
  <2>4. m - 1 \in Nat /\ m - 1 \notin Nums /\ (m - 1) + 1 = m BY <2>1, <2>3
  <2>5. PICK g : SumsUpTo(f, m - 1, g) BY <2>4
  <2>6. \E h : SumsUpTo(f, m, h) BY <2>4, <2>5, SumsGrow
  <2> QED BY <2>1, <2>6
<1>2. /\ Cardinality(DOMAIN f) \in Nat
      /\ \A s \in SUBSET DOMAIN f : Cardinality(s) \in Nat /\ Cardinality(s) <= Cardinality(DOMAIN f)
  BY FS_Subset, FS_CardinalityType DEF Counting
<1>3. PICK g : SumsUpTo(f, Cardinality(DOMAIN f), g) BY <1>1, <1>2
<1> QED BY <1>2, <1>3 DEF SumsUpTo

AttemptsFrom(c, g, s) == IF s = {} THEN 0 ELSE c.made[Some(s)].n + g[s \ {Some(s)}]
SuccessesFrom(c, g, s) == IF s = {} THEN 0 ELSE c.made[Some(s)].s + g[s \ {Some(s)}]

LEMMA SumsAre ==
  ASSUME NEW c, NEW at
  PROVE  /\ Attempts(c, at) =
              (CHOOSE g : g = [s \in SUBSET InWindow(c, at) |-> AttemptsFrom(c, g, s)])[InWindow(c, at)]
         /\ Successes(c, at) =
              (CHOOSE g : g = [s \in SUBSET InWindow(c, at) |-> SuccessesFrom(c, g, s)])[InWindow(c, at)]
BY Zenon DEF Attempts, Successes, MapThenSumSet, MapThenFoldSet, AttemptsFrom, SuccessesFrom, Some

\* What is counted of a cohort: of finitely many instants, no more successes
\* than attempts.
Tallied(c) ==
  /\ IsFiniteSet(DOMAIN c.made)
  /\ \A t \in DOMAIN c.made :
       c.made[t].n \in Nat /\ c.made[t].s \in Nat /\ c.made[t].s <= c.made[t].n

\* So it is of a window.
LEMMA Shares ==
  ASSUME NEW c, Tallied(c), NEW at
  PROVE  /\ Attempts(c, at) \in Nat /\ Successes(c, at) \in Nat
         /\ Successes(c, at) <= Attempts(c, at)
<1> DEFINE W == InWindow(c, at)
           a == CHOOSE g : g = [s \in SUBSET W |-> AttemptsFrom(c, g, s)]
           b == CHOOSE g : g = [s \in SUBSET W |-> SuccessesFrom(c, g, s)]
<1>1. /\ W \subseteq DOMAIN c.made /\ IsFiniteSet(W)
      /\ \A t \in W : c.made[t].n \in Nat /\ c.made[t].s \in Nat /\ c.made[t].s <= c.made[t].n
  BY FS_Subset DEF InWindow, Tallied
<1>2. Attempts(c, at) = a[W] /\ Successes(c, at) = b[W] BY SumsAre, Zenon
<1> HIDE DEF W
<1>3. a = [s \in SUBSET W |-> AttemptsFrom(c, a, s)]
  <2> DEFINE f == [t \in W |-> c.made[t].n]
  <2>1. Counting(f) /\ DOMAIN f = W BY <1>1 DEF Counting
  <2>2. PICK g \in [SUBSET W -> Nat] : \A s \in SUBSET W : g[s] = SumFrom(f, g, s)
    BY <2>1, SumsExist
  <2>3. ASSUME NEW s \in SUBSET W PROVE g[s] = AttemptsFrom(c, g, s)
    <3>1. s # {} => f[Some(s)] = c.made[Some(s)].n BY <1>1, OneLess
    <3> QED BY <2>2, <3>1 DEF SumFrom, AttemptsFrom
  <2>4. g = [s \in SUBSET W |-> AttemptsFrom(c, g, s)] BY <2>3
  <2> QED BY <2>4
<1>4. b = [s \in SUBSET W |-> SuccessesFrom(c, b, s)]
  <2> DEFINE f == [t \in W |-> c.made[t].s]
  <2>1. Counting(f) /\ DOMAIN f = W BY <1>1 DEF Counting
  <2>2. PICK g \in [SUBSET W -> Nat] : \A s \in SUBSET W : g[s] = SumFrom(f, g, s)
    BY <2>1, SumsExist
  <2>3. ASSUME NEW s \in SUBSET W PROVE g[s] = SuccessesFrom(c, g, s)
    <3>1. s # {} => f[Some(s)] = c.made[Some(s)].s BY <1>1, OneLess
    <3> QED BY <2>2, <3>1 DEF SumFrom, SuccessesFrom
  <2>4. g = [s \in SUBSET W |-> SuccessesFrom(c, g, s)] BY <2>3
  <2> QED BY <2>4
<1> HIDE DEF a, b
<1> DEFINE Right(s) == a[s] \in Nat /\ b[s] \in Nat /\ b[s] <= a[s]
           Nums == {Cardinality(s) : s \in {s \in SUBSET W : ~Right(s)}}
<1>5. \A s \in SUBSET W : Cardinality(s) \in Nat
  BY <1>1, FS_Subset, FS_CardinalityType
<1>6. ASSUME Nums # {} PROVE FALSE
  <2>1. PICK m \in Nums : \A l \in Nums : m <= l
    <3>1. Nums \in SUBSET Nat BY <1>5
    <3> HIDE DEF Nums
    <3> QED BY <1>6, <3>1, NatHasLeast
  <2>2. PICK s \in SUBSET W : ~Right(s) /\ m = Cardinality(s) BY <2>1
  <2>3. a[s] = AttemptsFrom(c, a, s) /\ b[s] = SuccessesFrom(c, b, s) BY <1>3, <1>4
  <2>4. s # {}
    <3>1. s = {} => a[s] = 0 /\ b[s] = 0 BY <2>3 DEF AttemptsFrom, SuccessesFrom
    <3> QED BY <2>2, <3>1
  <2> DEFINE x == Some(s)
             r == s \ {x}
  <2>5. x \in W /\ r \in SUBSET W /\ Cardinality(r) = m - 1 /\ m \in Nat
    BY <1>1, <1>5, <2>2, <2>4, OneLess
  <2>6. Right(r)
    <3>1. Cardinality(r) \notin Nums BY <2>1, <2>5
    <3> QED BY <2>5, <3>1
  <2>7. a[s] = c.made[x].n + a[r] /\ b[s] = c.made[x].s + b[r]
    BY <2>3, <2>4 DEF AttemptsFrom, SuccessesFrom
  <2> HIDE DEF x, r
  <2>8. Right(s) BY <1>1, <2>5, <2>6, <2>7
  <2> QED BY <2>2, <2>8
<1>7. Right(W) BY <1>6
<1> QED BY <1>2, <1>7

LEMMA ShareIs ==
  ASSUME NEW s \in Nat, NEW n \in Nat \ {0}, s <= n
  PROVE  Rounded(100 * s, n) \in 0..100
<1> DEFINE a == 2 * (100 * s) + n
           b == 2 * n
           q == a \div b
<1>1. a \in Nat /\ b \in Nat \ {0} /\ a < 101 * b OBVIOUS
<1> HIDE DEF a, b
<1>2. q \in 0..100 BY <1>1
<1> QED BY <1>2 DEF a, b, Rounded

LEMMA MeanIs ==
  ASSUME NEW r \in 0..100, NEW x \in 0..100
  PROVE  Rounded(4 * r + x, 5) \in 0..100
BY DEF Rounded

-----------------------------------------------------------------------------
(* What the detector has of a cohort, and what a tick makes of it *)

CohortFits(c) ==
  /\ Tallied(c)
  /\ c = [made |-> c.made, rate |-> c.rate, samples |-> c.samples, suspect |-> c.suspect,
          inARow |-> c.inARow]
  /\ c.rate \in 0..100

LEMMA NewCohortFits == CohortFits(NewCohort)
<1>1. NewCohort.made = <<>> /\ DOMAIN <<>> = {} BY DEF NewCohort
<1>2. Tallied(NewCohort) BY <1>1, FS_EmptySet DEF Tallied
<1> QED BY <1>2 DEF CohortFits, NewCohort

LEMMA ObserveFits ==
  ASSUME NEW c, CohortFits(c), NEW at, NEW n \in Nat, NEW s \in Nat, s <= n
  PROVE  CohortFits(observe(c, at, n, s))
<1> DEFINE m == [t \in DOMAIN c.made \cup {at} |->
                   IF t = at THEN [n |-> CountsAt(c, at).n + n, s |-> CountsAt(c, at).s + s]
                   ELSE c.made[t]]
           d == [c EXCEPT !.made = m]
<1>1. observe(c, at, n, s) = d BY DEF observe
<1>2. IsFiniteSet(DOMAIN m) BY FS_AddElement DEF CohortFits, Tallied
<1>3. ASSUME NEW t \in DOMAIN m PROVE m[t].n \in Nat /\ m[t].s \in Nat /\ m[t].s <= m[t].n
  <2>1. CountsAt(c, at).n \in Nat /\ CountsAt(c, at).s \in Nat /\ CountsAt(c, at).s <= CountsAt(c, at).n
    BY DEF CountsAt, CohortFits, Tallied
  <2> QED BY <2>1 DEF CohortFits, Tallied
<1> HIDE DEF m
<1>4. d = [made |-> m, rate |-> c.rate, samples |-> c.samples, suspect |-> c.suspect, inARow |-> c.inARow]
  BY DEF CohortFits
<1>5. c.rate \in 0..100 BY DEF CohortFits
<1> HIDE DEF d
<1>6. Tallied(d) BY <1>2, <1>3, <1>4 DEF Tallied
<1> QED BY <1>1, <1>4, <1>5, <1>6 DEF CohortFits

LEMMA JudgedIs ==
  ASSUME NEW c, CohortFits(c), NEW short \in BOOLEAN
  PROVE  Judged(c, short) = [made |-> c.made, rate |-> c.rate, samples |-> c.samples,
                             suspect |-> short, inARow |-> IF short THEN c.inARow + 1 ELSE 0]
<1> DEFINE v == IF short THEN c.inARow + 1 ELSE 0
           d == [c EXCEPT !.suspect = short]
<1>1. Judged(c, short) = [d EXCEPT !.inARow = v] BY Zenon DEF Judged
<1>2. d = [made |-> c.made, rate |-> c.rate, samples |-> c.samples, suspect |-> short,
           inARow |-> c.inARow]
  BY DEF CohortFits
<1> HIDE DEF d, v
<1>3. [d EXCEPT !.inARow = v] = [made |-> c.made, rate |-> c.rate, samples |-> c.samples,
                                 suspect |-> short, inARow |-> v]
  BY <1>2
<1> QED BY <1>1, <1>3 DEF v

LEMMA LearntIs ==
  ASSUME NEW c, CohortFits(c), NEW x
  PROVE  Learnt(c, x) = [made |-> c.made,
                         rate |-> IF c.samples = 0 THEN x ELSE Rounded(4 * c.rate + x, 5),
                         samples |-> c.samples + 1, suspect |-> c.suspect, inARow |-> c.inARow]
<1> DEFINE v == IF c.samples = 0 THEN x ELSE Rounded(4 * c.rate + x, 5)
           n == c.samples + 1
           d == [c EXCEPT !.rate = v]
<1>1. Learnt(c, x) = [d EXCEPT !.samples = n] BY Zenon DEF Learnt
<1> HIDE DEF v, n
<1>2. d = [made |-> c.made, rate |-> v, samples |-> c.samples, suspect |-> c.suspect,
           inARow |-> c.inARow]
  BY DEF CohortFits
<1> HIDE DEF d
<1>3. [d EXCEPT !.samples = n] = [made |-> c.made, rate |-> v, samples |-> n,
                                  suspect |-> c.suspect, inARow |-> c.inARow]
  BY <1>2
<1> QED BY <1>1, <1>3 DEF v, n

LEMMA JudgedFits ==
  ASSUME NEW c, CohortFits(c), NEW at
  PROVE  CohortFits(evaluate(c, at))
<1> DEFINE short == Warm(c) /\ FallsShort(Attempts(c, at), Successes(c, at), c.rate)
           d == Judged(c, short)
<1>1. evaluate(c, at) = d BY DEF evaluate
<1>2. short \in BOOLEAN BY DEF Warm, FallsShort
<1> HIDE DEF short
<1>3. d = [made |-> c.made, rate |-> c.rate, samples |-> c.samples, suspect |-> short,
           inARow |-> IF short THEN c.inARow + 1 ELSE 0]
  BY <1>2, JudgedIs
<1>4. Tallied(c) /\ c.rate \in 0..100 BY DEF CohortFits
<1> HIDE DEF d
<1>5. Tallied(d) BY <1>3, <1>4 DEF Tallied
<1>6. CohortFits(d) BY <1>3, <1>4, <1>5 DEF CohortFits
<1> QED BY <1>1, <1>6

LEMMA LearntFits ==
  ASSUME NEW c, CohortFits(c), NEW at
  PROVE  /\ CohortFits(learnBaselines(c, at))
         /\ learnBaselines(c, at).inARow = c.inARow
<1> DEFINE n == Attempts(c, at)
           s == Successes(c, at)
           x == Rounded(100 * s, n)
           r == IF c.samples = 0 THEN x ELSE Rounded(4 * c.rate + x, 5)
           d == Learnt(c, x)
<1>1. CASE n < MIN_VOLUME \/ c.suspect BY <1>1 DEF learnBaselines
<1>2. CASE ~(n < MIN_VOLUME \/ c.suspect)
  <2>1. n \in Nat /\ s \in Nat /\ s <= n BY Shares DEF CohortFits
  <2>2. MIN_VOLUME \in Nat \ {0} BY DetectorAssumption
  <2>3. n \in Nat \ {0} BY <1>2, <2>1, <2>2
  <2>4. x \in 0..100
    <3> HIDE DEF n, s
    <3> QED BY <2>1, <2>3, ShareIs
  <2>5. learnBaselines(c, at) = d BY <1>2 DEF learnBaselines
  <2> HIDE DEF n, s, x
  <2>6. c.rate \in 0..100 /\ Tallied(c) BY DEF CohortFits
  <2>7. r \in 0..100 BY <2>4, <2>6, MeanIs
  <2>8. d = [made |-> c.made, rate |-> r, samples |-> c.samples + 1, suspect |-> c.suspect,
             inARow |-> c.inARow]
    BY LearntIs
  <2> HIDE DEF d, r
  <2>9. Tallied(d) BY <2>6, <2>8 DEF Tallied
  <2> QED BY <2>5, <2>7, <2>8, <2>9 DEF CohortFits
<1> QED BY <1>1, <1>2

LEMMA PruneFits ==
  ASSUME NEW c, CohortFits(c), NEW before
  PROVE  CohortFits(prune(c, before)) /\ prune(c, before).inARow = c.inARow
<1> DEFINE kept == {t \in DOMAIN c.made : t >= before}
           m == [t \in kept |-> c.made[t]]
           d == [c EXCEPT !.made = m]
<1>1. prune(c, before) = d BY DEF prune, Restrict
<1>2. IsFiniteSet(kept) BY FS_Subset DEF CohortFits, Tallied
<1>3. \A t \in DOMAIN m : m[t].n \in Nat /\ m[t].s \in Nat /\ m[t].s <= m[t].n
  BY DEF CohortFits, Tallied
<1>4. DOMAIN m = kept OBVIOUS
<1> HIDE DEF m, kept
<1>5. d = [made |-> m, rate |-> c.rate, samples |-> c.samples, suspect |-> c.suspect, inARow |-> c.inARow]
  BY DEF CohortFits
<1> HIDE DEF d
<1>6. Tallied(d) BY <1>2, <1>3, <1>4, <1>5 DEF Tallied
<1> QED BY <1>1, <1>5, <1>6 DEF CohortFits

\* A tick pauses a cohort only if its window falls short of what was learnt.
LEMMA SensedIs ==
  ASSUME NEW c, CohortFits(c), NEW at
  PROVE  /\ CohortFits(Sensed(c, at))
         /\ Degraded(Sensed(c, at)) => FallsShort(Attempts(c, at), Successes(c, at), c.rate)
<1> DEFINE d == evaluate(c, at)
           e == learnBaselines(d, at)
<1>1. CohortFits(d) BY JudgedFits
<1> HIDE DEF d
<1>2. CohortFits(e) /\ e.inARow = d.inARow BY <1>1, LearntFits
<1> HIDE DEF e
<1>3. CohortFits(prune(e, at - RETENTION)) /\ prune(e, at - RETENTION).inARow = e.inARow
  BY <1>2, PruneFits
<1>4. Sensed(c, at) = prune(e, at - RETENTION) BY DEF Sensed, d, e
<1>5. ~FallsShort(Attempts(c, at), Successes(c, at), c.rate) => d.inARow = 0
  <2> DEFINE short == Warm(c) /\ FallsShort(Attempts(c, at), Successes(c, at), c.rate)
  <2>1. d = Judged(c, short) BY DEF d, evaluate
  <2>2. ASSUME ~FallsShort(Attempts(c, at), Successes(c, at), c.rate) PROVE ~short BY <2>2
  <2> HIDE DEF short
  <2>3. ~short => d.inARow = 0 BY <2>1 DEF Judged, CohortFits
  <2> QED BY <2>2, <2>3
<1>6. CONSECUTIVE \in Nat \ {0} BY DetectorAssumption
<1>7. Degraded(Sensed(c, at)) => d.inARow >= CONSECUTIVE BY <1>2, <1>3, <1>4 DEF Degraded
<1> QED BY <1>3, <1>4, <1>5, <1>6, <1>7

\* With a rate of at most all, what falls short of it has lost its share.
LEMMA ShortIs ==
  ASSUME NEW n \in Nat, NEW s \in Nat, NEW rate \in 0..100, FallsShort(n, s, rate)
  PROVE  n >= MIN_VOLUME /\ 100 * s < (100 - DROP) * n
<1>1. n >= MIN_VOLUME /\ rate * n - 100 * s > DROP * n BY DEF FallsShort
<1>2. DROP \in Nat BY DetectorAssumption
<1> DEFINE rn == rate * n
           dn == DROP * n
<1>3. rn \in Nat /\ dn \in Nat /\ rn <= 100 * n BY <1>2
<1>4. (100 - DROP) * n = 100 * n - dn BY <1>2
<1> HIDE DEF rn, dn
<1>5. rn - 100 * s > dn BY <1>1 DEF rn, dn
<1>6. 100 * s < 100 * n - dn BY <1>3, <1>5
<1> QED BY <1>1, <1>4, <1>6

-----------------------------------------------------------------------------
(* What a delivery makes of it *)

ObservedFrom(d, events, g, s) ==
  IF s = {} THEN d ELSE Observed(g[s \ {Max(s)}], events[Max(s)])

ObservedAll(d, events) == FoldLeft(Observed, d, events)

LEMMA ObservedIs ==
  ASSUME NEW d, NEW events
  PROVE  ObservedAll(d, events) =
           (CHOOSE g : g = [s \in SUBSET DOMAIN events |-> ObservedFrom(d, events, g, s)])
             [DOMAIN events]
BY Zenon DEF ObservedAll, FoldLeft, MapThenFoldSet, ObservedFrom

LEMMA ObservedOne ==
  ASSUME NEW c, NEW x
  PROVE  ObservedAll(c, <<x>>) = Observed(c, x)
<1> DEFINE events == <<x>>
           F(g) == [s \in SUBSET DOMAIN events |-> ObservedFrom(c, events, g, s)]
           f == [s \in SUBSET {1} |-> IF s = {} THEN c ELSE Observed(c, x)]
           h == CHOOSE g : g = F(g)
<1>1. DOMAIN events = {1} /\ events[1] = x OBVIOUS
<1>2. ASSUME NEW s \in SUBSET {1} PROVE s = {} \/ (s = {1} /\ Max(s) = 1 /\ s \ {Max(s)} = {})
  BY MaxIs
<1>3. \A s \in SUBSET {1} : f[s] = ObservedFrom(c, events, f, s)
  BY <1>1, <1>2 DEF ObservedFrom
<1>4. f = F(f) BY <1>1, <1>3
<1>5. h = F(h) BY <1>4
<1> HIDE DEF h
<1>6. h[{}] = c /\ h[{1}] = ObservedFrom(c, events, h, {1})
  BY <1>1, <1>5 DEF ObservedFrom
<1>7. h[{1}] = Observed(c, x) BY <1>1, <1>6, MaxIs DEF ObservedFrom
<1> QED BY <1>1, <1>7, ObservedIs DEF h

LEMMA ObservedTwo ==
  ASSUME NEW c, NEW x, NEW y
  PROVE  ObservedAll(c, <<x, y>>) = Observed(Observed(c, x), y)
<1> DEFINE events == <<x, y>>
           F(g) == [s \in SUBSET DOMAIN events |-> ObservedFrom(c, events, g, s)]
           f == [s \in SUBSET {1, 2} |-> IF s = {} THEN c
                                         ELSE IF s = {1} THEN Observed(c, x)
                                         ELSE IF s = {2} THEN Observed(c, y)
                                         ELSE Observed(Observed(c, x), y)]
           h == CHOOSE g : g = F(g)
<1>1. DOMAIN events = {1, 2} /\ events[1] = x /\ events[2] = y OBVIOUS
<1>2. ASSUME NEW s \in SUBSET {1, 2}
      PROVE  \/ s = {}
             \/ s = {1} /\ Max(s) = 1 /\ s \ {Max(s)} = {}
             \/ s = {2} /\ Max(s) = 2 /\ s \ {Max(s)} = {}
             \/ s = {1, 2} /\ Max(s) = 2 /\ s \ {Max(s)} = {1}
  BY MaxIs
<1>3. \A s \in SUBSET {1, 2} : f[s] = ObservedFrom(c, events, f, s)
  BY <1>1, <1>2 DEF ObservedFrom
<1>4. f = F(f) BY <1>1, <1>3
<1>5. h = F(h) BY <1>4
<1> HIDE DEF h
<1>6. \A s \in SUBSET {1, 2} : h[s] = ObservedFrom(c, events, h, s)
  BY <1>1, <1>5
<1>7. h[{}] = c BY <1>6 DEF ObservedFrom
<1>8. h[{1}] = Observed(c, x) BY <1>1, <1>6, <1>7, MaxIs DEF ObservedFrom
<1>9. {1, 2} \ {2} = {1} OBVIOUS
<1>10. h[{1, 2}] = Observed(Observed(c, x), y)
  <2>1. h[{1, 2}] = ObservedFrom(c, events, h, {1, 2}) BY <1>6
  <2>2. {1, 2} # {} OBVIOUS
  <2>3. h[{1, 2}] = Observed(h[{1, 2} \ {2}], events[2])
    BY <2>1, <2>2, MaxIs, Zenon DEF ObservedFrom
  <2> QED BY <1>1, <1>8, <1>9, <2>3
<1>11. h[DOMAIN events] = Observed(Observed(c, x), y) BY <1>1, <1>10
<1> QED BY <1>11, ObservedIs, Zenon DEF h

LEMMA ObservedFits ==
  ASSUME NEW c, CohortFits(c), NEW x
  PROVE  CohortFits(Observed(c, x))
<1> DEFINE s == IF x.event = "payment.captured" THEN 1 ELSE 0
<1>1. s \in Nat /\ s <= 1 /\ 1 \in Nat OBVIOUS
<1>2. Observed(c, x) = observe(c, now, 1, s) \/ Observed(c, x) = c BY DEF Observed
<1> HIDE DEF s
<1> QED BY <1>1, <1>2, ObserveFits

DetectorInv ==
  /\ scenario \in Scenarios
  /\ DOMAIN detector = Cohorts /\ \A c \in Cohorts : CohortFits(detector[c])

\* A delivery of one event, or of two.
Reported(i) == \E x, y : Delivered(i, <<x>>) \/ Delivered(i, <<x, y>>)

LEMMA ReportedFits ==
  ASSUME DetectorInv, NEW i \in Ids, Reported(i), scenario' = scenario
  PROVE  DetectorInv'
<1> DEFINE o == Obligation[i]
           k == <<o.method, o.issuer>>
<1>1. PICK x, y : Delivered(i, <<x>>) \/ Delivered(i, <<x, y>>) BY DEF Reported
<1>2. \/ detector' = [detector EXCEPT ![k] = ObservedAll(detector[k], <<x>>)]
      \/ detector' = [detector EXCEPT ![k] = ObservedAll(detector[k], <<x, y>>)]
  BY <1>1, Zenon DEF Delivered, ObservedAll
<1> HIDE DEF k
<1>3. \/ detector' = [detector EXCEPT ![k] = Observed(detector[k], x)]
      \/ detector' = [detector EXCEPT ![k] = Observed(Observed(detector[k], x), y)]
  <2>1. /\ ObservedAll(detector[k], <<x>>) = Observed(detector[k], x)
        /\ ObservedAll(detector[k], <<x, y>>) = Observed(Observed(detector[k], x), y)
    BY ObservedOne, ObservedTwo
  <2> QED BY <1>2, <2>1, Zenon
<1>4. \A c \in Cohorts : /\ CohortFits(Observed(detector[c], x))
                         /\ CohortFits(Observed(Observed(detector[c], x), y))
  BY ObservedFits DEF DetectorInv
<1> DEFINE F(c) == Observed(c, x)
           G(c) == Observed(Observed(c, x), y)
<1>5. \/ detector' = [detector EXCEPT ![k] = F(detector[k])]
      \/ detector' = [detector EXCEPT ![k] = G(detector[k])]
  BY <1>3
<1> HIDE DEF F, G
<1>6. DOMAIN detector' = Cohorts BY <1>5 DEF DetectorInv
<1>7. ASSUME NEW c \in Cohorts PROVE detector'[c] \in {detector[c], F(detector[c]), G(detector[c])}
  BY <1>5 DEF DetectorInv
<1>8. ASSUME NEW c \in Cohorts PROVE CohortFits(detector'[c])
  BY <1>4, <1>7 DEF DetectorInv, F, G
<1>9. Cohorts' = Cohorts BY DEF Cohorts, Ids
<1> QED BY <1>6, <1>8, <1>9 DEF DetectorInv

LEMMA SettlesReports ==
  ASSUME NEW i, Settles(i)
  PROVE  Reported(i)
<1> DEFINE o == Obligation[i]
           w == settle(o, world[i])
           first == paymentCaptured(captured(o, outstandingOf(o, world[i])))
           invoiced == invoice(IF w.resolved THEN "invoice.paid" ELSE "invoice.partially_paid", o.amount)
           charged == subscription("subscription.charged")
<1>1. Delivered(i,
        (<<first>> \o (IF o.portfolio = "b2b_invoice" THEN <<invoiced>> ELSE <<>>))
          \o (IF o.portfolio = "d2c_subscription" /\ w.resolved THEN <<charged>> ELSE <<>>))
  BY Zenon DEF Settles
<1>2. \A x, y : <<x>> \o <<>> = <<x>> /\ <<x>> \o <<y>> = <<x, y>> /\ <<x, y>> \o <<>> = <<x, y>>
  BY Short
<1> DEFINE events == (<<first>> \o (IF o.portfolio = "b2b_invoice" THEN <<invoiced>> ELSE <<>>))
                       \o (IF o.portfolio = "d2c_subscription" /\ w.resolved THEN <<charged>> ELSE <<>>)
<1> HIDE DEF first, invoiced, charged, w
<1>3. events \in {<<first>>, <<first, invoiced>>, <<first, charged>>}
  <2>1. CASE o.portfolio = "b2b_invoice"
    <3>1. o.portfolio # "d2c_subscription" BY <2>1
    <3> QED BY <1>2, <2>1, <3>1
  <2>2. CASE o.portfolio # "b2b_invoice" BY <1>2, <2>2
  <2> QED BY <2>1, <2>2
<1>4. Delivered(i, events) BY <1>1
<1> HIDE DEF events
<1> QED BY <1>3, <1>4, Zenon DEF Reported

LEMMA FailsReports ==
  ASSUME NEW i, NEW cause, Fails(i, cause)
  PROVE  Reported(i)
<1> DEFINE o == Obligation[i]
           v == Attempted(world[i])
           h == Halts(o, v)
           halted == subscription("subscription.halted")
<1>1. PICK x \in SIGNATURES[cause] :
        Delivered(i, <<paymentFailed(outstandingOf(o, v), x)>> \o (IF h THEN <<halted>> ELSE <<>>))
  BY Zenon DEF Fails
<1> DEFINE first == paymentFailed(outstandingOf(o, v), x)
<1> HIDE DEF h, halted, first
<1>2. Delivered(i, <<first>>) \/ Delivered(i, <<first, halted>>)
  BY <1>1, Short DEF first
<1> QED BY <1>2 DEF Reported

LEMMA AbandonReports ==
  ASSUME NEW i, Abandon(i)
  PROVE  Reported(i)
BY DEF Abandon, Reported

LEMMA ChargeReports ==
  ASSUME NEW i, Charge(i)
  PROVE  Reported(i) \/ UNCHANGED detector
<1>1. (\E cause : Settles(i) \/ Fails(i, cause)) \/ UNCHANGED detector
  BY Zenon DEF Charge
<1> QED BY <1>1, SettlesReports, FailsReports

LEMMA ContactReports ==
  ASSUME NEW i, Contact(i)
  PROVE  Reported(i) \/ UNCHANGED detector
<1>1. Settles(i) \/ UNCHANGED detector BY Zenon DEF Contact
<1> QED BY <1>1, SettlesReports

-----------------------------------------------------------------------------
(* A pause is earned *)

LEMMA DetectorInvInit == Init => DetectorInv
BY NewCohortFits DEF Init, DetectorInv

LEMMA DetectorStays ==
  ASSUME DetectorInv, UNCHANGED <<scenario, detector>>
  PROVE  DetectorInv'
BY DEF DetectorInv

LEMMA TrafficFits ==
  ASSUME DetectorInv, Traffic
  PROVE  DetectorInv'
<1> DEFINE c == scenario.cohort
           n == scenario.traffic
<1>1. /\ scenario' = scenario
      /\ \E s, t \in 0..n :
           detector' = [detector EXCEPT ![c] = observe(observe(@, now, n, s), now + 1, n, t)]
  <2>1. ASSUME NEW at, NEW luck PROVE Successful(c, at, luck) \subseteq 0..n
    <3>1. n \in Nat BY ScenarioAssumption DEF DetectorInv
    <3> QED BY <3>1 DEF Successful
  <2>2. scenario' = scenario BY DEF Traffic, Done
  <2>3. PICK s \in Successful(c, now, scenario.unlucky - unlucky) :
          \E t \in Successful(c, now + 1, scenario.unlucky - unlucky - Unlucky(c, now, s)) :
            detector' = [detector EXCEPT ![c] = observe(observe(@, now, n, s), now + 1, n, t)]
    BY Zenon DEF Traffic
  <2>4. PICK t \in Successful(c, now + 1, scenario.unlucky - unlucky - Unlucky(c, now, s)) :
          detector' = [detector EXCEPT ![c] = observe(observe(@, now, n, s), now + 1, n, t)]
    BY <2>3
  <2>5. s \in 0..n /\ t \in 0..n BY <2>1, <2>3, <2>4
  <2> QED BY <2>2, <2>4, <2>5
<1>2. PICK s, t \in 0..n :
        detector' = [detector EXCEPT ![c] = observe(observe(@, now, n, s), now + 1, n, t)]
  BY <1>1
<1>3. n \in Nat /\ s \in Nat /\ t \in Nat /\ s <= n /\ t <= n
  BY ScenarioAssumption DEF DetectorInv
<1> DEFINE G(d) == observe(observe(d, now, n, s), now + 1, n, t)
<1>4. \A k \in Cohorts : CohortFits(G(detector[k]))
  BY <1>3, ObserveFits DEF DetectorInv
<1>5. detector' = [detector EXCEPT ![c] = G(@)] BY <1>2
<1> HIDE DEF G, c
<1>6. DOMAIN detector' = Cohorts /\ \A k \in Cohorts : detector'[k] \in {detector[k], G(detector[k])}
  BY <1>5 DEF DetectorInv
<1>7. \A k \in Cohorts : CohortFits(detector'[k]) BY <1>4, <1>6 DEF DetectorInv
<1> QED BY <1>1, <1>6, <1>7 DEF DetectorInv

LEMMA DowntimeFits ==
  ASSUME DetectorInv, Downtime
  PROVE  DetectorInv'
<1>1. /\ scenario' = scenario
      /\ detector' = [c \in Cohorts |->
           IF c = task.cohort THEN observe(detector[c], now, 1, 0) ELSE detector[c]]
  BY DEF Downtime, Done
<1>2. \A c \in Cohorts : CohortFits(observe(detector[c], now, 1, 0))
  BY ObserveFits DEF DetectorInv
<1> QED BY <1>1, <1>2 DEF DetectorInv

LEMMA SenseFits ==
  ASSUME DetectorInv, Sense
  PROVE  DetectorInv'
<1>1. scenario' = scenario /\ detector' = [c \in Cohorts |-> Sensed(detector[c], now)]
  BY DEF Sense, Goto
<1>2. \A c \in Cohorts : CohortFits(Sensed(detector[c], now)) BY SensedIs DEF DetectorInv
<1> QED BY <1>1, <1>2 DEF DetectorInv

LEMMA DetectorInvKept == BooksInv /\ DetectorInv /\ [Next]_vars => DetectorInv'
<1> SUFFICES ASSUME BooksInv, DetectorInv, [Next]_vars PROVE DetectorInv' OBVIOUS
<1>1. CASE UNCHANGED <<scenario, detector>> BY <1>1, DetectorStays
<1>2. CASE Traffic BY <1>2, TrafficFits
<1>3. CASE Downtime BY <1>3, DowntimeFits
<1>4. CASE ObligationDue
  <2>1. task \in Ids /\ scenario' = scenario /\ (Abandon(task) \/ Charge(task))
    BY <1>4 DEF BooksInv, DueOnce, ObligationDue, Done
  <2>2. Reported(task) \/ UNCHANGED detector BY <2>1, AbandonReports, ChargeReports
  <2> QED BY <2>1, <2>2, ReportedFits, DetectorStays
<1>5. CASE Sense BY <1>5, SenseFits
<1>6. CASE Restart
  <2>1. scenario' = scenario /\ detector' = [c \in Cohorts |-> NewCohort]
    BY <1>6 DEF Restart, NewProcess, Done
  <2> QED BY <2>1, NewCohortFits DEF DetectorInv
<1>7. ASSUME NEW row \in rows, Drain(row) PROVE DetectorInv'
  <2>1. row.case \in Ids /\ scenario' = scenario BY <1>7 DEF BooksInv, RowsFit, Drain, Goto
  <2>2. \/ UNCHANGED detector \/ Charge(row.case) \/ Contact(row.case)
    BY <1>7 DEF Drain, StopPaid, Dispatch
  <2>3. Reported(row.case) \/ UNCHANGED detector BY <2>2, ChargeReports, ContactReports
  <2> QED BY <2>1, <2>3, ReportedFits, DetectorStays
<1>8. Next => \/ UNCHANGED <<scenario, detector>>
              \/ Traffic \/ Downtime \/ ObligationDue \/ Sense \/ Restart
              \/ \E row \in rows : Drain(row)
  BY DEF Next, Advance, Feedback, Flushed, FlushFails, Flush, Decide, Decided, Ticked, Done, Goto, process
<1>9. UNCHANGED vars => UNCHANGED <<scenario, detector>> BY DEF vars, process
<1> QED BY <1>1, <1>2, <1>3, <1>4, <1>5, <1>6, <1>7, <1>8, <1>9

LEMMA SenseEarns ==
  ASSUME DetectorInv, Sense, NEW c \in paused'
  PROVE  /\ Attempts(detector[c], now) >= MIN_VOLUME
         /\ 100 * Successes(detector[c], now) < (100 - DROP) * Attempts(detector[c], now)
<1>1. c \in Cohorts /\ Degraded(detector'[c]) /\ detector'[c] = Sensed(detector[c], now)
  BY DEF Sense, NowPaused
<1> DEFINE d == detector[c]
<1>2. CohortFits(d) BY <1>1 DEF DetectorInv
<1>3. FallsShort(Attempts(d, now), Successes(d, now), d.rate) BY <1>1, <1>2, SensedIs
<1>4. Attempts(d, now) \in Nat /\ Successes(d, now) \in Nat /\ d.rate \in 0..100
  BY <1>2, Shares DEF CohortFits
<1> HIDE DEF d
<1>5. Attempts(d, now) >= MIN_VOLUME /\ 100 * Successes(d, now) < (100 - DROP) * Attempts(d, now)
  BY <1>3, <1>4, ShortIs
<1> QED BY <1>5 DEF d

Earned ==
  pc = "engine-tick" =>
    \A c \in paused' :
      /\ Attempts(detector[c], now) >= MIN_VOLUME
      /\ 100 * Successes(detector[c], now) < (100 - DROP) * Attempts(detector[c], now)

LEMMA StepsEarn == DetectorInv /\ [Next]_vars => [Earned]_vars
<1> SUFFICES ASSUME DetectorInv, Next, pc = "engine-tick" PROVE Earned BY DEF Earned
<1>1. Sense
  BY DEF Next, Advance, Traffic, Downtime, ObligationDue, Feedback, Flushed, FlushFails, Flush, Decide,
         Decided, Ticked, Restart, Drain
<1> QED BY <1>1, SenseEarns DEF Earned

\* A cohort is paused only while more than its share of what is in the window
\* fails (src/signal/degradation.ts): nothing that was learnt or seen before
\* keeps a cohort paused that is well.
THEOREM PausesAreEarned == Spec => PauseIsEarned
<1> DEFINE IInv == BooksInv /\ DetectorInv
<1>1. Init => IInv BY BooksInvInit, DetectorInvInit
<1>2. IInv /\ [Next]_vars => IInv' BY BooksInvKept, DetectorInvKept
<1>3. IInv /\ [Next]_vars => [Earned]_vars BY StepsEarn
<1>4. PauseIsEarned <=> [][Earned]_vars BY DEF PauseIsEarned, Earned
<1> QED BY <1>1, <1>2, <1>3, <1>4, PTL DEF Spec

=============================================================================
