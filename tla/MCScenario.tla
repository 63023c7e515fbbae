------------------------------ MODULE MCScenario ------------------------------
(***************************************************************************)
(* A day of the simulated world, 1 September 2026, with an outage of a     *)
(* cohort for half of it and a bad deploy in the evening; and in it some   *)
(* traffic, or a checkout and a subscription that fall due in the evening, *)
(* or invoices that fall due at midnight, or traffic until noon and a      *)
(* checkout in the outage.                                                 *)
(***************************************************************************)
EXTENDS Scenario

MCStartAt == fromIst(2026, 9, 1, 0, 0)

Time(hour, half) == [day |-> 1, hour |-> hour, half |-> half]

MCHolidays == {[year |-> 2026, month |-> 9, day |-> 7]}

MCWorldEvents ==
  <<[kind |-> "gateway_downtime", method |-> "upi", issuer |-> "HDFC", severity |-> None,
     start |-> Time(6, 0), end |-> Time(16, 1)],
    [kind |-> "merchant_defect", method |-> None, issuer |-> None, severity |-> None,
     start |-> Time(21, 0), end |-> Time(21, 1)],
    [kind |-> "bank_holiday", method |-> None, issuer |-> None, severity |-> None,
     start |-> [day |-> 7, hour |-> 0, half |-> 0], end |-> [day |-> 7, hour |-> 23, half |-> 1]]>>

Owes(account, portfolio, method, amount, dueAt) ==
  [account |-> account, portfolio |-> portfolio, method |-> method, issuer |-> "HDFC",
   amount |-> amount, dueAt |-> MCStartAt + dueAt, tdsRatePct |-> None,
   mandateStatus |-> "NONE", mandateCap |-> None, cardExpiresAt |-> None, vpaValid |-> TRUE]

Invoice(amount) == [Owes("a4", "b2b_invoice", "netbanking", amount, 0) EXCEPT !.tdsRatePct = 10]

MCObligation ==
  [morning |-> Owes("a1", "one_time_checkout", "upi", 10, 24),
   checkout |-> Owes("a2", "one_time_checkout", "upi", 10, 40),
   cycle |-> [Owes("a3", "d2c_subscription", "card", 10, 38)
                EXCEPT !.mandateStatus = "ACTIVE", !.mandateCap = 20,
                       !.cardExpiresAt = MCStartAt + 10 * DAY],
   invoice |-> Invoice(100),
   second |-> Invoice(50)]

\* For some hours; with so many attempts of traffic in half an hour, and of
\* those so many that fail for no reason; and with so many faults.
Run(due, hours, traffic, unluckyOnes, faultsOf) ==
  [due |-> due, hours |-> hours, traffic |-> traffic, cohort |-> <<"upi", "HDFC">>,
   unlucky |-> unluckyOnes, faults |-> faultsOf]

MCScenarios ==
  {Run(<<"checkout", "cycle">>, 24, 0, 0, 0),
   Run(<<"checkout">>, 24, 0, 0, 1),
   Run(<<"cycle">>, 24, 0, 0, 1),
   Run(<<"morning">>, 13, 2, 0, 1),
   Run(<<>>, 24, 2, 1, 1),
   Run(<<"invoice", "second">>, 4, 0, 0, 0),
   Run(<<"invoice">>, 6, 0, 0, 1)}

=============================================================================
