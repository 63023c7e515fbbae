------------------------------- MODULE MCIngest -------------------------------
(***************************************************************************)
(* An invoice r1 that fails and is then paid but for a tenth, refunded and *)
(* billed again, and a payment for r2 that comes days later; both of one   *)
(* customer.  Amounts are hundreds of rupees, times are days.              *)
(***************************************************************************)
EXTENDS Ingest, TLC

CONSTANTS r1, r2, pay1, pay2, pay3, u1, k1, k2,
  fail1, fail2, paid1, paid1again, refund1, refund2, paid2, halted, down, garbled

Sig(kind, r, p, amount, at) ==
  [kind |-> kind, reference |-> r, customer |-> u1, payment |-> p, amount |-> amount,
   at |-> at, invoice |-> (r = r1), counts |-> (kind = "PAYMENT_FAILED")]

Catalogue(e) ==
  CASE e = fail1 -> Sig("PAYMENT_FAILED", r1, pay1, 100, 0)
    [] e = fail2 -> Sig("PAYMENT_FAILED", r1, pay3, 110, 1)
    [] e = paid1 -> Sig("PAYMENT_SUCCEEDED", r1, pay1, 90, 2)
    [] e = paid1again -> Sig("SUBSCRIPTION_CHARGED", r1, pay1, 90, 2)
    [] e = refund1 -> Sig("REFUND_PROCESSED", r1, pay1, 90, 3)
    [] e = refund2 -> Sig("REFUND_PROCESSED", r1, pay1, 40, 3)
    [] e = paid2 -> Sig("PAYMENT_SUCCEEDED", r2, pay2, 100, 6)
    [] e = halted -> Sig("SUBSCRIPTION_HALTED", r2, None, 0, 1)
    [] e = down -> Sig("INVOICE_PAID", None, None, 0, 1)
    [] e = garbled -> Sig("UNPARSEABLE", None, None, 0, 1)

\* Requests are interchangeable.
Symmetry == Permutations(Call)

\* Two requests at a time, or a longer sequence of one after the other.
MCLimits ==
  {[atOnce |-> 2, deliveries |-> 3, failures |-> 1],
   [atOnce |-> 1, deliveries |-> 5, failures |-> 1]}

OrderLimits == {[atOnce |-> 2, deliveries |-> 2, failures |-> 0]}

MCSignal == [e \in Event |-> Catalogue(e)]
===============================================================================
