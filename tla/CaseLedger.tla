------------------------------ MODULE CaseLedger ------------------------------
(***************************************************************************)
(* src/ledger: the append-only ledger of what the cases owe, and the test  *)
(* for tax deducted at source.  ledger[r] is the sequence of the events of *)
(* the case of reference r; what is owed is always their sum.              *)
(*                                                                         *)
(* An append under a provider reference looks for the reference first and  *)
(* inserts after an await; the unique index on it spans all cases.         *)
(***************************************************************************)
EXTENDS Integers, Sequences, Folds, Functions

CONSTANTS
  Reference, PaymentId,
  TdsRates,          \* deductions known to detectTdsShortfall, per mille
  Tolerance

VARIABLE ledger

NoRef == << >>
ProviderRef == {"payment", "refund"} \X PaymentId

Sign == [CHARGE |-> 1, REFUND |-> 1, PAYMENT |-> -1, TDS_ADJUSTMENT |-> -1]

Entry(type, magnitude, ref) ==
  [type |-> type, amount |-> Sign[type] * magnitude, ref |-> ref]

\* What may be offered for appending, and what the table's checks let in.
Offers == [type : DOMAIN Sign, amount : Int, ref : ProviderRef \cup {NoRef}]
Entries == {e \in Offers : e.amount # 0}

SumOf(entries) == FoldFunction(LAMBDA e, sum : e.amount + sum, 0, entries)
OfType(r, type) == RestrictValues(ledger[r], LAMBDA e : e.type = type)

Outstanding(r) == SumOf(ledger[r])
Paid(r) == -SumOf(OfType(r, "PAYMENT"))
Billed(r) == SumOf(OfType(r, "CHARGE"))

\* findByProviderRef.
Under(ref) ==
  {e \in UNION {Range(ledger[r]) : r \in Reference} : e.ref = ref}

Agrees(e, f) == e.type = f.type /\ e.amount = f.amount

\* A slip: the reference is looked for before the insert only.
InsertableUnchecked(e) == TRUE

\* The unique index lets a row in; rows without a reference are not in it.
Insertable(e) == e.ref = NoRef \/ Under(e.ref) = {}

Insert(r, e) == ledger' = [ledger EXCEPT ![r] = Append(@, e)]

-----------------------------------------------------------------------------
Rounded(n, d) == (2 * n + d) \div (2 * d)
Distance(a, b) == IF a < b THEN b - a ELSE a - b

\* detectTdsShortfall: the deduction that explains the shortfall best, within
\* the tolerance, if there is one.  Without GST the taxable base is the invoice.
Deductions(invoice, paid) ==
  LET shortfall == invoice - paid
      close == {d \in {Rounded(invoice * rate, 1000) : rate \in TdsRates} :
                  d > 0 /\ Distance(shortfall, d) <= Tolerance}
  IN {d \in close : /\ 0 < shortfall /\ shortfall < invoice
                    /\ \A c \in close : Distance(shortfall, d) <= Distance(shortfall, c)}
===============================================================================
