-------------------------------- MODULE Ingest --------------------------------
(***************************************************************************)
(* The way of a webhook into the books: src/signal/receiver.ts stores the  *)
(* delivery, src/signal/case-projector.ts turns its signal into a case, a  *)
(* row of the ledger and a state.  An element of Call is a request that    *)
(* the endpoint works on; requests overlap, and every query is an await at *)
(* which the others go on.  A request that throws is answered 500 and the  *)
(* gateway sends the event again, as it may at any time, in any order.     *)
(*                                                                         *)
(* Every event carries one signal, as both gateway adapters make it.       *)
(* Cases are one for each reference, so a reference names its case.  Body  *)
(* limit and signature turn a request away before it touches any state and *)
(* are left out, as are the diagnoses, which nothing here reads back.      *)
(***************************************************************************)
EXTENDS CaseLedger, FiniteSets, SequencesExt

CONSTANTS
  Event,
  Signal,          \* the signal of an event
  Customer, Call,
  None,
  RETENTION,       \* HELD_PAYMENT_RETENTION_MS
  Limits           \* model bounds, see below

OPENING_SIGNALS == {"PAYMENT_FAILED", "SUBSCRIPTION_HALTED", "CHECKOUT_ABANDONED"}
SUCCESS_SIGNALS == {"PAYMENT_SUCCEEDED", "SUBSCRIPTION_CHARGED"}
OTHER_SIGNALS == {"REFUND_PROCESSED", "INVOICE_PAID", "UNPARSEABLE"}
Kinds == OPENING_SIGNALS \cup SUCCESS_SIGNALS \cup OTHER_SIGNALS

\* reference is None for a signal that belongs to no case (a downtime), payment
\* where the entity has no paymentId; an amount that is not given is 0.  counts
\* is countsAgainstAttemptBudget, invoice says the entity has an invoiceId.
Signals ==
  [kind : Kinds, reference : Reference \cup {None}, customer : Customer,
   payment : PaymentId \cup {None}, amount : Nat, at : Nat, invoice : BOOLEAN,
   counts : BOOLEAN]

\* A limit on the requests at one time, on deliveries and on failed queries.
ASSUME IngestAssumption ==
  /\ Limits \subseteq [atOnce : Nat, deliveries : Nat, failures : Nat]
  /\ Signal \in [Event -> Signals]
  \* A payment is for one obligation.
  /\ \A e, f \in Event :
       Signal[e].payment = Signal[f].payment /\ Signal[e].payment # None =>
         Signal[e].reference = Signal[f].reference
  /\ RETENTION \in Nat
  /\ TdsRates \subseteq Nat /\ Tolerance \in Nat
  /\ None \notin Reference \cup PaymentId

VARIABLES
  stored,     \* provider_events: the event ids
  customers, cases, held,   \* customers, risk_cases, unmatched_payments
  pc, event, row, opened, queue, cont, due,  \* a request's stack
  projected,  \* history: the events a request reported as projected
  overlapped, \* history: references on which two requests were at work at a time
  failed,     \* history: references on which a request failed half way
  pruned,     \* history: held payments that were given up
  limit, deliveries, failures

tables == <<stored, customers, cases, ledger, held>>
stack == <<pc, event, row, opened, queue, cont, due>>
history == <<projected, overlapped, failed, pruned>>
bounds == <<limit, deliveries, failures>>
vars == <<tables, stack, history, bounds>>

Appending == {"select", "insert"}
Projecting ==
  {"customer", "addCustomer", "open", "charge", "bill", "rebill", "apply", "count",
   "held", "drop", "sum", "tds", "resum", "mark", "prune", "hold"} \cup Appending
PC == {"idle", "receive", "persist", "find"} \cup Projecting

Rows == [amount : Nat \ {0}, state : {"OPEN", "IN_PROGRESS", "RECOVERED"},
         invoice : BOOLEAN, attempts : Nat]
Held == [payment : PaymentId, reference : Reference, amount : Nat, at : Nat]

\* No row is none.
ASSUME NoneAssumption == None \notin Rows

TypeOK ==
  /\ stored \subseteq Event /\ customers \subseteq Customer
  /\ cases \in [Reference -> Rows \cup {None}]
  /\ ledger \in [Reference -> Seq(Entries)]
  /\ held \subseteq Held
  /\ pc \in [Call -> PC]
  /\ event \in [Call -> Event \cup {None}]
  /\ row \in [Call -> Rows \cup {None}]
  /\ opened \in [Call -> BOOLEAN]
  /\ queue \in [Call -> Seq(Offers)]
  /\ cont \in [Call -> PC]
  /\ due \in [Call -> Int]
  /\ projected \subseteq Event
  /\ overlapped \subseteq Reference /\ failed \subseteq Reference
  /\ pruned \subseteq PaymentId
  /\ limit \in Limits /\ deliveries \in 0..limit.deliveries /\ failures \in 0..limit.failures

Init ==
  /\ stored = {} /\ customers = {} /\ held = {}
  /\ cases = [r \in Reference |-> None]
  /\ ledger = [r \in Reference |-> << >>]
  /\ pc = [k \in Call |-> "idle"]
  /\ event = [k \in Call |-> None]
  /\ row = [k \in Call |-> None]
  /\ opened = [k \in Call |-> FALSE]
  /\ queue = [k \in Call |-> << >>]
  /\ cont = [k \in Call |-> "idle"]
  /\ due = [k \in Call |-> 0]
  /\ projected = {} /\ overlapped = {} /\ failed = {} /\ pruned = {}
  /\ limit \in Limits /\ deliveries = 0 /\ failures = 0

-----------------------------------------------------------------------------
S(k) == Signal[event[k]]
R(k) == S(k).reference

Goto(k, l) == pc' = [pc EXCEPT ![k] = l]

\* The request is answered and its stack is gone.
Leave(k) ==
  /\ Goto(k, "idle")
  /\ event' = [event EXCEPT ![k] = None]
  /\ row' = [row EXCEPT ![k] = None]
  /\ opened' = [opened EXCEPT ![k] = FALSE]
  /\ queue' = [queue EXCEPT ![k] = << >>]
  /\ cont' = [cont EXCEPT ![k] = "idle"]
  /\ due' = [due EXCEPT ![k] = 0]

\* 202: the signal is in the books, or is none of theirs.
Accepted(k) ==
  /\ Leave(k)
  /\ projected' = projected \cup {event[k]}
  /\ UNCHANGED <<overlapped, failed, pruned>>

\* 500: the request throws.  Its event, once stored, is not looked at again.
Thrown(k) ==
  /\ Leave(k)
  /\ failed' = IF pc[k] \in Projecting \cup {"find"} THEN failed \cup ({R(k)} \ {None}) ELSE failed
  /\ UNCHANGED <<projected, overlapped, pruned>>

\* Moves within the stack.
Step(k, l) ==
  /\ Goto(k, l)
  /\ UNCHANGED <<event, row, opened, queue, cont, due, history>>

\* Appends the entries one by one, then goes on at l.
Enter(k, entries, l) ==
  /\ queue' = [queue EXCEPT ![k] = entries]
  /\ cont' = [cont EXCEPT ![k] = l]
  /\ Goto(k, IF entries = << >> THEN l
             ELSE IF entries[1].ref = NoRef THEN "insert" ELSE "select")

-----------------------------------------------------------------------------
(* receiver.ts *)

Deliver(k, e) ==
  /\ pc[k] = "idle" /\ deliveries < limit.deliveries
  /\ Cardinality({u \in Call : pc[u] # "idle"}) < limit.atOnce
  /\ deliveries' = deliveries + 1
  /\ event' = [event EXCEPT ![k] = e]
  /\ Goto(k, "receive")
  /\ UNCHANGED <<tables, row, opened, queue, cont, due, history, limit, failures>>

\* receive: an event that is stored is a duplicate, projected or not.
Receive(k) ==
  /\ pc[k] = "receive"
  /\ IF event[k] \in stored THEN Leave(k) /\ UNCHANGED history ELSE Step(k, "persist")
  /\ UNCHANGED <<tables, bounds>>

\* persist: the event is stored before it is projected; a body that cannot be
\* parsed is stored as a dead letter.  The unique index refuses the second.
Persist(k) ==
  /\ pc[k] = "persist"
  /\ \/ /\ event[k] \in stored
        /\ Thrown(k) /\ UNCHANGED stored
     \/ /\ event[k] \notin stored
        /\ stored' = stored \cup {event[k]}
        /\ IF S(k).kind = "UNPARSEABLE" THEN Leave(k) /\ UNCHANGED history
           ELSE Step(k, "find")
  /\ UNCHANGED <<customers, cases, ledger, held, bounds>>

-----------------------------------------------------------------------------
(* case-projector.ts *)

Others(k) == {u \in Call \ {k} : pc[u] \in Projecting /\ R(u) = R(k)}

\* project: what becomes of the signal depends on the case read here.
Find(k) ==
  /\ pc[k] = "find"
  /\ IF R(k) = None THEN Accepted(k)
     ELSE /\ row' = [row EXCEPT ![k] = cases[R(k)]]
          /\ overlapped' = IF Others(k) = {} THEN overlapped ELSE overlapped \cup {R(k)}
          /\ Goto(k, IF cases[R(k)] # None THEN "bill"
                     ELSE IF S(k).kind \in OPENING_SIGNALS THEN "customer" ELSE "prune")
          /\ UNCHANGED <<event, opened, queue, cont, due, projected, failed, pruned>>
  /\ UNCHANGED <<tables, bounds>>

\* ensureCustomer: looks for the customer, then adds it.
FindCustomer(k) ==
  /\ pc[k] = "customer"
  /\ Step(k, IF S(k).customer \in customers THEN "open" ELSE "addCustomer")
  /\ UNCHANGED <<tables, bounds>>

AddCustomer(k) ==
  /\ pc[k] = "addCustomer"
  /\ \/ S(k).customer \in customers /\ Thrown(k) /\ UNCHANGED customers
     \/ /\ S(k).customer \notin customers
        /\ customers' = customers \cup {S(k).customer}
        /\ Step(k, "open")
  /\ UNCHANGED <<stored, cases, ledger, held, bounds>>

\* A slip: a signal without an amount opens a case.
OpensAlways(s) == TRUE

\* openCase needs an amount.
Opens(s) == s.amount > 0

\* openCase: the row first, its charge in a query of its own.
OpenCase(k) ==
  /\ pc[k] = "open"
  /\ \/ ~Opens(S(k)) /\ Accepted(k) /\ UNCHANGED cases
     \/ /\ Opens(S(k)) /\ cases[R(k)] # None
        /\ Thrown(k) /\ UNCHANGED cases
     \/ /\ Opens(S(k)) /\ cases[R(k)] = None
        /\ cases' = [cases EXCEPT ![R(k)] =
             [amount |-> S(k).amount, state |-> "OPEN", invoice |-> S(k).invoice,
              attempts |-> 0]]
        /\ row' = [row EXCEPT ![k] = cases'[R(k)]]
        /\ opened' = [opened EXCEPT ![k] = TRUE]
        /\ Enter(k, <<Entry("CHARGE", S(k).amount, NoRef)>>, "apply")
        /\ UNCHANGED <<event, due, history>>
  /\ UNCHANGED <<stored, customers, ledger, held, bounds>>

\* holdUnmatchedPayment: a payment that no case waits for is kept, and those
\* kept too long are given up.
Prune(k) ==
  /\ pc[k] = "prune"
  /\ LET old == {h \in held : h.at < S(k).at - RETENTION}
     IN IF S(k).kind \in SUCCESS_SIGNALS /\ S(k).payment # None /\ S(k).amount > 0
        THEN /\ held' = held \ old
             /\ pruned' = pruned \cup {h.payment : h \in old}
             /\ Goto(k, "hold")
             /\ UNCHANGED <<event, row, opened, queue, cont, due, projected, overlapped, failed>>
        ELSE Accepted(k) /\ UNCHANGED held
  /\ UNCHANGED <<stored, customers, cases, ledger, bounds>>

Hold(k) ==
  /\ pc[k] = "hold"
  /\ held' = IF \E h \in held : h.payment = S(k).payment THEN held
             ELSE held \cup {[payment |-> S(k).payment, reference |-> R(k),
                              amount |-> S(k).amount, at |-> S(k).at]}
  /\ Accepted(k)
  /\ UNCHANGED <<stored, customers, cases, ledger, bounds>>

\* applySignal: a larger amount than the row's raises what is billed.
Bill(k) ==
  /\ pc[k] = "bill"
  /\ IF S(k).amount > row[k].amount
     THEN /\ Enter(k, <<Entry("CHARGE", S(k).amount - row[k].amount, NoRef)>>, "rebill")
          /\ UNCHANGED <<event, row, opened, due, history>>
     ELSE Step(k, "apply")
  /\ UNCHANGED <<tables, bounds>>

Rebill(k) ==
  /\ pc[k] = "rebill"
  /\ cases' = [cases EXCEPT ![R(k)].amount = S(k).amount]
  /\ Step(k, "apply")
  /\ UNCHANGED <<stored, customers, ledger, held, bounds>>

\* A slip: a new case does not look for payments that came before it.
AfterSignalSum(k) == "sum"

\* A case that was just opened looks for payments that came before it.
AfterSignal(k) == IF opened[k] THEN "held" ELSE "sum"

\* The entry that a signal brings.
EntriesOf(s) ==
  IF s.payment = None THEN << >>
  ELSE IF s.kind \in SUCCESS_SIGNALS
  THEN <<Entry("PAYMENT", s.amount, <<"payment", s.payment>>)>>
  ELSE IF s.kind = "REFUND_PROCESSED"
  THEN <<Entry("REFUND", s.amount, <<"refund", s.payment>>)>>
  ELSE << >>

ApplySignal(k) ==
  /\ pc[k] = "apply"
  /\ IF S(k).kind = "PAYMENT_FAILED" /\ S(k).counts
     THEN Step(k, "count")
     ELSE /\ Enter(k, EntriesOf(S(k)), AfterSignal(k))
          /\ UNCHANGED <<event, row, opened, due, history>>
  /\ UNCHANGED <<tables, bounds>>

\* recordFailure: one more than the row had when it was read.
CountAttempt(k) ==
  /\ pc[k] = "count"
  /\ cases' = [cases EXCEPT ![R(k)].attempts = row[k].attempts + 1]
  /\ Step(k, AfterSignal(k))
  /\ UNCHANGED <<stored, customers, ledger, held, bounds>>

\* LedgerRepository.append with a provider reference: what is recorded already
\* is not recorded again; a different record under the reference is refused.
SelectRef(k) ==
  /\ pc[k] = "select"
  /\ LET e == queue[k][1] IN
     \/ e.amount = 0 /\ Thrown(k)
     \/ e.amount # 0 /\ \E f \in Under(e.ref) : ~Agrees(e, f) /\ Thrown(k)
     \/ /\ e.amount # 0 /\ \E f \in Under(e.ref) : Agrees(e, f)
        /\ Enter(k, Tail(queue[k]), cont[k])
        /\ UNCHANGED <<event, row, opened, due, history>>
     \/ /\ e.amount # 0 /\ Under(e.ref) = {}
        /\ Step(k, "insert")
  /\ UNCHANGED <<tables, bounds>>

InsertEntry(k) ==
  /\ pc[k] = "insert"
  /\ LET e == queue[k][1] IN
     \/ ~Insertable(e) /\ Thrown(k) /\ UNCHANGED ledger
     \/ /\ Insertable(e) /\ Insert(R(k), e)
        /\ Enter(k, Tail(queue[k]), cont[k])
        /\ UNCHANGED <<event, row, opened, due, history>>
  /\ UNCHANGED <<stored, customers, cases, held, bounds>>

HeldFor(r) == {h \in held : h.reference = r}

EntriesOfHeld(found) ==
  [i \in DOMAIN found |->
     Entry("PAYMENT", found[i].amount, <<"payment", found[i].payment>>)]

\* A slip: the held payments are deleted as they are read.
ReadHeldAway(k) ==
  /\ pc[k] = "held"
  /\ \E found \in SetToSeqs(HeldFor(R(k))) :
       Enter(k, EntriesOfHeld(found), "sum")
  /\ held' = held \ HeldFor(R(k))
  /\ UNCHANGED <<stored, customers, cases, ledger, event, row, opened, due, history, bounds>>

\* applyHeldPayments: the payments that came before the case are appended, and
\* all that are held for the reference are deleted.  They come in any order.
ReadHeld(k) ==
  /\ pc[k] = "held"
  /\ \E found \in SetToSeqs(HeldFor(R(k))) :
       Enter(k, EntriesOfHeld(found), IF found = << >> THEN "sum" ELSE "drop")
  /\ UNCHANGED <<tables, event, row, opened, due, history, bounds>>

DropHeld(k) ==
  /\ pc[k] = "drop"
  /\ held' = held \ HeldFor(R(k))
  /\ Step(k, "sum")
  /\ UNCHANGED <<stored, customers, cases, ledger, bounds>>

\* settle: what is owed is summed; what an invoice is short of may be tax.
Sum(k) ==
  /\ pc[k] \in {"sum", "resum"}
  /\ due' = [due EXCEPT ![k] = Outstanding(R(k))]
  /\ Goto(k, IF pc[k] = "sum" /\ due'[k] > 0 /\ row[k].invoice THEN "tds" ELSE "mark")
  /\ UNCHANGED <<tables, event, row, opened, queue, cont, history, bounds>>

RecogniseTds(k) ==
  /\ pc[k] = "tds"
  /\ LET paid == Paid(R(k))
         found == IF paid > 0 THEN Deductions(Billed(R(k)), paid) ELSE {}
     IN \/ \E d \in found :
             /\ Enter(k, <<Entry("TDS_ADJUSTMENT", d, NoRef)>>, "resum")
             /\ UNCHANGED <<event, row, opened, due, history>>
        \/ found = {} /\ Step(k, "mark")
  /\ UNCHANGED <<tables, bounds>>

\* A slip: < for <=.
MarkBelow(k) ==
  /\ pc[k] = "mark"
  /\ LET recovered == due[k] < 0
     IN cases' = IF recovered /\ row[k].state # "RECOVERED"
                   THEN [cases EXCEPT ![R(k)].state = "RECOVERED"]
                 ELSE IF ~recovered /\ row[k].state = "RECOVERED"
                   THEN [cases EXCEPT ![R(k)].state = "IN_PROGRESS"]
                 ELSE cases
  /\ Accepted(k)
  /\ UNCHANGED <<stored, customers, ledger, held, bounds>>

\* The state follows the sum, from the state the row had when it was read.
Mark(k) ==
  /\ pc[k] = "mark"
  /\ LET recovered == due[k] <= 0
     IN cases' = IF recovered /\ row[k].state # "RECOVERED"
                   THEN [cases EXCEPT ![R(k)].state = "RECOVERED"]
                 ELSE IF ~recovered /\ row[k].state = "RECOVERED"
                   THEN [cases EXCEPT ![R(k)].state = "IN_PROGRESS"]
                 ELSE cases
  /\ Accepted(k)
  /\ UNCHANGED <<stored, customers, ledger, held, bounds>>

\* A query fails, or the process dies: the request goes no further.
Fail(k) ==
  /\ pc[k] # "idle" /\ failures < limit.failures
  /\ failures' = failures + 1
  /\ Thrown(k)
  /\ UNCHANGED <<tables, limit, deliveries>>

Next ==
  \E k \in Call :
    \/ \E e \in Event : Deliver(k, e)
    \/ Receive(k) \/ Persist(k) \/ Find(k)
    \/ FindCustomer(k) \/ AddCustomer(k) \/ OpenCase(k) \/ Prune(k) \/ Hold(k)
    \/ Bill(k) \/ Rebill(k) \/ ApplySignal(k) \/ CountAttempt(k)
    \/ SelectRef(k) \/ InsertEntry(k) \/ ReadHeld(k) \/ DropHeld(k)
    \/ Sum(k) \/ RecogniseTds(k) \/ Mark(k) \/ Fail(k)

Spec == Init /\ [][Next]_vars

-----------------------------------------------------------------------------
Booked(e) == Under(<<"payment", Signal[e].payment>>) # {}
Kept(e) == \E h \in held : h.payment = Signal[e].payment
GivenUp(e) == Signal[e].payment \in pruned

Payments(r) ==
  {e \in projected : Signal[e].reference = r /\ Signal[e].kind \in SUCCESS_SIGNALS
                     /\ Signal[e].payment # None /\ Signal[e].amount > 0}
Openings(r) ==
  {e \in projected : Signal[e].reference = r /\ Signal[e].kind \in OPENING_SIGNALS
                     /\ Signal[e].amount > 0}

Quiet(r) == \A k \in Call : pc[k] \in Projecting => R(k) # r

\* No provider reference is in the ledger twice, in one case or in two,
\* whatever overlapped, failed or was sent again.
BookedOnce ==
  \A r, q \in Reference : \A i \in 1..Len(ledger[r]), j \in 1..Len(ledger[q]) :
    ledger[r][i].ref = ledger[q][j].ref /\ ledger[r][i].ref # NoRef => r = q /\ i = j

\* A payment that was reported as projected is in the ledger or is held, until
\* it is given up for its age, though requests fail anywhere; as long as no
\* two requests were at work on its reference at a time.
PaymentKept ==
  \A r \in Reference \ overlapped : \A e \in Payments(r) : Booked(e) \/ Kept(e) \/ GivenUp(e)

\* Where no requests overlapped and none failed half way, a case is RECOVERED
\* just when its ledger owes nothing: payments, refunds, larger bills and tax
\* move both together.
StateMatchesLedger ==
  \A r \in Reference \ (overlapped \cup failed) :
    Quiet(r) /\ cases[r] # None =>
      (cases[r].state = "RECOVERED" <=> Outstanding(r) <= 0)

\* The order of arrival makes no difference: once an opening signal and a
\* payment have been projected the payment is in the ledger of the case, and
\* every failure that counts has been counted.
SameInAnyOrder(r) ==
  Quiet(r) =>
    /\ cases[r] # None <=> Openings(r) # {}
    /\ cases[r] # None => \A e \in Payments(r) : Booked(e) \/ GivenUp(e)
    /\ cases[r] # None =>
         cases[r].attempts =
           Cardinality({e \in projected : Signal[e].reference = r
                          /\ Signal[e].kind = "PAYMENT_FAILED" /\ Signal[e].counts})

\* So it is where no requests overlapped and none failed half way.
OrderIrrelevant == \A r \in Reference \ (overlapped \cup failed) : SameInAnyOrder(r)

\* What the tests of the projector say of any two events: they reach the same
\* state whichever order they arrive in.
OrderIndependent == \A r \in Reference \ failed : SameInAnyOrder(r)
===============================================================================
