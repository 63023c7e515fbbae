----------------------------- MODULE IngestProofs -----------------------------
(***************************************************************************)
(* No provider reference is booked twice, and no payment that a request    *)
(* reported is lost, for any events, any number of requests at a time and  *)
(* any failures.  What is summed is not needed for it: entries may be of   *)
(* any type.                                                               *)
(*                                                                         *)
(* Then the order in which events arrive makes no difference: where no     *)
(* requests overlapped and none failed half way, a reference has a case    *)
(* just when an opening signal was projected, the payments that were       *)
(* projected are in its ledger or given up, and every failure that counts  *)
(* is counted.                                                             *)
(*                                                                         *)
(* Ordered has two parts.  Settled says it of a reference on which nobody  *)
(* works; Working says of the one request that works on a reference how    *)
(* far it has got from there.  A case's state follows its ledger by the    *)
(* same division: Level says so of a reference on which nobody works,      *)
(* Weighing that the sum a request marks a case by is still that of the    *)
(* ledger.  At the end come the types, with what they need of the sums.    *)
(***************************************************************************)
EXTENDS Ingest, FiniteSetTheorems, WellFoundedInduction, TLAPS

\* The ledger holds a sequence for each reference.
LedgerShape ==
  /\ ledger = [r \in Reference |-> ledger[r]]
  /\ \A r \in Reference : \E Items : ledger[r] \in Seq(Items)

\* What an append leaves: the entries so far, and the new one behind them.
LEMMA Appended ==
  ASSUME LedgerShape, NEW r \in Reference, NEW e, Insert(r, e)
  PROVE  /\ LedgerShape'
         /\ Len(ledger[r]) \in Nat /\ Len(ledger'[r]) = Len(ledger[r]) + 1
         /\ \A i \in 1..Len(ledger[r]) : ledger'[r][i] = ledger[r][i]
         /\ ledger'[r][Len(ledger[r]) + 1] = e
         /\ \A q \in Reference \ {r} : ledger'[q] = ledger[q]
<1>1. PICK Items : ledger[r] \in Seq(Items)
  BY DEF LedgerShape
<1>2. ledger[r] \in Seq(Items \cup {e})
  BY <1>1
<1>3. ledger'[r] = Append(ledger[r], e)
  BY DEF Insert, LedgerShape
<1>4. Append(ledger[r], e) \in Seq(Items \cup {e})
  BY <1>2
<1>5. \A q \in Reference \ {r} : ledger'[q] = ledger[q]
  BY DEF Insert, LedgerShape
<1>6. ledger' = [q \in Reference |-> ledger'[q]]
  BY DEF Insert, LedgerShape
<1>7. \A q \in Reference : \E X : ledger'[q] \in Seq(X)
  BY <1>3, <1>4, <1>5 DEF LedgerShape
<1>8. LedgerShape'
  BY <1>6, <1>7 DEF LedgerShape
<1>9. QED
  BY <1>2, <1>3, <1>5, <1>8

\* An entry that the unique index lets in is under a reference of its own.
LEMMA NotThereYet ==
  ASSUME LedgerShape, NEW e, e.ref # NoRef, Insertable(e),
         NEW r \in Reference, NEW i \in 1..Len(ledger[r])
  PROVE  ledger[r][i].ref # e.ref
<1>1. PICK Items : ledger[r] \in Seq(Items)
  BY DEF LedgerShape
<1>2. ledger[r][i] \in Range(ledger[r])
  BY <1>1 DEF Range
<1>3. ledger[r][i] \notin Under(e.ref)
  BY DEF Insertable
<1>4. QED
  BY <1>2, <1>3 DEF Under

\* The insert keeps the ledger free of duplicates.
LEMMA InsertBooksOnce ==
  ASSUME LedgerShape, BookedOnce, NEW r \in Reference, NEW e,
         Insertable(e), Insert(r, e)
  PROVE  LedgerShape' /\ BookedOnce'
<1>1. /\ LedgerShape'
      /\ Len(ledger[r]) \in Nat /\ Len(ledger'[r]) = Len(ledger[r]) + 1
      /\ \A i \in 1..Len(ledger[r]) : ledger'[r][i] = ledger[r][i]
      /\ ledger'[r][Len(ledger[r]) + 1] = e
      /\ \A q \in Reference \ {r} : ledger'[q] = ledger[q]
  BY Appended
<1>2. SUFFICES ASSUME NEW p \in Reference, NEW q \in Reference,
                      NEW i \in 1..Len(ledger'[p]), NEW j \in 1..Len(ledger'[q]),
                      ledger'[p][i].ref = ledger'[q][j].ref, ledger'[p][i].ref # NoRef
               PROVE  p = q /\ i = j
  BY <1>1 DEF BookedOnce
<1> DEFINE Old(s, k) == k \in 1..Len(ledger[s]) /\ ledger'[s][k] = ledger[s][k]
           New(s, k) == s = r /\ k = Len(ledger[r]) + 1 /\ ledger'[s][k] = e
<1>3. ASSUME NEW s \in Reference, NEW k \in 1..Len(ledger'[s]) PROVE Old(s, k) \/ New(s, k)
  <2>1. CASE s = r
    BY <1>1, <2>1
  <2>2. CASE s # r
    BY <1>1, <2>2
  <2>3. QED
    BY <2>1, <2>2
<1>4. CASE Old(p, i) /\ Old(q, j)
  BY <1>2, <1>4 DEF BookedOnce
<1>5. CASE Old(p, i) /\ New(q, j)
  BY <1>2, <1>5, NotThereYet
<1>6. CASE New(p, i) /\ Old(q, j)
  BY <1>2, <1>6, NotThereYet
<1>7. CASE New(p, i) /\ New(q, j)
  BY <1>7
<1>8. Old(p, i) \/ New(p, i)
  BY <1>3
<1>9. Old(q, j) \/ New(q, j)
  BY <1>3
<1>10. QED
  BY <1>4, <1>5, <1>6, <1>7, <1>8, <1>9

LEMMA Untouched == LedgerShape /\ BookedOnce /\ UNCHANGED ledger => LedgerShape' /\ BookedOnce'
BY DEF LedgerShape, BookedOnce

\* No provider reference is in the ledger twice, in one case or in two: the
\* unique index alone answers for it, not the search that goes before.
THEOREM BooksOnce == Spec => []BookedOnce
<1>1. Init => LedgerShape /\ BookedOnce
  <2> SUFFICES ASSUME Init PROVE LedgerShape /\ BookedOnce
    OBVIOUS
  <2>1. ledger = [r \in Reference |-> << >>]
    BY DEF Init
  <2>2. \A r \in Reference : ledger[r] = << >> /\ ledger[r] \in Seq({}) /\ Len(ledger[r]) = 0
    BY <2>1
  <2>3. QED
    BY <2>1, <2>2 DEF LedgerShape, BookedOnce
<1>2. LedgerShape /\ BookedOnce /\ [Next]_vars => (LedgerShape /\ BookedOnce)'
  <2> SUFFICES ASSUME LedgerShape, BookedOnce, [Next]_vars PROVE LedgerShape' /\ BookedOnce'
    OBVIOUS
  <2>1. CASE UNCHANGED ledger
    BY <2>1, Untouched
  <2>2. ASSUME NEW k \in Call, InsertEntry(k) PROVE LedgerShape' /\ BookedOnce'
    <3>1. CASE \E e : Insertable(e) /\ Insert(R(k), e)
      <4>1. PICK e : Insertable(e) /\ Insert(R(k), e)
        BY <3>1
      <4>2. CASE R(k) \in Reference
        BY <4>1, <4>2, InsertBooksOnce
      <4>3. CASE R(k) \notin Reference
        <5>1. ledger' = ledger
          BY <4>1, <4>3 DEF Insert, LedgerShape
        <5>2. QED
          BY <2>1, <5>1
      <4>4. QED
        BY <4>2, <4>3
    <3>2. CASE UNCHANGED ledger
      BY <2>1, <3>2
    <3>3. QED
      BY <2>2, <3>1, <3>2 DEF InsertEntry
  <2>3. ASSUME NEW k \in Call, NEW e \in Event, Deliver(k, e) PROVE UNCHANGED ledger
    BY <2>3 DEF Deliver, tables
  <2>4. ASSUME NEW k \in Call, Receive(k) \/ Persist(k) PROVE UNCHANGED ledger
    BY <2>4 DEF Receive, Persist, tables
  <2>5. ASSUME NEW k \in Call,
               \/ Find(k) \/ FindCustomer(k) \/ AddCustomer(k) \/ OpenCase(k)
               \/ Prune(k) \/ Hold(k)
        PROVE  UNCHANGED ledger
    BY <2>5 DEF Find, FindCustomer, AddCustomer, OpenCase, Prune, Hold, tables
  <2>6. ASSUME NEW k \in Call,
               \/ Bill(k) \/ Rebill(k) \/ ApplySignal(k) \/ CountAttempt(k)
               \/ SelectRef(k) \/ ReadHeld(k) \/ DropHeld(k)
        PROVE  UNCHANGED ledger
    BY <2>6 DEF Bill, Rebill, ApplySignal, CountAttempt, SelectRef, ReadHeld, DropHeld, tables
  <2>7. ASSUME NEW k \in Call, Sum(k) \/ RecogniseTds(k) \/ Mark(k) \/ Fail(k)
        PROVE  UNCHANGED ledger
    BY <2>7 DEF Sum, RecogniseTds, Mark, Fail, tables
  <2>8. CASE UNCHANGED vars
    BY <2>1, <2>8 DEF vars, tables
  <2>9. QED
    BY <2>1, <2>2, <2>3, <2>4, <2>5, <2>6, <2>7, <2>8 DEF Next
<1>3. QED
  BY <1>1, <1>2, PTL DEF Spec

-----------------------------------------------------------------------------
(* Payments are kept.  A request that carries a payment books it before it *)
(* gets to the sum; one that opened a case has every held payment booked   *)
(* or waiting in its queue before it deletes them; and requests that work  *)
(* on one reference at a time are known to overlap.                        *)

Paying(s) == s.kind \in SUCCESS_SIGNALS /\ s.payment # None /\ s.amount > 0

PaymentRef(p) == <<"payment", p>>

\* The reference is in the ledger, or the request is about to append it.
Coming(k, x) == Under(x) # {} \/ \E i \in 1..Len(queue[k]) : queue[k][i].ref = x

\* The stacks are functions over Call, and what is to be appended is a sequence.
Stacks ==
  /\ pc = [k \in Call |-> pc[k]]
  /\ event = [k \in Call |-> event[k]]
  /\ opened = [k \in Call |-> opened[k]]
  /\ queue = [k \in Call |-> queue[k]]
  /\ cont = [k \in Call |-> cont[k]]
  /\ \A k \in Call : \E Items : queue[k] \in Seq(Items)

\* What a request may be at, by its signal.
Roles(k) ==
  /\ pc[k] \in PC
  /\ pc[k] # "idle" => event[k] \in Event
  /\ pc[k] = "idle" => ~opened[k]
  /\ pc[k] \in Projecting => R(k) \in Reference
  /\ pc[k] \in {"customer", "addCustomer", "open", "count", "held", "drop"} =>
       S(k).kind \in OPENING_SIGNALS
  /\ opened[k] => S(k).kind \in OPENING_SIGNALS
  /\ pc[k] \in Appending =>
       /\ queue[k] # << >>
       /\ cont[k] \in {"apply", "rebill", "sum", "drop", "resum"}
       /\ cont[k] = "drop" => S(k).kind \in OPENING_SIGNALS
  /\ pc[k] = "hold" => Paying(S(k))

\* A request past its append has booked its payment.
PaidIn(k) ==
  Paying(S(k)) =>
    /\ pc[k] \in {"sum", "tds", "resum", "mark"} => Under(PaymentRef(S(k).payment)) # {}
    /\ pc[k] \in Appending /\ cont[k] = "resum" => Under(PaymentRef(S(k).payment)) # {}
    /\ pc[k] \in Appending /\ cont[k] = "sum" => Coming(k, PaymentRef(S(k).payment))

\* A request that will delete what is held has it booked, or is about to.
Dropping(k) ==
  R(k) \notin overlapped =>
    \A h \in HeldFor(R(k)) :
      /\ pc[k] = "drop" => Under(PaymentRef(h.payment)) # {}
      /\ pc[k] \in Appending /\ cont[k] = "drop" => Coming(k, PaymentRef(h.payment))

Sound(k) == Roles(k) /\ PaidIn(k) /\ Dropping(k)

\* Two requests at work on a reference overlap.
Alone ==
  \A k, u \in Call :
    k # u /\ pc[k] \in Projecting /\ pc[u] \in Projecting /\ R(k) = R(u) =>
      R(k) \in overlapped

\* What is held came with an event, and under that event's reference.
HeldKnown ==
  /\ IsFiniteSet(held)
  /\ \A h \in held : \E e \in Event :
       h.payment = Signal[e].payment /\ h.payment # None /\ h.reference = Signal[e].reference

Keeping ==
  /\ LedgerShape /\ Stacks /\ HeldKnown /\ Alone
  /\ projected \subseteq Event
  /\ \A k \in Call : Sound(k)

-----------------------------------------------------------------------------
(* What a step of k does, as far as the payments are concerned *)

\* It is on no stack but its own.
Apart(k) ==
  \A u \in Call \ {k} :
    /\ pc'[u] = pc[u] /\ event'[u] = event[u] /\ opened'[u] = opened[u]
    /\ queue'[u] = queue[u] /\ cont'[u] = cont[u]

\* It takes up the work on a reference alone, or has it noted.
Joins(k) ==
  pc'[k] \in Projecting =>
    /\ event'[k] = event[k]
    /\ pc[k] \in Projecting \/ Others(k) = {} \/ R(k) \in overlapped'

\* It books for good, holds payments of its own reference only, and lets go of
\* a held payment that is given up or, where no two overlap, booked.
Books(k) ==
  /\ \A x : Under(x) # {} => Under(x)' # {}
  /\ overlapped \subseteq overlapped' /\ pruned \subseteq pruned'
  /\ \A h \in held' \ held : h.reference = R(k) /\ pc[k] \in Projecting
  /\ \A h \in held \ held' :
       h.payment \in pruned' \/ h.reference \in overlapped \/ Under(PaymentRef(h.payment)) # {}

\* It reports a payment that is booked or held.
Reports(k) ==
  \A e \in projected' \ projected :
    e \in Event /\ (Paying(Signal[e]) /\ Signal[e].reference \in Reference => Booked(e)' \/ Kept(e)')

Careful(k) ==
  /\ Stacks' /\ Apart(k) /\ Joins(k) /\ Sound(k)'
  /\ LedgerShape' /\ HeldKnown' /\ Books(k) /\ Reports(k)

LEMMA LedgerStill == UNCHANGED ledger => \A x : Under(x)' = Under(x)
BY DEF Under

\* The requests that do not move stay sound.
LEMMA Bystander ==
  ASSUME Keeping, NEW k \in Call, NEW u \in Call \ {k}, Apart(k), Books(k)
  PROVE  Sound(u)'
<1>1. /\ pc'[u] = pc[u] /\ event'[u] = event[u] /\ opened'[u] = opened[u]
      /\ queue'[u] = queue[u] /\ cont'[u] = cont[u]
  BY DEF Apart
<1>2. S(u)' = S(u) /\ R(u)' = R(u)
  BY <1>1 DEF S, R
<1>3. Sound(u)
  BY DEF Keeping
<1>4. Roles(u)'
  BY <1>1, <1>2, <1>3 DEF Sound, Roles
<1>5. \A x : Under(x) # {} => Under(x)' # {}
  BY DEF Books
<1>6. PaidIn(u)'
  <2>1. PaidIn(u) BY <1>3 DEF Sound
  <2> QED BY <1>1, <1>2, <1>5, <2>1 DEF PaidIn, Coming, PaymentRef
<1>7. Dropping(u)'
  <2>1. SUFFICES ASSUME R(u) \notin overlapped', NEW h \in held', h.reference = R(u),
                        pc[u] = "drop" \/ pc[u] \in Appending
                 PROVE  /\ pc[u] = "drop" => (Under(PaymentRef(h.payment)) # {})'
                        /\ pc[u] \in Appending /\ cont[u] = "drop" =>
                             Coming(u, PaymentRef(h.payment))'
    BY <1>1, <1>2 DEF Dropping, HeldFor
  <2>2. R(u) \notin overlapped
    BY <2>1 DEF Books
  <2>3. pc[u] \in Projecting
    BY <2>1 DEF Projecting, Appending
  <2>4. h \in held
    BY <2>1, <2>2, <2>3 DEF Keeping, Alone, Books
  <2>5. h \in HeldFor(R(u))
    BY <2>1, <2>4 DEF HeldFor
  <2>6. Dropping(u)
    BY <1>3 DEF Sound
  <2>7. /\ pc[u] = "drop" => Under(PaymentRef(h.payment)) # {}
        /\ pc[u] \in Appending /\ cont[u] = "drop" => Coming(u, PaymentRef(h.payment))
    BY <2>2, <2>5, <2>6 DEF Dropping
  <2> QED BY <1>1, <1>5, <2>7 DEF Coming, PaymentRef
<1> QED BY <1>4, <1>6, <1>7 DEF Sound

\* A careful step keeps the invariant.
LEMMA CarefulKeeps ==
  ASSUME IngestAssumption, Keeping, PaymentKept, NEW k \in Call, Careful(k)
  PROVE  Keeping' /\ PaymentKept'
<1>1. \A u \in Call : Sound(u)'
  BY Bystander DEF Careful
<1>2. projected' \subseteq Event
  BY DEF Careful, Reports, Keeping
<1>3. Alone'
  <2>1. SUFFICES ASSUME NEW a \in Call, NEW b \in Call, a # b, pc'[a] \in Projecting,
                        pc'[b] \in Projecting, R(a)' = R(b)'
                 PROVE  R(a)' \in overlapped'
    BY DEF Alone
  <2>2. ASSUME NEW u \in Call \ {k}, pc'[k] \in Projecting, pc'[u] \in Projecting, R(k)' = R(u)'
        PROVE  R(k)' \in overlapped'
    <3>1. pc[u] \in Projecting /\ event'[u] = event[u] /\ event'[k] = event[k]
      BY <2>2 DEF Careful, Apart, Joins
    <3>2. R(k) = R(u) /\ R(k)' = R(k)
      BY <2>2, <3>1 DEF R, S
    <3>3. u \in Others(k)
      BY <3>1, <3>2 DEF Others
    <3>4. CASE pc[k] \in Projecting
      BY <3>1, <3>2, <3>4 DEF Careful, Books, Keeping, Alone
    <3> QED BY <2>2, <3>2, <3>3, <3>4 DEF Careful, Joins
  <2>3. CASE a = k \/ b = k
    BY <2>1, <2>2, <2>3
  <2>4. CASE a # k /\ b # k
    <3>1. /\ pc[a] \in Projecting /\ event'[a] = event[a]
          /\ pc[b] \in Projecting /\ event'[b] = event[b]
      BY <2>1, <2>4 DEF Careful, Apart
    <3>2. R(a)' = R(a) /\ R(b)' = R(b)
      BY <3>1 DEF R, S
    <3> QED BY <2>1, <3>1, <3>2 DEF Keeping, Alone, Careful, Books
  <2> QED BY <2>3, <2>4
<1>4. PaymentKept'
  <2>1. SUFFICES ASSUME NEW r \in Reference, r \notin overlapped', NEW e \in projected',
                        Signal[e].reference = r, Paying(Signal[e])
                 PROVE  (Booked(e) \/ Kept(e) \/ GivenUp(e))'
    BY DEF PaymentKept, Payments, Paying
  <2>2. CASE e \notin projected
    BY <2>1, <2>2 DEF Careful, Reports
  <2>3. CASE e \in projected
    <3>1. Booked(e) \/ Kept(e) \/ GivenUp(e)
      BY <2>1, <2>3 DEF PaymentKept, Payments, Paying, Careful, Books
    <3>2. CASE Booked(e)
      BY <3>2 DEF Booked, Careful, Books
    <3>3. CASE GivenUp(e)
      BY <3>3 DEF GivenUp, Careful, Books
    <3>4. CASE Kept(e)
      <4>1. PICK h \in held : h.payment = Signal[e].payment
        BY <3>4 DEF Kept
      <4>2. CASE h \in held'
        BY <4>1, <4>2 DEF Kept
      <4>3. CASE h \notin held'
        <5>1. PICK f \in Event :
                h.payment = Signal[f].payment /\ h.payment # None /\ h.reference = Signal[f].reference
          BY DEF Keeping, HeldKnown
        <5>2. e \in Event
          BY <2>3 DEF Keeping
        <5>3. h.reference = r
          BY <2>1, <4>1, <5>1, <5>2 DEF IngestAssumption
        <5>4. h.payment \in pruned' \/ Under(PaymentRef(h.payment)) # {}
          BY <2>1, <4>3, <5>3 DEF Careful, Books
        <5>5. CASE h.payment \in pruned'
          BY <4>1, <5>5 DEF GivenUp
        <5>6. CASE Under(PaymentRef(h.payment)) # {}
          <6>1. Booked(e)
            BY <4>1, <5>6 DEF Booked, PaymentRef
          <6> QED BY <6>1 DEF Booked, Careful, Books
        <5> QED BY <5>4, <5>5, <5>6
      <4> QED BY <4>2, <4>3
    <3> QED BY <3>1, <3>2, <3>3, <3>4
  <2> QED BY <2>2, <2>3
<1> QED BY <1>1, <1>2, <1>3, <1>4 DEF Keeping, Careful

-----------------------------------------------------------------------------
(* What the moves on a stack leave *)

LEMMA Idled ==
  ASSUME Stacks, NEW k \in Call, Leave(k)
  PROVE  Stacks' /\ Apart(k) /\ Joins(k) /\ Sound(k)'
<1>1. /\ pc'[k] = "idle" /\ opened'[k] = FALSE /\ queue'[k] = << >>
      /\ Apart(k)
  BY DEF Leave, Goto, Stacks, Apart
<1>2. Stacks'
  <2>1. \A u \in Call : \E Items : queue'[u] \in Seq(Items)
    <3>1. queue'[k] \in Seq({}) BY <1>1
    <3> QED BY <1>1, <3>1 DEF Apart, Stacks
  <2> QED BY <2>1 DEF Leave, Goto, Stacks
<1>3. Sound(k)'
  BY <1>1 DEF Sound, Roles, PaidIn, Dropping, PC, Projecting, Appending
<1>4. Joins(k)
  BY <1>1 DEF Joins, Projecting, Appending
<1> QED BY <1>1, <1>2, <1>3, <1>4

\* Only pc moves.
LEMMA Stepped ==
  ASSUME Stacks, NEW k \in Call, NEW l, Goto(k, l), UNCHANGED <<event, opened, queue, cont>>
  PROVE  /\ Stacks' /\ Apart(k)
         /\ pc'[k] = l /\ event'[k] = event[k] /\ opened'[k] = opened[k]
         /\ queue'[k] = queue[k] /\ cont'[k] = cont[k]
         /\ S(k)' = S(k) /\ R(k)' = R(k)
<1>1. /\ pc'[k] = l /\ Apart(k)
  BY DEF Goto, Stacks, Apart
<1>2. Stacks'
  BY DEF Goto, Stacks
<1> QED BY <1>1, <1>2 DEF S, R

\* The entries are taken up.
LEMMA Entered ==
  ASSUME Stacks, NEW k \in Call, NEW Items, NEW es \in Seq(Items), NEW l,
         Enter(k, es, l), UNCHANGED <<event, opened>>
  PROVE  /\ Stacks' /\ Apart(k)
         /\ event'[k] = event[k] /\ opened'[k] = opened[k]
         /\ queue'[k] = es /\ cont'[k] = l
         /\ IF es = << >> THEN pc'[k] = l ELSE pc'[k] \in Appending
         /\ S(k)' = S(k) /\ R(k)' = R(k)
<1>1. /\ queue'[k] = es /\ cont'[k] = l
      /\ IF es = << >> THEN pc'[k] = l ELSE pc'[k] \in Appending
      /\ Apart(k)
  BY DEF Enter, Goto, Stacks, Apart, Appending
<1>2. \A u \in Call : \E X : queue'[u] \in Seq(X)
  BY <1>1 DEF Apart, Stacks
<1>3. Stacks'
  BY <1>2 DEF Enter, Goto, Stacks
<1> QED BY <1>1, <1>3 DEF S, R

\* The request may be answered: it carries no payment for any case.
Harmless(k) == Paying(S(k)) => R(k) \notin Reference

\* A step that touches neither what is booked nor what is held.
LEMMA Idle ==
  ASSUME Keeping, NEW k \in Call, UNCHANGED <<ledger, held, overlapped, pruned>>
  PROVE  /\ LedgerShape' /\ HeldKnown' /\ Books(k)
         /\ projected' = projected => Reports(k)
         /\ projected' = projected \cup {event[k]} /\ pc[k] # "idle" /\ Harmless(k) => Reports(k)
<1>1. LedgerShape' /\ HeldKnown'
  BY DEF LedgerShape, HeldKnown, Keeping
<1>2. Books(k)
  BY LedgerStill DEF Books
<1>3. projected' = projected => Reports(k)
  BY DEF Reports
<1>4. ASSUME projected' = projected \cup {event[k]}, pc[k] # "idle", Harmless(k) PROVE Reports(k)
  BY <1>4 DEF Reports, Harmless, S, R, Keeping, Sound, Roles
<1> QED BY <1>1, <1>2, <1>3, <1>4

\* A signal that opens a case does not pay.
LEMMA OpeningsDoNotPay == \A s : s.kind \in OPENING_SIGNALS => s.kind \notin SUCCESS_SIGNALS
BY DEF OPENING_SIGNALS, SUCCESS_SIGNALS

-----------------------------------------------------------------------------
(* The steps *)

LEMMA ThrownIsCareful ==
  ASSUME Keeping, NEW k \in Call, Thrown(k), UNCHANGED <<ledger, held>>
  PROVE  Careful(k)
<1>1. Stacks' /\ Apart(k) /\ Joins(k) /\ Sound(k)'
  BY Idled DEF Thrown, Keeping
<1>2. UNCHANGED <<overlapped, pruned, projected>>
  BY DEF Thrown
<1> QED BY <1>1, <1>2, Idle DEF Careful

LEMMA AcceptedIsCareful ==
  ASSUME Keeping, NEW k \in Call, pc[k] # "idle", Harmless(k), Accepted(k),
         UNCHANGED <<ledger, held>>
  PROVE  Careful(k)
<1>1. Stacks' /\ Apart(k) /\ Joins(k) /\ Sound(k)'
  BY Idled DEF Accepted, Keeping
<1>2. UNCHANGED <<overlapped, pruned>> /\ projected' = projected \cup {event[k]}
  BY DEF Accepted
<1> QED BY <1>1, <1>2, Idle DEF Careful

\* A move within the stack, to a place that asks for nothing.
LEMMA SteppedIsCareful ==
  ASSUME Keeping, NEW k \in Call, pc[k] # "idle", NEW l \in PC \ {"idle"}, Step(k, l),
         UNCHANGED <<ledger, held>>,
         l \in Projecting => pc[k] \in Projecting,
         l \in {"customer", "addCustomer", "open", "count", "held", "drop"} =>
           S(k).kind \in OPENING_SIGNALS,
         l # "hold", l # "drop",
         l \in {"sum", "tds", "resum", "mark"} /\ Paying(S(k)) =>
           Under(PaymentRef(S(k).payment)) # {},
         l \in Appending => l = "insert" /\ pc[k] = "select"
  PROVE  Careful(k)
<1>1. /\ Stacks' /\ Apart(k)
      /\ pc'[k] = l /\ event'[k] = event[k] /\ opened'[k] = opened[k]
      /\ queue'[k] = queue[k] /\ cont'[k] = cont[k]
      /\ S(k)' = S(k) /\ R(k)' = R(k)
  BY Stepped DEF Step, Keeping
<1>2. UNCHANGED <<overlapped, pruned, projected>>
  BY DEF Step, history
<1>3. Sound(k)
  BY DEF Keeping
<1>4. Roles(k)'
  BY <1>1, <1>3 DEF Sound, Roles, PC, Appending
<1>5. \A x : Under(x)' = Under(x)
  BY LedgerStill
<1>6. PaidIn(k)'
  <2>1. PaidIn(k) BY <1>3 DEF Sound
  <2> QED BY <1>1, <1>5, <2>1 DEF PaidIn, Coming, PaymentRef, Appending
<1>7. Dropping(k)'
  <2>1. Dropping(k) BY <1>3 DEF Sound
  <2> QED BY <1>1, <1>2, <1>5, <2>1 DEF Dropping, Coming, PaymentRef, Appending, HeldFor
<1>8. Joins(k)
  BY <1>1 DEF Joins
<1> QED BY <1>1, <1>2, <1>4, <1>6, <1>7, <1>8, Idle DEF Careful, Sound

\* Entries taken up, with what the place after them asks for.
LEMMA EnteredIsSound ==
  ASSUME Keeping, NEW k \in Call, pc[k] \in Projecting, NEW Items, NEW es \in Seq(Items), NEW l,
         Enter(k, es, l), UNCHANGED <<event, opened, overlapped, held>>,
         l \in {"apply", "rebill", "sum", "drop", "resum", "held"},
         l \in {"drop", "held"} => S(k).kind \in OPENING_SIGNALS,
         l = "held" => es = << >>,
         l = "resum" /\ Paying(S(k)) =>
           \A x : x = PaymentRef(S(k).payment) => Under(x)' # {},
         l = "sum" /\ Paying(S(k)) =>
           \A x : x = PaymentRef(S(k).payment) =>
             Under(x)' # {} \/ \E i \in 1..Len(es) : es[i].ref = x,
         l = "drop" /\ R(k) \notin overlapped =>
           \A h \in HeldFor(R(k)) : \A x : x = PaymentRef(h.payment) =>
             Under(x)' # {} \/ \E i \in 1..Len(es) : es[i].ref = x
  PROVE  Stacks' /\ Apart(k) /\ Joins(k) /\ Sound(k)'
<1>1. /\ Stacks' /\ Apart(k)
      /\ event'[k] = event[k] /\ opened'[k] = opened[k]
      /\ queue'[k] = es /\ cont'[k] = l
      /\ IF es = << >> THEN pc'[k] = l ELSE pc'[k] \in Appending
      /\ S(k)' = S(k) /\ R(k)' = R(k)
  BY Entered DEF Keeping
<1>2. Roles(k)
  BY DEF Keeping, Sound
<1>3. pc'[k] \in Appending => es # << >>
  BY <1>1 DEF Appending
<1>4. Roles(k)'
  <2>1. pc'[k] \in Projecting /\ pc'[k] # "hold"
    BY <1>1 DEF Projecting, Appending
  <2>2. R(k)' \in Reference /\ event'[k] \in Event
    BY <1>1, <1>2 DEF Roles, Projecting, Appending
  <2>3. pc'[k] \in {"customer", "addCustomer", "open", "count", "held", "drop"} =>
          S(k)'.kind \in OPENING_SIGNALS
    BY <1>1 DEF Appending
  <2>4. pc'[k] \in Appending =>
          /\ queue'[k] # << >>
          /\ cont'[k] \in {"apply", "rebill", "sum", "drop", "resum"}
          /\ cont'[k] = "drop" => S(k)'.kind \in OPENING_SIGNALS
    BY <1>1, <1>3
  <2> QED BY <1>1, <1>2, <2>1, <2>2, <2>3, <2>4 DEF Roles, PC, Projecting, Appending
<1>5. Len(es) = 0 <=> es = << >>
  OBVIOUS
<1>6. PaidIn(k)'
  <2>1. SUFFICES ASSUME Paying(S(k)), NEW x, x = PaymentRef(S(k).payment)
                 PROVE  /\ pc'[k] \in {"sum", "tds", "resum", "mark"} => Under(x)' # {}
                        /\ pc'[k] \in Appending /\ cont'[k] = "resum" => Under(x)' # {}
                        /\ pc'[k] \in Appending /\ cont'[k] = "sum" => Coming(k, x)'
    BY <1>1 DEF PaidIn, Coming, PaymentRef
  <2> QED BY <1>1, <1>5, <2>1 DEF Coming, Appending
<1>7. Dropping(k)'
  <2>1. SUFFICES ASSUME R(k) \notin overlapped, NEW h \in HeldFor(R(k)),
                        NEW x, x = PaymentRef(h.payment)
                 PROVE  /\ pc'[k] = "drop" => Under(x)' # {}
                        /\ pc'[k] \in Appending /\ cont'[k] = "drop" => Coming(k, x)'
    BY <1>1 DEF Dropping, Coming, PaymentRef, HeldFor
  <2> QED BY <1>1, <1>5, <2>1 DEF Coming, Appending
<1> QED BY <1>1, <1>4, <1>6, <1>7 DEF Joins, Sound

\* And where nothing else moves.
LEMMA EnteredIsCareful ==
  ASSUME Keeping, NEW k \in Call, pc[k] \in Projecting, NEW Items, NEW es \in Seq(Items), NEW l,
         Enter(k, es, l), UNCHANGED <<event, opened, history, ledger, held>>,
         l \in {"apply", "rebill", "sum", "drop", "resum", "held"},
         l \in {"drop", "held"} => S(k).kind \in OPENING_SIGNALS,
         l = "held" => es = << >>,
         l = "resum" /\ Paying(S(k)) => Under(PaymentRef(S(k).payment)) # {},
         l = "sum" /\ Paying(S(k)) =>
           \/ Under(PaymentRef(S(k).payment)) # {}
           \/ \E i \in 1..Len(es) : es[i].ref = PaymentRef(S(k).payment),
         l = "drop" /\ R(k) \notin overlapped =>
           \A h \in HeldFor(R(k)) :
             \/ Under(PaymentRef(h.payment)) # {}
             \/ \E i \in 1..Len(es) : es[i].ref = PaymentRef(h.payment)
  PROVE  Careful(k)
<1>1. \A x : Under(x)' = Under(x)
  BY LedgerStill
<1>2. UNCHANGED <<overlapped, pruned, projected>>
  BY DEF history
<1>3. Stacks' /\ Apart(k) /\ Joins(k) /\ Sound(k)'
  <2>1. /\ l = "resum" /\ Paying(S(k)) =>
             \A x : x = PaymentRef(S(k).payment) => Under(x)' # {}
        /\ l = "sum" /\ Paying(S(k)) =>
             \A x : x = PaymentRef(S(k).payment) =>
               Under(x)' # {} \/ \E i \in 1..Len(es) : es[i].ref = x
        /\ l = "drop" /\ R(k) \notin overlapped =>
             \A h \in HeldFor(R(k)) : \A x : x = PaymentRef(h.payment) =>
               Under(x)' # {} \/ \E i \in 1..Len(es) : es[i].ref = x
    BY <1>1
  <2> QED BY <1>2, <2>1, EnteredIsSound
<1> QED BY <1>2, <1>3, Idle DEF Careful

LEMMA ReceiverIsCareful ==
  ASSUME Keeping, NEW k \in Call,
         (\E e \in Event : Deliver(k, e)) \/ Receive(k) \/ Persist(k) \/ Find(k)
  PROVE  Careful(k)
<1>1. Stacks /\ Sound(k)
  BY DEF Keeping
<1>2. ASSUME NEW e \in Event, Deliver(k, e) PROVE Careful(k)
  <2>1. UNCHANGED <<ledger, held, overlapped, pruned, projected>>
    BY <1>2 DEF Deliver, tables, history
  <2>2. /\ pc'[k] = "receive" /\ event'[k] = e /\ ~opened'[k]
        /\ Apart(k) /\ Stacks'
    BY <1>1, <1>2 DEF Deliver, Goto, Stacks, Apart, Sound, Roles
  <2>3. Sound(k)'
    BY <2>2 DEF Sound, Roles, PaidIn, Dropping, PC, Projecting, Appending
  <2>4. Joins(k)
    BY <2>2 DEF Joins, Projecting, Appending
  <2> QED BY <2>1, <2>2, <2>3, <2>4, Idle DEF Careful
<1>3. CASE Receive(k)
  <2>1. UNCHANGED <<ledger, held, overlapped, pruned, projected>>
    BY <1>3 DEF Receive, tables, history, Step
  <2>2. CASE Leave(k)
    BY <1>1, <2>1, <2>2, Idled, Idle DEF Careful
  <2>3. CASE Step(k, "persist")
    BY <1>3, <2>1, <2>3, SteppedIsCareful DEF Receive, PC, Projecting, Appending
  <2> QED BY <1>3, <2>2, <2>3 DEF Receive
<1>4. CASE Persist(k)
  <2>1. UNCHANGED <<ledger, held>> /\ pc[k] = "persist"
    BY <1>4 DEF Persist
  <2>2. CASE Thrown(k)
    BY <2>1, <2>2, ThrownIsCareful
  <2>3. CASE Leave(k) /\ UNCHANGED history
    <3>1. UNCHANGED <<overlapped, pruned, projected>>
      BY <2>3 DEF history
    <3> QED BY <1>1, <2>1, <2>3, <3>1, Idled, Idle DEF Careful
  <2>4. CASE Step(k, "find")
    BY <2>1, <2>4, SteppedIsCareful DEF PC, Projecting, Appending
  <2> QED BY <1>4, <2>2, <2>3, <2>4 DEF Persist
<1>5. CASE Find(k)
  <2>1. UNCHANGED <<ledger, held>> /\ pc[k] = "find"
    BY <1>5 DEF Find, tables
  <2>2. event[k] \in Event /\ Signal[event[k]] \in Signals
    BY <1>1, <2>1, IngestAssumption DEF Sound, Roles
  <2>3. CASE R(k) = None
    <3>1. Accepted(k) /\ Harmless(k)
      BY <1>5, <2>3, IngestAssumption DEF Find, Harmless
    <3> QED BY <2>1, <3>1, AcceptedIsCareful
  <2>4. CASE R(k) # None
    <3>1. R(k) \in Reference
      BY <2>2, <2>4 DEF R, S, Signals
    <3>2. PICK l \in {"bill", "customer", "prune"} :
            /\ Goto(k, l) /\ UNCHANGED <<event, opened, queue, cont, projected, pruned>>
            /\ l = "customer" => S(k).kind \in OPENING_SIGNALS
            /\ overlapped' = IF Others(k) = {} THEN overlapped ELSE overlapped \cup {R(k)}
      BY <1>5, <2>4 DEF Find
    <3>3. /\ Stacks' /\ Apart(k)
          /\ pc'[k] = l /\ event'[k] = event[k] /\ opened'[k] = opened[k]
          /\ S(k)' = S(k) /\ R(k)' = R(k)
      BY <1>1, <3>2, Stepped
    <3>4. Sound(k)'
      BY <1>1, <2>2, <3>1, <3>2, <3>3
      DEF Sound, Roles, PaidIn, Dropping, PC, Projecting, Appending
    <3>5. Joins(k)
      BY <3>2, <3>3 DEF Joins
    <3>6. LedgerShape' /\ HeldKnown' /\ Reports(k)
      BY <2>1, <3>2 DEF LedgerShape, HeldKnown, Keeping, Reports
    <3>7. Books(k)
      BY <2>1, <3>2, LedgerStill DEF Books
    <3> QED BY <3>3, <3>4, <3>5, <3>6, <3>7 DEF Careful
  <2> QED BY <2>3, <2>4
<1> QED BY <1>2, <1>3, <1>4, <1>5

LEMMA OpeningIsCareful ==
  ASSUME Keeping, NEW k \in Call, FindCustomer(k) \/ AddCustomer(k) \/ OpenCase(k)
  PROVE  Careful(k)
<1>1. Stacks /\ Roles(k)
  BY DEF Keeping, Sound
<1>2. CASE FindCustomer(k) \/ AddCustomer(k)
  <2>1. /\ UNCHANGED <<ledger, held>> /\ pc[k] \in {"customer", "addCustomer"}
        /\ Thrown(k) \/ Step(k, "open") \/ Step(k, "addCustomer")
    BY <1>2 DEF FindCustomer, AddCustomer, tables
  <2>2. S(k).kind \in OPENING_SIGNALS
    BY <1>1, <2>1 DEF Roles
  <2>3. CASE Thrown(k)
    BY <2>1, <2>3, ThrownIsCareful
  <2>4. CASE Step(k, "open")
    BY <2>1, <2>2, <2>4, SteppedIsCareful DEF PC, Projecting, Appending
  <2>5. CASE Step(k, "addCustomer")
    BY <2>1, <2>2, <2>5, SteppedIsCareful DEF PC, Projecting, Appending
  <2> QED BY <2>1, <2>3, <2>4, <2>5
<1>3. CASE OpenCase(k)
  <2>1. UNCHANGED <<ledger, held>> /\ pc[k] = "open" /\ pc[k] \in Projecting
    BY <1>3 DEF OpenCase, Projecting
  <2>2. S(k).kind \in OPENING_SIGNALS
    BY <1>1, <2>1 DEF Roles
  <2>3. CASE Accepted(k)
    BY <2>1, <2>2, <2>3, AcceptedIsCareful, OpeningsDoNotPay DEF Harmless, Paying
  <2>4. CASE Thrown(k)
    BY <2>1, <2>4, ThrownIsCareful
  <2>5. CASE ~Accepted(k) /\ ~Thrown(k)
    <3>1. PICK e :
            /\ Enter(k, <<e>>, "apply") /\ UNCHANGED <<event, history>>
            /\ opened' = [opened EXCEPT ![k] = TRUE]
      BY <1>3, <2>5 DEF OpenCase
    <3>2. /\ queue'[k] = <<e>> /\ cont'[k] = "apply" /\ pc'[k] \in Appending
          /\ event'[k] = event[k] /\ opened'[k]
          /\ Apart(k) /\ Stacks'
      <4>1. /\ queue'[k] = <<e>> /\ cont'[k] = "apply" /\ pc'[k] \in Appending
            /\ event'[k] = event[k] /\ opened'[k]
            /\ Apart(k)
        BY <1>1, <3>1 DEF Enter, Goto, Stacks, Apart, Appending
      <4>2. \A u \in Call : \E X : queue'[u] \in Seq(X)
        <5>1. queue'[k] \in Seq({e}) BY <4>1
        <5> QED BY <1>1, <4>1, <5>1 DEF Apart, Stacks
      <4>3. Stacks'
        BY <1>1, <3>1, <4>2 DEF Enter, Goto, Stacks
      <4> QED BY <4>1, <4>3
    <3>3. Sound(k)'
      <4>1. S(k)' = S(k) /\ R(k)' = R(k)
        BY <3>2 DEF S, R
      <4> QED BY <1>1, <2>1, <2>2, <3>2, <4>1
              DEF Sound, Roles, PaidIn, Dropping, PC, Projecting, Appending
    <3>4. Joins(k)
      BY <2>1, <3>2 DEF Joins
    <3>5. UNCHANGED <<overlapped, pruned, projected>>
      BY <3>1 DEF history
    <3> QED BY <2>1, <3>2, <3>3, <3>4, <3>5, Idle DEF Careful
  <2> QED BY <2>3, <2>4, <2>5
<1> QED BY <1>2, <1>3

\* Payments that come before their case are held, and given up with a note.
LEMMA HoldingIsCareful ==
  ASSUME Keeping, NEW k \in Call, Prune(k) \/ Hold(k)
  PROVE  Careful(k)
<1>1. Stacks /\ Roles(k) /\ HeldKnown /\ LedgerShape
  BY DEF Keeping, Sound
<1>2. CASE Prune(k)
  <2>1. pc[k] = "prune" /\ ledger' = ledger /\ pc[k] \in Projecting
    BY <1>2 DEF Prune, Projecting
  <2>2. CASE ~Paying(S(k))
    <3>1. Accepted(k) /\ held' = held
      BY <1>2, <2>2 DEF Prune, Paying
    <3> QED BY <2>1, <2>2, <3>1, AcceptedIsCareful DEF Harmless
  <2>3. CASE Paying(S(k))
    <3> DEFINE old == {h \in held : h.at < S(k).at - RETENTION}
    <3>1. /\ held' = held \ old /\ pruned' = pruned \cup {h.payment : h \in old}
          /\ Goto(k, "hold")
          /\ UNCHANGED <<event, row, opened, queue, cont, due, projected, overlapped, failed>>
      BY <1>2, <2>3 DEF Prune, Paying
    <3> HIDE DEF old
    <3>2. /\ Stacks' /\ Apart(k)
          /\ pc'[k] = "hold" /\ event'[k] = event[k] /\ opened'[k] = opened[k]
          /\ S(k)' = S(k) /\ R(k)' = R(k)
      BY <1>1, <3>1, Stepped
    <3>3. Sound(k)'
      BY <1>1, <2>1, <2>3, <3>1, <3>2
      DEF Sound, Roles, PaidIn, Dropping, PC, Projecting, Appending
    <3>4. Joins(k)
      BY <2>1, <3>2 DEF Joins
    <3>5. HeldKnown'
      <4>1. IsFiniteSet(held')
        BY <1>1, <3>1, FS_Subset DEF HeldKnown
      <4> QED BY <1>1, <3>1, <4>1 DEF HeldKnown
    <3>6. LedgerShape' /\ Reports(k)
      BY <1>1, <2>1, <3>1 DEF LedgerShape, Reports
    <3>7. Books(k)
      BY <2>1, <3>1, LedgerStill DEF Books
    <3> QED BY <3>2, <3>3, <3>4, <3>5, <3>6, <3>7 DEF Careful
  <2> QED BY <2>2, <2>3
<1>3. CASE Hold(k)
  <2>1. pc[k] = "hold" /\ ledger' = ledger /\ pc[k] \in Projecting /\ Accepted(k)
    BY <1>3 DEF Hold, Projecting
  <2>2. Paying(S(k)) /\ event[k] \in Event
    BY <1>1, <2>1 DEF Roles
  <2>3. UNCHANGED <<overlapped, pruned>> /\ projected' = projected \cup {event[k]}
    BY <2>1 DEF Accepted
  <2>4. Stacks' /\ Apart(k) /\ Joins(k) /\ Sound(k)'
    BY <1>1, <2>1, Idled DEF Accepted
  <2>5. PICK h : /\ h.payment = S(k).payment /\ h.reference = R(k)
                 /\ held' = IF \E g \in held : g.payment = S(k).payment THEN held
                            ELSE held \cup {h}
    BY <1>3 DEF Hold
  <2>6. HeldKnown'
    <3>1. IsFiniteSet(held')
      BY <1>1, <2>5, FS_AddElement DEF HeldKnown
    <3> QED BY <1>1, <2>2, <2>5, <3>1 DEF HeldKnown, Paying, R, S
  <2>7. Books(k)
    BY <2>1, <2>3, <2>5, LedgerStill DEF Books
  <2>8. Reports(k)
    <3> SUFFICES ASSUME NEW e \in projected' \ projected PROVE e \in Event /\ Kept(e)'
      BY DEF Reports
    <3>1. e = event[k]
      BY <2>3
    <3>2. \E h1 \in held' : h1.payment = S(k).payment
      BY <2>5
    <3> QED BY <2>2, <3>1, <3>2 DEF Kept, S
  <2> QED BY <1>1, <2>1, <2>4, <2>6, <2>7, <2>8 DEF Careful, LedgerShape
<1> QED BY <1>2, <1>3

\* What a signal brings is its own payment, if it pays.
LEMMA EntriesAre ==
  ASSUME NEW s
  PROVE  /\ \E Items : EntriesOf(s) \in Seq(Items)
         /\ s.kind \in OPENING_SIGNALS => EntriesOf(s) = << >>
         /\ Paying(s) => /\ Len(EntriesOf(s)) = 1
                         /\ EntriesOf(s)[1].ref = PaymentRef(s.payment)
<1> DEFINE e == Entry("PAYMENT", s.amount, <<"payment", s.payment>>)
           f == Entry("REFUND", s.amount, <<"refund", s.payment>>)
<1>1. e.ref = PaymentRef(s.payment)
  BY DEF Entry, PaymentRef
<1> HIDE DEF e, f
<1>2. EntriesOf(s) \in {<< >>, <<e>>, <<f>>}
  BY DEF EntriesOf, e, f
<1>3. EntriesOf(s) \in Seq({e, f})
  <2>1. << >> \in Seq({e, f}) /\ <<e>> \in Seq({e, f}) /\ <<f>> \in Seq({e, f})
    OBVIOUS
  <2> QED BY <1>2, <2>1
<1>4. s.kind \in OPENING_SIGNALS => EntriesOf(s) = << >>
  BY DEF EntriesOf, OPENING_SIGNALS, SUCCESS_SIGNALS
<1>5. Paying(s) => EntriesOf(s) = <<e>>
  BY DEF EntriesOf, Paying, e
<1> QED BY <1>1, <1>3, <1>4, <1>5

LEMMA ApplyingIsCareful ==
  ASSUME Keeping, NEW k \in Call, Bill(k) \/ Rebill(k) \/ ApplySignal(k) \/ CountAttempt(k)
  PROVE  Careful(k)
<1>1. Stacks /\ Roles(k)
  BY DEF Keeping, Sound
<1>2. /\ UNCHANGED <<ledger, held>> /\ pc[k] \in {"bill", "rebill", "apply", "count"}
      /\ pc[k] # "idle" /\ pc[k] \in Projecting
  BY DEF Bill, Rebill, ApplySignal, CountAttempt, tables, Projecting
<1>3. ASSUME Step(k, "apply") PROVE Careful(k)
  BY <1>2, <1>3, SteppedIsCareful DEF PC, Projecting, Appending
<1>4. CASE Bill(k)
  <2>1. ASSUME NEW e, Enter(k, <<e>>, "rebill"), UNCHANGED <<event, opened, history>>
        PROVE  Careful(k)
    <3>1. <<e>> \in Seq({e})
      OBVIOUS
    <3> QED BY <1>2, <2>1, <3>1, EnteredIsCareful
  <2> QED BY <1>3, <1>4, <2>1 DEF Bill
<1>5. CASE Rebill(k)
  BY <1>3, <1>5 DEF Rebill
<1>6. CASE ApplySignal(k)
  <2>1. CASE S(k).kind = "PAYMENT_FAILED" /\ S(k).counts
    <3>1. Step(k, "count") /\ S(k).kind \in OPENING_SIGNALS
      BY <1>6, <2>1 DEF ApplySignal, OPENING_SIGNALS
    <3> QED BY <1>2, <3>1, SteppedIsCareful DEF PC, Projecting, Appending
  <2>2. CASE ~(S(k).kind = "PAYMENT_FAILED" /\ S(k).counts)
    <3> DEFINE es == EntriesOf(S(k))
    <3>1. Enter(k, es, AfterSignal(k)) /\ UNCHANGED <<event, opened, history>>
      BY <1>6, <2>2 DEF ApplySignal
    <3>2. PICK Items : es \in Seq(Items)
      BY EntriesAre
    <3>3. S(k).kind \in OPENING_SIGNALS => es = << >>
      BY EntriesAre
    <3>4. Paying(S(k)) => \E i \in 1..Len(es) : es[i].ref = PaymentRef(S(k).payment)
      BY EntriesAre
    <3>5. /\ AfterSignal(k) \in {"held", "sum"}
          /\ AfterSignal(k) = "held" => S(k).kind \in OPENING_SIGNALS
      BY <1>1 DEF AfterSignal, Roles
    <3> HIDE DEF es
    <3> QED BY <1>2, <3>1, <3>2, <3>3, <3>4, <3>5, EnteredIsCareful
  <2> QED BY <2>1, <2>2
<1>7. CASE CountAttempt(k)
  <2>1. S(k).kind \in OPENING_SIGNALS /\ Step(k, AfterSignal(k))
    BY <1>1, <1>7 DEF CountAttempt, Roles
  <2>2. AfterSignal(k) \in {"held", "sum"}
    BY DEF AfterSignal
  <2> QED BY <1>2, <2>1, <2>2, SteppedIsCareful, OpeningsDoNotPay
          DEF PC, Projecting, Appending, Paying
<1> QED BY <1>4, <1>5, <1>6, <1>7

\* What waits behind the first entry still waits once that is booked.
LEMMA Waiting ==
  ASSUME NEW Items, NEW q \in Seq(Items), q # << >>, NEW x,
         \E i \in 1..Len(q) : q[i].ref = x, q[1].ref # x
  PROVE  \E i \in 1..Len(Tail(q)) : Tail(q)[i].ref = x
<1>1. PICK i \in 1..Len(q) : q[i].ref = x
  OBVIOUS
<1>2. i # 1 /\ i - 1 \in 1..Len(Tail(q)) /\ Tail(q)[i - 1] = q[i]
  BY <1>1
<1> QED BY <1>1, <1>2

\* The queue moves on, past an entry whose reference is booked by then.
LEMMA QueueMovesOn ==
  ASSUME Keeping, NEW k \in Call, pc[k] \in Appending,
         Enter(k, Tail(queue[k]), cont[k]), UNCHANGED <<event, opened, overlapped, held>>,
         \A x : Under(x) # {} => Under(x)' # {},
         \A x : x = queue[k][1].ref /\ x # NoRef => Under(x)' # {}
  PROVE  Stacks' /\ Apart(k) /\ Joins(k) /\ Sound(k)'
<1>1. Stacks /\ Roles(k) /\ PaidIn(k) /\ Dropping(k)
  BY DEF Keeping, Sound
<1> DEFINE q == queue[k]
           l == cont[k]
<1>2. PICK Items : q \in Seq(Items)
  BY <1>1 DEF Stacks
<1>3. q # << >> /\ Tail(q) \in Seq(Items)
  BY <1>1, <1>2 DEF Roles
<1>4. /\ l \in {"apply", "rebill", "sum", "drop", "resum", "held"}
      /\ l # "held"
      /\ l = "drop" => S(k).kind \in OPENING_SIGNALS
  BY <1>1 DEF Roles
<1>5. ASSUME NEW p, Coming(k, PaymentRef(p)), NEW x, x = PaymentRef(p)
      PROVE  Under(x)' # {} \/ \E i \in 1..Len(Tail(q)) : Tail(q)[i].ref = x
  <2>1. x # NoRef
    BY <1>5 DEF PaymentRef, NoRef
  <2>2. CASE Under(x) # {}
    BY <2>2
  <2>3. CASE q[1].ref = x
    BY <2>1, <2>3
  <2>4. CASE Under(x) = {} /\ q[1].ref # x
    BY <1>2, <1>3, <1>5, <2>4, Waiting DEF Coming
  <2> QED BY <2>2, <2>3, <2>4
<1>6. pc[k] \in Projecting
  BY DEF Projecting
<1>7. l = "resum" /\ Paying(S(k)) => \A x : x = PaymentRef(S(k).payment) => Under(x)' # {}
  BY <1>1 DEF PaidIn
<1>8. l = "sum" /\ Paying(S(k)) =>
        \A x : x = PaymentRef(S(k).payment) =>
          Under(x)' # {} \/ \E i \in 1..Len(Tail(q)) : Tail(q)[i].ref = x
  BY <1>1, <1>5 DEF PaidIn
<1>9. l = "drop" /\ R(k) \notin overlapped =>
        \A h \in HeldFor(R(k)) : \A x : x = PaymentRef(h.payment) =>
          Under(x)' # {} \/ \E i \in 1..Len(Tail(q)) : Tail(q)[i].ref = x
  BY <1>1, <1>5 DEF Dropping
<1>10. Enter(k, Tail(q), l)
  OBVIOUS
<1> HIDE DEF q, l
<1> QED BY <1>3, <1>4, <1>6, <1>7, <1>8, <1>9, <1>10, EnteredIsSound

\* What is inserted is booked, and nothing that was booked is lost.
LEMMA InsertBooks ==
  ASSUME LedgerShape, NEW r \in Reference, NEW e, Insert(r, e)
  PROVE  /\ LedgerShape'
         /\ \A x : Under(x) # {} => Under(x)' # {}
         /\ \A x : x = e.ref => Under(x)' # {}
<1>1. /\ LedgerShape'
      /\ Len(ledger[r]) \in Nat /\ Len(ledger'[r]) = Len(ledger[r]) + 1
      /\ \A i \in 1..Len(ledger[r]) : ledger'[r][i] = ledger[r][i]
      /\ ledger'[r][Len(ledger[r]) + 1] = e
      /\ \A q \in Reference \ {r} : ledger'[q] = ledger[q]
  BY Appended
<1>2. \A q \in Reference : /\ DOMAIN ledger[q] = 1..Len(ledger[q])
                           /\ DOMAIN ledger'[q] = 1..Len(ledger'[q])
  BY <1>1 DEF LedgerShape
<1>3. \A q \in Reference : Range(ledger[q]) \subseteq Range(ledger'[q])
  <2> SUFFICES ASSUME NEW q \in Reference, NEW y \in Range(ledger[q]) PROVE y \in Range(ledger'[q])
    OBVIOUS
  <2>1. PICK i \in 1..Len(ledger[q]) : y = ledger[q][i]
    BY <1>2 DEF Range
  <2>2. i \in DOMAIN ledger'[q] /\ ledger'[q][i] = y
    BY <1>1, <1>2, <2>1
  <2> QED BY <2>2 DEF Range
<1>4. e \in Range(ledger'[r])
  <2>1. Len(ledger[r]) + 1 \in DOMAIN ledger'[r]
    BY <1>1, <1>2
  <2> QED BY <1>1, <2>1 DEF Range
<1> QED BY <1>1, <1>3, <1>4 DEF Under

LEMMA AppendingIsCareful ==
  ASSUME Keeping, NEW k \in Call, SelectRef(k) \/ InsertEntry(k)
  PROVE  Careful(k)
<1>1. Stacks /\ Roles(k) /\ LedgerShape
  BY DEF Keeping, Sound
<1>2. pc[k] \in Appending /\ held' = held /\ pc[k] # "idle" /\ pc[k] \in Projecting
  BY DEF SelectRef, InsertEntry, tables, Appending, Projecting
<1> DEFINE e == queue[k][1]
<1>3. ASSUME ledger' = ledger, Enter(k, Tail(queue[k]), cont[k]),
             UNCHANGED <<event, opened, history>>, Under(e.ref) # {}
      PROVE  Careful(k)
  <2>1. UNCHANGED <<overlapped, pruned, projected>>
    BY <1>3 DEF history
  <2>2. \A x : Under(x)' = Under(x)
    BY <1>3, LedgerStill
  <2>3. Stacks' /\ Apart(k) /\ Joins(k) /\ Sound(k)'
    BY <1>2, <1>3, <2>1, <2>2, QueueMovesOn
  <2> QED BY <1>2, <1>3, <2>1, <2>3, Idle DEF Careful
<1>4. CASE SelectRef(k)
  <2>1. ledger' = ledger /\ pc[k] = "select"
    BY <1>4 DEF SelectRef, tables
  <2>2. \/ Thrown(k)
        \/ Step(k, "insert")
        \/ /\ Under(e.ref) # {}
           /\ Enter(k, Tail(queue[k]), cont[k])
           /\ UNCHANGED <<event, opened, history>>
    BY <1>4 DEF SelectRef
  <2>3. CASE Thrown(k)
    BY <1>2, <2>1, <2>3, ThrownIsCareful
  <2>4. CASE Step(k, "insert")
    BY <1>2, <2>1, <2>4, SteppedIsCareful DEF PC, Projecting, Appending
  <2> HIDE DEF e
  <2> QED BY <1>3, <2>1, <2>2, <2>3, <2>4
<1>5. CASE InsertEntry(k)
  <2>1. \/ Thrown(k) /\ ledger' = ledger
        \/ /\ Insert(R(k), e) /\ Enter(k, Tail(queue[k]), cont[k])
           /\ UNCHANGED <<event, opened, history>>
    BY <1>5 DEF InsertEntry
  <2>2. CASE Thrown(k) /\ ledger' = ledger
    BY <1>2, <2>2, ThrownIsCareful
  <2>3. CASE /\ Insert(R(k), e) /\ Enter(k, Tail(queue[k]), cont[k])
             /\ UNCHANGED <<event, opened, history>>
    <3>1. R(k) \in Reference
      BY <1>1, <1>2 DEF Roles
    <3>2. /\ LedgerShape'
          /\ \A x : Under(x) # {} => Under(x)' # {}
          /\ \A x : x = e.ref => Under(x)' # {}
      <4> HIDE DEF e
      <4> QED BY <1>1, <2>3, <3>1, InsertBooks
    <3>3. UNCHANGED <<overlapped, pruned, projected>>
      BY <2>3 DEF history
    <3>4. Stacks' /\ Apart(k) /\ Joins(k) /\ Sound(k)'
      BY <1>2, <2>3, <3>2, <3>3, QueueMovesOn
    <3>5. HeldKnown' /\ Reports(k)
      BY <1>2, <3>3 DEF Keeping, HeldKnown, Reports
    <3>6. Books(k)
      BY <1>2, <3>2, <3>3 DEF Books
    <3> QED BY <3>2, <3>4, <3>5, <3>6 DEF Careful
  <2> HIDE DEF e
  <2> QED BY <2>1, <2>2, <2>3
<1> QED BY <1>4, <1>5

\* What is read of the held payments is all of them.
LEMMA AllAreRead ==
  ASSUME NEW H, IsFiniteSet(H), NEW found \in SetToSeqs(H)
  PROVE  /\ \E Items : EntriesOfHeld(found) \in Seq(Items)
         /\ found = << >> => H = {}
         /\ \A h \in H : \E i \in 1..Len(EntriesOfHeld(found)) :
              EntriesOfHeld(found)[i].ref = PaymentRef(h.payment)
<1> DEFINE n == Cardinality(H)
           es == EntriesOfHeld(found)
<1>1. n \in Nat
  BY FS_CardinalityType
<1>2. found \in [1..n -> H] /\ \A i, j \in 1..n : i # j => found[i] # found[j]
  BY DEF SetToSeqs
<1>3. found \in Injection(1..n, H)
  BY <1>2 DEF Injection, IsInjective
<1>4. Cardinality(1..n) = n
  BY <1>1, FS_Interval
<1>5. found \in Surjection(1..n, H)
  BY <1>3, <1>4, FS_Injection
<1>6. \A h \in H : \E i \in 1..n : found[i] = h
  BY <1>5 DEF Surjection
<1>7. \A i \in 1..n : es[i].ref = PaymentRef(found[i].payment)
  BY <1>2 DEF EntriesOfHeld, Entry, PaymentRef
<1>8. es = [i \in 1..n |-> es[i]]
  BY <1>2 DEF EntriesOfHeld
<1> HIDE DEF n, es
<1>9. es \in Seq({es[i] : i \in 1..n}) /\ Len(es) = n
  BY <1>1, <1>8
<1>10. found = << >> => H = {}
  <2> SUFFICES ASSUME found = << >>, NEW h \in H PROVE FALSE
    OBVIOUS
  <2>1. PICK i \in 1..n : found[i] = h
    BY <1>6
  <2>2. DOMAIN found = 1..n /\ DOMAIN found = {}
    BY <1>2
  <2> QED BY <2>1, <2>2
<1> QED BY <1>6, <1>7, <1>9, <1>10 DEF es

LEMMA DroppingIsCareful ==
  ASSUME Keeping, NEW k \in Call, ReadHeld(k) \/ DropHeld(k)
  PROVE  Careful(k)
<1>1. Stacks /\ Roles(k) /\ LedgerShape /\ HeldKnown /\ PaidIn(k) /\ Dropping(k)
  BY DEF Keeping, Sound
<1>2. ledger' = ledger /\ pc[k] \in {"held", "drop"} /\ pc[k] # "idle" /\ pc[k] \in Projecting
  BY DEF ReadHeld, DropHeld, tables, Projecting
<1>3. S(k).kind \in OPENING_SIGNALS /\ ~Paying(S(k))
  BY <1>1, <1>2, OpeningsDoNotPay DEF Roles, Paying
<1>4. CASE ReadHeld(k)
  <2>1. PICK found \in SetToSeqs(HeldFor(R(k))) :
          Enter(k, EntriesOfHeld(found), IF found = << >> THEN "sum" ELSE "drop")
    BY <1>4 DEF ReadHeld
  <2>2. UNCHANGED <<held, event, opened, history>>
    BY <1>4 DEF ReadHeld, tables
  <2>3. IsFiniteSet(HeldFor(R(k)))
    BY <1>1, FS_Subset DEF HeldFor, HeldKnown
  <2> DEFINE es == EntriesOfHeld(found)
             l == IF found = << >> THEN "sum" ELSE "drop"
  <2>4. PICK Items : es \in Seq(Items)
    BY <2>3, AllAreRead
  <2>5. \A h \in HeldFor(R(k)) : \E i \in 1..Len(es) : es[i].ref = PaymentRef(h.payment)
    BY <2>3, AllAreRead
  <2>6. Enter(k, es, l) /\ l \in {"sum", "drop"}
    BY <2>1
  <2> HIDE DEF es, l
  <2> QED BY <1>2, <1>3, <2>2, <2>4, <2>5, <2>6, EnteredIsCareful
<1>5. CASE DropHeld(k)
  <2>1. pc[k] = "drop" /\ held' = held \ HeldFor(R(k)) /\ Step(k, "sum")
    BY <1>5 DEF DropHeld
  <2>2. UNCHANGED <<overlapped, pruned, projected>>
    BY <2>1 DEF Step, history
  <2>3. /\ Stacks' /\ Apart(k)
        /\ pc'[k] = "sum" /\ event'[k] = event[k] /\ opened'[k] = opened[k]
        /\ S(k)' = S(k) /\ R(k)' = R(k)
    BY <1>1, <2>1, Stepped DEF Step
  <2>4. Sound(k)'
    BY <1>1, <1>2, <1>3, <2>2, <2>3
    DEF Sound, Roles, PaidIn, Dropping, PC, Projecting, Appending
  <2>5. Joins(k)
    BY <1>2, <2>3 DEF Joins
  <2>6. HeldKnown'
    <3>1. IsFiniteSet(held')
      BY <1>1, <2>1, FS_Subset DEF HeldKnown
    <3> QED BY <1>1, <2>1, <3>1 DEF HeldKnown
  <2>7. Books(k)
    <3>1. ASSUME NEW h \in held \ held', h.reference \notin overlapped
          PROVE  Under(PaymentRef(h.payment)) # {}
      <4>1. h \in HeldFor(R(k)) /\ h.reference = R(k)
        BY <2>1, <3>1 DEF HeldFor
      <4> QED BY <1>1, <2>1, <3>1, <4>1 DEF Dropping
    <3> QED BY <1>2, <2>1, <2>2, <3>1, LedgerStill DEF Books
  <2>8. LedgerShape' /\ Reports(k)
    BY <1>1, <1>2, <2>2 DEF LedgerShape, Reports
  <2> QED BY <2>3, <2>4, <2>5, <2>6, <2>7, <2>8 DEF Careful
<1> QED BY <1>4, <1>5

LEMMA SettlingIsCareful ==
  ASSUME Keeping, NEW k \in Call, Sum(k) \/ RecogniseTds(k) \/ Mark(k)
  PROVE  Careful(k)
<1>1. Stacks /\ Roles(k) /\ LedgerShape /\ HeldKnown /\ PaidIn(k) /\ Dropping(k)
  BY DEF Keeping, Sound
<1>2. /\ UNCHANGED <<ledger, held>> /\ pc[k] \in {"sum", "resum", "tds", "mark"}
      /\ pc[k] # "idle" /\ pc[k] \in Projecting
  BY DEF Sum, RecogniseTds, Mark, tables, Projecting
<1>3. Paying(S(k)) => Under(PaymentRef(S(k).payment)) # {}
  BY <1>1, <1>2 DEF PaidIn
<1>4. CASE Sum(k)
  <2>1. PICK l \in {"tds", "mark"} : Goto(k, l)
    BY <1>4 DEF Sum
  <2>2. UNCHANGED <<event, opened, queue, cont, overlapped, pruned, projected>>
    BY <1>4 DEF Sum, history
  <2>3. /\ Stacks' /\ Apart(k)
        /\ pc'[k] = l /\ event'[k] = event[k] /\ opened'[k] = opened[k]
        /\ S(k)' = S(k) /\ R(k)' = R(k)
    BY <1>1, <2>1, <2>2, Stepped
  <2>4. \A x : Under(x)' = Under(x)
    BY <1>2, LedgerStill
  <2>5. Roles(k)' /\ Dropping(k)'
    BY <1>1, <1>2, <2>2, <2>3 DEF Roles, Dropping, PC, Projecting, Appending
  <2>6. PaidIn(k)'
    BY <1>3, <2>3, <2>4 DEF PaidIn, PaymentRef, Appending
  <2>7. Joins(k)
    BY <1>2, <2>3 DEF Joins
  <2> QED BY <1>2, <2>2, <2>3, <2>5, <2>6, <2>7, Idle DEF Careful, Sound
<1>5. CASE RecogniseTds(k)
  <2>1. ASSUME NEW e, Enter(k, <<e>>, "resum"), UNCHANGED <<event, opened, history>>
        PROVE  Careful(k)
    <3>1. <<e>> \in Seq({e})
      OBVIOUS
    <3> QED BY <1>2, <1>3, <2>1, <3>1, EnteredIsCareful
  <2>2. ASSUME Step(k, "mark") PROVE Careful(k)
    BY <1>2, <1>3, <2>2, SteppedIsCareful DEF PC, Projecting, Appending
  <2> QED BY <1>5, <2>1, <2>2 DEF RecogniseTds
<1>6. CASE Mark(k)
  <2>1. Accepted(k)
    BY <1>6 DEF Mark
  <2>2. Stacks' /\ Apart(k) /\ Joins(k) /\ Sound(k)'
    BY <1>1, <2>1, Idled DEF Accepted
  <2>3. UNCHANGED <<overlapped, pruned>> /\ projected' = projected \cup {event[k]}
    BY <2>1 DEF Accepted
  <2>4. event[k] \in Event
    BY <1>1, <1>2 DEF Roles
  <2>5. Reports(k)
    <3> SUFFICES ASSUME NEW e \in projected' \ projected, Paying(Signal[e])
                 PROVE  e \in Event /\ Booked(e)'
      BY <2>3, <2>4 DEF Reports
    <3>1. e = event[k]
      BY <2>3
    <3>2. Under(PaymentRef(Signal[e].payment)) # {}
      BY <1>3, <3>1 DEF S
    <3>3. \A x : Under(x)' = Under(x)
      BY <1>2, LedgerStill
    <3> QED BY <2>4, <3>1, <3>2, <3>3 DEF Booked, PaymentRef
  <2> QED BY <1>2, <2>2, <2>3, <2>5, Idle DEF Careful
<1> QED BY <1>4, <1>5, <1>6

-----------------------------------------------------------------------------
\* The steps of one request: Next is one of them.
Moves(k) ==
  \/ \E e \in Event : Deliver(k, e)
  \/ Receive(k) \/ Persist(k) \/ Find(k)
  \/ FindCustomer(k) \/ AddCustomer(k) \/ OpenCase(k) \/ Prune(k) \/ Hold(k)
  \/ Bill(k) \/ Rebill(k) \/ ApplySignal(k) \/ CountAttempt(k)
  \/ SelectRef(k) \/ InsertEntry(k) \/ ReadHeld(k) \/ DropHeld(k)
  \/ Sum(k) \/ RecogniseTds(k) \/ Mark(k) \/ Fail(k)

LEMMA NextIsAMove == Next <=> \E k \in Call : Moves(k)
BY DEF Next, Moves

LEMMA MovesAreCareful == ASSUME Keeping, NEW k \in Call, Moves(k) PROVE Careful(k)
<1>1. CASE Fail(k)
  <2>1. Thrown(k) /\ UNCHANGED <<ledger, held>>
    BY <1>1 DEF Fail, tables
  <2> QED BY <2>1, ThrownIsCareful
<1> QED BY <1>1, ReceiverIsCareful, OpeningIsCareful, HoldingIsCareful, ApplyingIsCareful,
           AppendingIsCareful, DroppingIsCareful, SettlingIsCareful DEF Moves

\* Both are kept together.
LEMMA KeepingIsInvariant == Spec => [](Keeping /\ PaymentKept)
<1>1. Init => Keeping /\ PaymentKept
  <2> SUFFICES ASSUME Init PROVE Keeping /\ PaymentKept
    OBVIOUS
  <2>1. LedgerShape
    <3>1. ledger = [r \in Reference |-> << >>]
      BY DEF Init
    <3>2. \A r \in Reference : ledger[r] = << >> /\ ledger[r] \in Seq({})
      BY <3>1
    <3> QED BY <3>1, <3>2 DEF LedgerShape
  <2>2. Stacks
    <3>1. \A k \in Call : queue[k] = << >> /\ queue[k] \in Seq({})
      BY DEF Init
    <3> QED BY <3>1 DEF Init, Stacks
  <2>3. HeldKnown /\ projected = {}
    BY FS_EmptySet DEF Init, HeldKnown
  <2>4. \A k \in Call : pc[k] = "idle" /\ ~opened[k]
    BY DEF Init
  <2>5. Alone
    BY <2>4 DEF Alone, Projecting, Appending
  <2>6. \A k \in Call : Sound(k)
    BY <2>4 DEF Sound, Roles, PaidIn, Dropping, PC, Projecting, Appending
  <2>7. PaymentKept
    BY <2>3 DEF PaymentKept, Payments
  <2> QED BY <2>1, <2>2, <2>3, <2>5, <2>6, <2>7 DEF Keeping
<1>2. Keeping /\ PaymentKept /\ [Next]_vars => (Keeping /\ PaymentKept)'
  <2> SUFFICES ASSUME Keeping, PaymentKept, [Next]_vars PROVE Keeping' /\ PaymentKept'
    OBVIOUS
  <2>1. CASE Next
    BY <2>1, NextIsAMove, MovesAreCareful, CarefulKeeps, IngestAssumption
  <2>2. CASE UNCHANGED vars
    <3>1. UNCHANGED <<ledger, held, pc, event, opened, queue, cont, projected, overlapped, pruned>>
      BY <2>2 DEF vars, tables, stack, history
    <3>2. PaymentKept'
      BY <3>1 DEF PaymentKept, Payments, Booked, Kept, GivenUp, Under
    <3>3. \A x : Under(x)' = Under(x)
      BY <3>1, LedgerStill
    <3>4. \A k \in Call : S(k)' = S(k) /\ R(k)' = R(k)
      BY <3>1 DEF S, R
    <3>5. ASSUME NEW k \in Call PROVE Sound(k)'
      <4>1. Sound(k)
        BY DEF Keeping
      <4>2. Roles(k)'
        BY <3>1, <3>4, <4>1 DEF Sound, Roles
      <4>3. PaidIn(k)'
        BY <3>1, <3>3, <3>4, <4>1 DEF Sound, PaidIn, Coming, PaymentRef
      <4>4. Dropping(k)'
        BY <3>1, <3>3, <3>4, <4>1 DEF Sound, Dropping, HeldFor, Coming, PaymentRef
      <4> QED BY <4>2, <4>3, <4>4 DEF Sound
    <3>6. LedgerShape' /\ Stacks' /\ HeldKnown' /\ Alone' /\ projected' \subseteq Event
      BY <3>1, <3>4 DEF Keeping, LedgerShape, Stacks, HeldKnown, Alone
    <3> QED BY <3>2, <3>5, <3>6 DEF Keeping
  <2> QED BY <2>1, <2>2
<1> QED BY <1>1, <1>2, PTL DEF Spec

\* A payment that was reported as projected is booked or held until it is given
\* up, whatever fails and in whatever order the events come and come again, as
\* long as no two requests were at work on its reference at a time.
THEOREM PaymentsAreKept == Spec => []PaymentKept
BY KeepingIsInvariant, PTL

-----------------------------------------------------------------------------
(* The order of events *)

\* A failure that counts has an amount.  One that comes first and has none
\* opens no case and is counted nowhere; after another it would be counted.
FailuresHaveAmounts ==
  \A e \in Event :
    Signal[e].kind = "PAYMENT_FAILED" /\ Signal[e].counts => Signal[e].amount > 0

Counts(s) == s.kind = "PAYMENT_FAILED" /\ s.counts
Counted(r) == {e \in projected : Signal[e].reference = r /\ Counts(Signal[e])}

Busy == Projecting \cup {"find"}
Clean(r) == r \in Reference \ (overlapped \cup failed)

\* How far a request is: before its case, before its count, past the held payments.
Before == {"customer", "addCustomer", "open", "prune", "hold"}
Uncounted(k) ==
  pc[k] \in {"bill", "rebill", "apply", "count"}
    \/ (pc[k] \in Appending /\ cont[k] \in {"apply", "rebill"})
Gone(k) ==
  pc[k] \in {"sum", "tds", "resum", "mark"} \/ (pc[k] \in Appending /\ cont[k] \in {"sum", "resum"})

\* The rows of the cases, as they are stored and as the requests have read them.
RowsTyped ==
  /\ cases \in [Reference -> Rows \cup {None}]
  /\ row \in [Call -> Rows \cup {None}]

\* What a request may be at, beyond Roles.
Ready(k) ==
  /\ pc[k] \in Busy => event[k] \in stored \ projected
  /\ pc[k] \in Projecting \ Before => cases[R(k)] # None /\ row[k] # None
  /\ pc[k] \in {"prune", "hold"} => S(k).kind \notin OPENING_SIGNALS
  /\ opened[k] => S(k).amount > 0
  /\ pc[k] = "rebill" \/ (pc[k] \in Appending /\ cont[k] = "rebill") => S(k).amount > 0
  /\ pc[k] = "count" => Counts(S(k))

\* The request that works on a reference, seen from where it found it.
Working(k) ==
  pc[k] \in Projecting /\ Clean(R(k)) =>
    /\ pc[k] \in Before => cases[R(k)] = None /\ Openings(R(k)) = {}
    /\ pc[k] \notin Before =>
         /\ opened[k] \/ Openings(R(k)) # {}
         /\ ~opened[k] \/ Gone(k) => HeldFor(R(k)) = {}
         /\ Uncounted(k) => row[k].attempts = cases[R(k)].attempts
         /\ FailuresHaveAmounts =>
              cases[R(k)].attempts =
                IF Counts(S(k)) /\ ~Uncounted(k) THEN Cardinality(Counted(R(k))) + 1
                ELSE Cardinality(Counted(R(k)))

\* A reference as the last request left it.
Done(r) ==
  /\ cases[r] # None <=> Openings(r) # {}
  /\ cases[r] # None => HeldFor(r) = {}
  /\ cases[r] # None /\ FailuresHaveAmounts => cases[r].attempts = Cardinality(Counted(r))

Settled(r) == Clean(r) /\ Quiet(r) => Done(r)

\* No two requests project the same event.
Apiece ==
  \A k, u \in Call : k # u /\ pc[k] \in Busy /\ pc[u] \in Busy => event[k] # event[u]

Ordered ==
  /\ RowsTyped /\ projected \subseteq stored /\ IsFiniteSet(projected) /\ Apiece
  /\ \A k \in Call : Ready(k) /\ Working(k)
  /\ \A r \in Reference : Settled(r)

-----------------------------------------------------------------------------
(* What a step of k does, as far as the order is concerned *)

\* The reference is as it was.
Same(r) ==
  /\ cases'[r] = cases[r] /\ HeldFor(r)' \subseteq HeldFor(r)
  /\ Openings(r)' = Openings(r) /\ Counted(r)' = Counted(r)

Orderly(k) ==
  /\ RowsTyped' /\ \A u \in Call \ {k} : row'[u] = row[u]
  /\ \A r \in Reference : cases[r] # None => cases'[r] # None
  /\ \A r \in Reference : (r = R(k) /\ pc[k] \in Projecting) \/ Same(r)
  /\ failed \subseteq failed' /\ stored \subseteq stored'
  /\ projected' = projected \/ (pc[k] \in Busy /\ projected' = projected \cup {event[k]})
  /\ pc'[k] \in Busy =>
       /\ event'[k] = event[k] /\ event[k] \in stored' \ projected'
       /\ pc[k] \in Busy \/ event[k] \notin stored
  /\ Ready(k)' /\ Working(k)'
  /\ pc[k] \in Projecting /\ pc'[k] \notin Projecting =>
       \A r \in Reference : r = R(k) /\ Clean(r)' => Done(r)'

\* The requests that do not move stay where they were.
LEMMA OrderBystander ==
  ASSUME Keeping, Ordered, NEW k \in Call, NEW u \in Call \ {k}, Careful(k), Orderly(k)
  PROVE  Ready(u)' /\ Working(u)'
<1>1. /\ pc'[u] = pc[u] /\ event'[u] = event[u] /\ opened'[u] = opened[u]
      /\ queue'[u] = queue[u] /\ cont'[u] = cont[u] /\ row'[u] = row[u]
  BY DEF Careful, Apart, Orderly
<1>2. S(u)' = S(u) /\ R(u)' = R(u) /\ Gone(u)' = Gone(u) /\ Uncounted(u)' = Uncounted(u)
  BY <1>1 DEF S, R, Gone, Uncounted
<1>3. Ready(u) /\ Working(u) /\ Roles(u)
  BY DEF Ordered, Keeping, Sound
<1>4. Ready(u)'
  <2>1. pc[u] \in Busy => event[u] \in stored' \ projected'
    BY <1>3 DEF Ready, Orderly, Ordered, Apiece
  <2>2. pc[u] \in Projecting \ Before => cases'[R(u)] # None
    BY <1>3 DEF Ready, Orderly, Roles
  <2> QED BY <1>1, <1>2, <1>3, <2>1, <2>2 DEF Ready
<1>5. Working(u)'
  <2>1. SUFFICES ASSUME NEW r \in Reference, r = R(u), pc[u] \in Projecting,
                        r \notin overlapped', r \notin failed'
                 PROVE  Working(u)'
    BY <1>1, <1>2 DEF Working, Clean
  <2>2. Clean(r) /\ r \notin overlapped
    BY <2>1 DEF Clean, Careful, Books, Orderly
  <2>3. ~(r = R(k) /\ pc[k] \in Projecting)
    BY <2>1, <2>2 DEF Keeping, Alone
  <2>4. Same(r)
    BY <2>1, <2>3 DEF Orderly
  <2>5. /\ cases'[r] = cases[r] /\ HeldFor(r)' \subseteq HeldFor(r)
        /\ Openings(r)' = Openings(r) /\ Counted(r)' = Counted(r)
    BY <2>4 DEF Same
  <2>6. /\ HeldFor(R(u))' = HeldFor(r)' /\ Openings(R(u))' = Openings(r)'
        /\ Counted(R(u))' = Counted(r)'
    BY <1>2, <2>1 DEF HeldFor, Openings, Counted
  <2> QED BY <1>1, <1>2, <1>3, <2>1, <2>2, <2>5, <2>6 DEF Working, Clean
<1> QED BY <1>4, <1>5

\* An orderly step keeps the invariant.
LEMMA OrderlyKeeps ==
  ASSUME Keeping, Ordered, NEW k \in Call, Careful(k), Orderly(k)
  PROVE  Ordered'
<1>1. RowsTyped' /\ projected' \subseteq stored' /\ IsFiniteSet(projected')
  <2>1. pc[k] \in Busy => event[k] \in stored
    BY DEF Ordered, Ready
  <2>2. IsFiniteSet(projected')
    BY FS_AddElement DEF Ordered, Orderly
  <2> QED BY <2>1, <2>2 DEF Ordered, Orderly
<1>2. \A u \in Call : Ready(u)' /\ Working(u)'
  BY OrderBystander DEF Orderly
<1>3. Apiece'
  <2>1. ASSUME NEW u \in Call \ {k}, pc'[k] \in Busy, pc'[u] \in Busy PROVE event'[k] # event'[u]
    <3>1. pc[u] \in Busy /\ event'[u] = event[u] /\ event'[k] = event[k]
      BY <2>1 DEF Careful, Apart, Orderly
    <3>2. event[u] \in stored
      BY <3>1 DEF Ordered, Ready
    <3> QED BY <2>1, <3>1, <3>2 DEF Orderly, Ordered, Apiece
  <2>2. ASSUME NEW a \in Call \ {k}, NEW b \in Call \ {k}, a # b, pc'[a] \in Busy, pc'[b] \in Busy
        PROVE  event'[a] # event'[b]
    BY <2>2 DEF Careful, Apart, Ordered, Apiece
  <2>3. SUFFICES ASSUME NEW a \in Call, NEW b \in Call, a # b, pc'[a] \in Busy, pc'[b] \in Busy
                 PROVE  event'[a] # event'[b]
    BY DEF Apiece
  <2>4. CASE a = k
    BY <2>1, <2>3, <2>4
  <2>5. CASE b = k
    BY <2>1, <2>3, <2>5
  <2> QED BY <2>2, <2>3, <2>4, <2>5
<1>4. ASSUME NEW r \in Reference PROVE Settled(r)'
  <2>1. SUFFICES ASSUME Clean(r)', Quiet(r)' PROVE Done(r)'
    BY DEF Settled
  <2>2. Clean(r)
    BY <2>1 DEF Clean, Careful, Books, Orderly
  <2>3. CASE Same(r) /\ Quiet(r)
    <3>1. Done(r)
      BY <2>2, <2>3 DEF Ordered, Settled
    <3> QED BY <2>3, <3>1 DEF Same, Done
  <2>4. CASE ~Same(r)
    <3>1. r = R(k) /\ pc[k] \in Projecting
      BY <2>4 DEF Orderly
    <3>2. pc'[k] \notin Projecting
      <4> SUFFICES ASSUME pc'[k] \in Projecting PROVE FALSE
        OBVIOUS
      <4>1. event'[k] = event[k]
        BY DEF Orderly, Busy
      <4> QED BY <2>1, <3>1, <4>1 DEF Quiet, R, S
    <3> QED BY <2>1, <3>1, <3>2 DEF Orderly
  <2>5. CASE ~Quiet(r)
    <3>1. PICK u \in Call : pc[u] \in Projecting /\ R(u) = r
      BY <2>5 DEF Quiet
    <3>2. CASE u # k
      <4>1. pc'[u] = pc[u] /\ event'[u] = event[u]
        BY <3>2 DEF Careful, Apart
      <4> QED BY <2>1, <3>1, <4>1 DEF Quiet, R, S
    <3>3. CASE u = k
      <4>1. pc'[k] \notin Projecting
        <5> SUFFICES ASSUME pc'[k] \in Projecting PROVE FALSE
          OBVIOUS
        <5>1. event'[k] = event[k]
          BY DEF Orderly, Busy
        <5> QED BY <2>1, <3>1, <3>3, <5>1 DEF Quiet, R, S
      <4> QED BY <2>1, <3>1, <3>3, <4>1 DEF Orderly
    <3> QED BY <3>2, <3>3
  <2> QED BY <2>3, <2>4, <2>5
<1> QED BY <1>1, <1>2, <1>3, <1>4 DEF Ordered

-----------------------------------------------------------------------------
(* Kinds of steps *)

LEMMA StillSame == UNCHANGED <<cases, held, projected>> => \A r \in Reference : Same(r)
BY DEF Same, HeldFor, Openings, Counted

\* A request that is answered with an error leaves a reference it touched as
\* failed, and any other as it was.
LEMMA ThrownIsOrderly ==
  ASSUME Keeping, Ordered, NEW k \in Call, Thrown(k), UNCHANGED <<stored, cases, held>>
  PROVE  Orderly(k)
<1>1. /\ pc'[k] = "idle" /\ ~opened'[k] /\ projected' = projected
      /\ row' = [row EXCEPT ![k] = None]
  BY DEF Thrown, Leave, Goto, Keeping, Stacks
<1>2. RowsTyped' /\ \A u \in Call \ {k} : row'[u] = row[u]
  BY <1>1 DEF Ordered, RowsTyped
<1>3. \A r \in Reference : Same(r)
  BY <1>1, StillSame
<1>4. Ready(k)' /\ Working(k)'
  BY <1>1 DEF Ready, Working, Busy, Projecting, Appending
<1>5. /\ failed \subseteq failed'
      /\ pc[k] \in Projecting => \A r \in Reference : r = R(k) => r \in failed'
  BY IngestAssumption DEF Thrown
<1> QED BY <1>1, <1>2, <1>3, <1>4, <1>5 DEF Orderly, Clean, Busy, Projecting, Appending

\* One that is answered before it projects anything leaves all as it was.
LEMMA UnstartedIsOrderly ==
  ASSUME Keeping, Ordered, NEW k \in Call, Leave(k), pc[k] \notin Projecting,
         UNCHANGED <<cases, held, projected, failed>>, stored \subseteq stored'
  PROVE  Orderly(k)
<1>1. /\ pc'[k] = "idle" /\ ~opened'[k] /\ row' = [row EXCEPT ![k] = None]
  BY DEF Leave, Goto, Keeping, Stacks
<1>2. RowsTyped' /\ \A u \in Call \ {k} : row'[u] = row[u]
  BY <1>1 DEF Ordered, RowsTyped
<1>3. \A r \in Reference : Same(r)
  BY StillSame
<1>4. Ready(k)' /\ Working(k)'
  BY <1>1 DEF Ready, Working, Busy, Projecting, Appending
<1> QED BY <1>1, <1>2, <1>3, <1>4 DEF Orderly, Busy, Projecting, Appending

\* One whose signal is in the books reports it.
LEMMA AnsweredIsOrderly ==
  ASSUME Keeping, Ordered, NEW k \in Call, Accepted(k), pc[k] \in Busy, stored' = stored,
         pc[k] \in Projecting \/ R(k) \notin Reference,
         cases' \in [Reference -> Rows \cup {None}],
         \A r \in Reference : cases[r] # None => cases'[r] # None,
         \A r \in Reference \ {R(k)} : cases'[r] = cases[r] /\ HeldFor(r)' \subseteq HeldFor(r),
         \A r \in Reference : r = R(k) /\ Clean(r)' => Done(r)'
  PROVE  Orderly(k)
<1>1. /\ pc'[k] = "idle" /\ ~opened'[k] /\ failed' = failed
      /\ projected' = projected \cup {event[k]}
      /\ row' = [row EXCEPT ![k] = None]
  BY DEF Accepted, Leave, Goto, Keeping, Stacks
<1>2. RowsTyped' /\ \A u \in Call \ {k} : row'[u] = row[u]
  BY <1>1 DEF Ordered, RowsTyped
<1>3. \A r \in Reference : r = R(k) \/ Same(r)
  BY <1>1 DEF Same, Openings, Counted, R, S
<1>4. Ready(k)' /\ Working(k)'
  BY <1>1 DEF Ready, Working, Busy, Projecting, Appending
<1> QED BY <1>1, <1>2, <1>3, <1>4 DEF Orderly, Busy, Projecting, Appending

\* A move within the projection that changes no table but the ledger.
LEMMA AdvanceIsOrderly ==
  ASSUME Keeping, Ordered, NEW k \in Call, pc[k] \in Projecting, pc'[k] \in Projecting,
         event'[k] = event[k], opened'[k] = opened[k],
         UNCHANGED <<stored, cases, held, row, projected, overlapped, failed>>,
         pc[k] \in Before <=> pc'[k] \in Before,
         Uncounted(k)' => Uncounted(k),
         Counts(S(k)) /\ Uncounted(k) => Uncounted(k)' \/ pc[k] \in Before,
         Gone(k)' /\ opened[k] => Gone(k) \/ HeldFor(R(k)) = {},
         pc'[k] \in {"prune", "hold"} => S(k).kind \notin OPENING_SIGNALS,
         pc'[k] = "rebill" \/ (pc'[k] \in Appending /\ cont'[k] = "rebill") => S(k).amount > 0,
         pc'[k] = "count" => Counts(S(k))
  PROVE  Orderly(k)
<1>1. S(k)' = S(k) /\ R(k)' = R(k)
  BY DEF S, R
<1>2. Ready(k) /\ Working(k)
  BY DEF Ordered
<1>3. Ready(k)'
  BY <1>1, <1>2 DEF Ready, Busy
<1>4. \A r \in Reference : Same(r)
  BY StillSame
<1>5. Working(k)'
  <2>1. /\ HeldFor(R(k))' = HeldFor(R(k)) /\ Openings(R(k))' = Openings(R(k))
        /\ Counted(R(k))' = Counted(R(k))
    BY <1>1 DEF HeldFor, Openings, Counted
  <2> QED BY <1>1, <1>2, <2>1 DEF Working, Clean
<1> QED BY <1>1, <1>2, <1>3, <1>4, <1>5 DEF Orderly, Ordered, Ready, RowsTyped, Busy

\* What an append leaves of the stack of k.
LEMMA Appends ==
  ASSUME Stacks, NEW k \in Call, NEW es, NEW l, Enter(k, es, l)
  PROVE  /\ cont'[k] = l
         /\ pc'[k] = l \/ pc'[k] \in Appending
         /\ es = << >> => pc'[k] = l
BY DEF Enter, Goto, Stacks, Appending

-----------------------------------------------------------------------------
(* The steps *)

LEMMA ReceiverIsOrderly ==
  ASSUME Keeping, Ordered, NEW k \in Call,
         (\E e \in Event : Deliver(k, e)) \/ Receive(k) \/ Persist(k)
  PROVE  Orderly(k)
<1>1. Stacks /\ Roles(k) /\ Ready(k) /\ Working(k) /\ RowsTyped
  BY DEF Keeping, Sound, Ordered
<1>2. ASSUME NEW l \in {"receive", "persist", "find"}, Goto(k, l), pc[k] \notin Busy,
             UNCHANGED <<cases, held, row, opened, projected, failed>>, stored \subseteq stored',
             ~opened[k] \/ event'[k] = event[k],
             l = "find" => event'[k] = event[k] /\ event[k] \in stored' \ stored
      PROVE  Orderly(k)
  <2>1. pc'[k] = l
    BY <1>1, <1>2 DEF Goto, Stacks
  <2>2. \A r \in Reference : Same(r)
    BY <1>2, StillSame
  <2>3. Working(k)'
    BY <2>1 DEF Working, Projecting, Appending
  <2>4. l = "find" => event[k] \in stored' \ projected'
    BY <1>2 DEF Ordered
  <2>5. Ready(k)'
    <3>1. opened'[k] => S(k)'.amount > 0
      BY <1>1, <1>2 DEF Ready, S
    <3> QED BY <1>2, <2>1, <2>4, <3>1 DEF Ready, Busy, Projecting, Appending
  <2> QED BY <1>1, <1>2, <2>1, <2>2, <2>3, <2>4, <2>5
          DEF Orderly, RowsTyped, Busy, Projecting, Appending
<1>3. ASSUME NEW e \in Event, Deliver(k, e) PROVE Orderly(k)
  <2>1. /\ Goto(k, "receive") /\ pc[k] = "idle" /\ stored' = stored
        /\ UNCHANGED <<cases, held, row, opened, projected, failed>>
    BY <1>3 DEF Deliver, tables, history
  <2>2. pc[k] \notin Busy /\ ~opened[k]
    BY <1>1, <2>1 DEF Roles, Busy, Projecting, Appending
  <2> QED BY <1>2, <2>1, <2>2
<1>4. CASE Receive(k)
  <2>1. pc[k] \notin Busy /\ UNCHANGED <<stored, cases, held, projected, failed>>
    BY <1>4 DEF Receive, tables, history, Step, Busy, Projecting, Appending
  <2>2. CASE Leave(k)
    BY <2>1, <2>2, UnstartedIsOrderly DEF Busy
  <2>3. CASE Step(k, "persist")
    BY <1>2, <2>1, <2>3 DEF Step
  <2> QED BY <1>4, <2>2, <2>3 DEF Receive
<1>5. CASE Persist(k)
  <2>1. pc[k] \notin Busy /\ UNCHANGED <<cases, held>>
    BY <1>5 DEF Persist, Busy, Projecting, Appending
  <2>2. CASE Thrown(k) /\ stored' = stored
    BY <2>1, <2>2, ThrownIsOrderly
  <2>3. CASE ~(Thrown(k) /\ stored' = stored)
    <3>1. /\ event[k] \notin stored /\ stored' = stored \cup {event[k]}
          /\ \/ Leave(k) /\ UNCHANGED history
             \/ Step(k, "find")
      BY <1>5, <2>3 DEF Persist
    <3>2. CASE Leave(k) /\ UNCHANGED history
      BY <2>1, <3>1, <3>2, UnstartedIsOrderly DEF Busy, history
    <3>3. CASE Step(k, "find")
      BY <1>2, <2>1, <3>1, <3>3 DEF Step, history
    <3> QED BY <3>1, <3>2, <3>3
  <2> QED BY <2>2, <2>3
<1> QED BY <1>3, <1>4, <1>5

\* A request takes a reference up as the last one left it.
LEMMA FindIsOrderly ==
  ASSUME Keeping, Ordered, NEW k \in Call, Find(k)
  PROVE  Orderly(k)
<1>1. Stacks /\ Roles(k) /\ Ready(k) /\ RowsTyped
  BY DEF Keeping, Sound, Ordered
<1>2. pc[k] = "find" /\ pc[k] \in Busy /\ pc[k] \notin Projecting
  BY DEF Find, Busy, Projecting, Appending
<1>3. UNCHANGED <<stored, cases, held>>
  BY DEF Find, tables
<1>4. event[k] \in Event /\ Signal[event[k]] \in Signals
  BY <1>1, <1>2, IngestAssumption DEF Roles
<1>5. CASE R(k) = None
  <2>1. Accepted(k) /\ R(k) \notin Reference
    BY <1>5, IngestAssumption DEF Find
  <2>2. \A r \in Reference : HeldFor(r)' = HeldFor(r)
    BY <1>3 DEF HeldFor
  <2> QED BY <1>1, <1>2, <1>3, <2>1, <2>2, AnsweredIsOrderly DEF RowsTyped
<1>6. CASE R(k) # None
  <2>1. PICK r \in Reference : r = R(k)
    BY <1>4, <1>6 DEF R, S, Signals
  <2>2. /\ row' = [row EXCEPT ![k] = cases[r]]
        /\ overlapped' = IF Others(k) = {} THEN overlapped ELSE overlapped \cup {r}
        /\ Goto(k, IF cases[r] # None THEN "bill"
                   ELSE IF S(k).kind \in OPENING_SIGNALS THEN "customer" ELSE "prune")
        /\ UNCHANGED <<event, opened, projected, failed>>
    BY <1>6, <2>1 DEF Find
  <2>3. /\ row'[k] = cases[r] /\ event'[k] = event[k] /\ opened'[k] = opened[k]
        /\ S(k)' = S(k) /\ R(k)' = r
        /\ pc'[k] = IF cases[r] # None THEN "bill"
                    ELSE IF S(k).kind \in OPENING_SIGNALS THEN "customer" ELSE "prune"
    BY <1>1, <2>1, <2>2 DEF Goto, Stacks, RowsTyped, S, R
  <2>4. RowsTyped' /\ \A u \in Call \ {k} : row'[u] = row[u]
    BY <1>1, <1>3, <2>2 DEF RowsTyped
  <2>5. \A q \in Reference : Same(q)
    BY <1>3, <2>2, StillSame
  <2>6. Ready(k)'
    BY <1>1, <1>2, <1>3, <2>2, <2>3 DEF Ready, Busy, Projecting, Before, Appending
  <2>7. Working(k)'
    <3>1. SUFFICES ASSUME r \notin overlapped', r \notin failed'
                   PROVE  Working(k)'
      BY <2>3 DEF Working, Clean
    <3>2. Others(k) = {} /\ Clean(r)
      BY <2>1, <2>2, <3>1 DEF Clean
    <3>3. Quiet(r)
      BY <1>2, <2>1, <3>2 DEF Others, Quiet
    <3>4. Done(r)
      BY <3>2, <3>3 DEF Ordered, Settled
    <3>5. /\ HeldFor(R(k))' = HeldFor(r) /\ Openings(R(k))' = Openings(r)
          /\ Counted(R(k))' = Counted(r) /\ cases'[R(k)'] = cases[r]
      BY <1>3, <2>2, <2>3 DEF HeldFor, Openings, Counted
    <3> QED BY <2>3, <3>4, <3>5 DEF Working, Done, Before, Uncounted, Gone, Appending
  <2> QED BY <1>2, <1>3, <1>1, <2>2, <2>3, <2>4, <2>5, <2>6, <2>7 DEF Orderly, Ready
<1> QED BY <1>5, <1>6

\* What a report adds to the openings and to the count of its reference.
LEMMA ReportAdds ==
  ASSUME Ordered, NEW k \in Call, pc[k] \in Busy, NEW r, r = R(k),
         projected' = projected \cup {event[k]}
  PROVE  /\ Openings(r)' = IF S(k).kind \in OPENING_SIGNALS /\ S(k).amount > 0
                           THEN Openings(r) \cup {event[k]} ELSE Openings(r)
         /\ Cardinality(Counted(r)) \in Nat
         /\ Cardinality(Counted(r))' = IF Counts(S(k)) THEN Cardinality(Counted(r)) + 1
                                       ELSE Cardinality(Counted(r))
<1>1. event[k] \notin projected /\ IsFiniteSet(projected)
  BY DEF Ordered, Ready
<1>2. IsFiniteSet(Counted(r))
  BY <1>1, FS_Subset DEF Counted
<1>3. Counted(r)' = IF Counts(S(k)) THEN Counted(r) \cup {event[k]} ELSE Counted(r)
  BY DEF Counted, R, S
<1>4. event[k] \notin Counted(r)
  BY <1>1 DEF Counted
<1>5. Cardinality(Counted(r) \cup {event[k]}) = Cardinality(Counted(r)) + 1
  BY <1>2, <1>4, FS_AddElement
<1>6. Openings(r)' = IF S(k).kind \in OPENING_SIGNALS /\ S(k).amount > 0
                     THEN Openings(r) \cup {event[k]} ELSE Openings(r)
  BY DEF Openings, R, S
<1> QED BY <1>2, <1>3, <1>5, <1>6, FS_CardinalityType

LEMMA OpeningIsOrderly ==
  ASSUME Keeping, Ordered, NEW k \in Call,
         FindCustomer(k) \/ AddCustomer(k) \/ OpenCase(k)
  PROVE  Orderly(k)
<1>1. Stacks /\ Roles(k) /\ Ready(k) /\ Working(k) /\ RowsTyped
  BY DEF Keeping, Sound, Ordered
<1>2. /\ UNCHANGED <<stored, held>> /\ pc[k] \in {"customer", "addCustomer", "open"}
      /\ pc[k] \in Before /\ pc[k] \in Projecting /\ pc[k] \in Busy
  BY DEF FindCustomer, AddCustomer, OpenCase, tables, Before, Projecting, Busy
<1>3. CASE FindCustomer(k) \/ AddCustomer(k)
  <2>1. cases' = cases
    BY <1>3 DEF FindCustomer, AddCustomer, tables
  <2>2. CASE Thrown(k)
    BY <1>2, <2>1, <2>2, ThrownIsOrderly
  <2>3. CASE ~Thrown(k)
    <3>1. PICK l \in {"addCustomer", "open"} : Step(k, l)
      BY <1>3, <2>3 DEF FindCustomer, AddCustomer
    <3>2. /\ pc'[k] = l /\ event'[k] = event[k] /\ opened'[k] = opened[k]
          /\ UNCHANGED <<row, projected, overlapped, failed>>
      BY <1>1, <3>1 DEF Step, Goto, Stacks, history
    <3> QED BY <1>2, <2>1, <3>2, AdvanceIsOrderly
            DEF Projecting, Appending, Before, Uncounted, Gone
  <2> QED BY <2>2, <2>3
<1>4. CASE OpenCase(k)
  <2>1. pc[k] = "open" /\ S(k).kind \in OPENING_SIGNALS /\ R(k) \in Reference /\ event[k] \in Event
    BY <1>1, <1>2, <1>4 DEF OpenCase, Roles
  <2>2. Signal[event[k]] \in Signals
    BY <2>1, IngestAssumption
  <2>3. CASE Thrown(k) /\ cases' = cases
    BY <1>2, <2>3, ThrownIsOrderly
  <2>4. CASE ~Opens(S(k)) /\ Accepted(k) /\ cases' = cases
    <3>1. projected' = projected \cup {event[k]} /\ UNCHANGED <<overlapped, failed>>
      BY <2>4 DEF Accepted
    <3>2. ASSUME NEW r \in Reference, r = R(k), Clean(r)' PROVE Done(r)'
      <4>1. Clean(r)
        BY <3>1, <3>2 DEF Clean
      <4>2. cases[r] = None /\ Openings(r) = {}
        BY <1>1, <1>2, <3>2, <4>1 DEF Working
      <4>3. ~(S(k).amount > 0)
        BY <2>4 DEF Opens
      <4>4. Openings(r)' = {}
        BY <1>2, <3>1, <3>2, <4>2, <4>3, ReportAdds
      <4> QED BY <2>4, <4>2, <4>4 DEF Done
    <3>3. \A r \in Reference : HeldFor(r)' = HeldFor(r)
      BY <1>2 DEF HeldFor
    <3> QED BY <1>1, <1>2, <2>4, <3>2, <3>3, AnsweredIsOrderly DEF RowsTyped
  <2>5. CASE /\ Opens(S(k)) /\ cases[R(k)] = None
             /\ cases' = [cases EXCEPT ![R(k)] =
                  [amount |-> S(k).amount, state |-> "OPEN", invoice |-> S(k).invoice,
                   attempts |-> 0]]
             /\ row' = [row EXCEPT ![k] = cases'[R(k)]]
             /\ opened' = [opened EXCEPT ![k] = TRUE]
             /\ Enter(k, <<Entry("CHARGE", S(k).amount, NoRef)>>, "apply")
             /\ UNCHANGED <<event, due, history>>
    <3> DEFINE new == [amount |-> S(k).amount, state |-> "OPEN", invoice |-> S(k).invoice,
                       attempts |-> 0]
    <3>1. new \in Rows /\ new # None /\ new.attempts = 0 /\ S(k).amount > 0
      BY <2>2, <2>5, NoneAssumption DEF Rows, Signals, S, Opens
    <3>2. cases' = [cases EXCEPT ![R(k)] = new] /\ row' = [row EXCEPT ![k] = cases'[R(k)]]
      BY <2>5
    <3> HIDE DEF new
    <3>3. PICK r \in Reference : r = R(k)
      BY <2>1
    <3>4. /\ cases'[r] = new /\ row'[k] = new /\ RowsTyped'
          /\ \A u \in Call \ {k} : row'[u] = row[u]
          /\ \A q \in Reference \ {r} : cases'[q] = cases[q]
      BY <1>1, <3>1, <3>2, <3>3 DEF RowsTyped
    <3>5. /\ cont'[k] = "apply" /\ pc'[k] \in Appending
          /\ opened'[k] /\ event'[k] = event[k] /\ S(k)' = S(k) /\ R(k)' = R(k)
          /\ UNCHANGED <<projected, overlapped, failed>>
      BY <1>1, <2>5 DEF Enter, Goto, Stacks, Appending, S, R, history
    <3>6. pc'[k] \in Projecting \ Before /\ pc'[k] \in Busy /\ Uncounted(k)' /\ ~Gone(k)'
      BY <3>5 DEF Projecting, Before, Busy, Appending, Uncounted, Gone
    <3>7. Ready(k)'
      BY <1>1, <1>2, <3>1, <3>3, <3>4, <3>5, <3>6 DEF Ready, Busy, Appending
    <3>8. Working(k)'
      <4>1. SUFFICES ASSUME Clean(r) PROVE Working(k)'
        BY <3>3, <3>5 DEF Working, Clean
      <4>2. Openings(r) = {}
        BY <1>1, <1>2, <3>3, <4>1 DEF Working
      <4>3. FailuresHaveAmounts => Counted(r) = {}
        BY <4>2 DEF Counted, Counts, Openings, FailuresHaveAmounts, OPENING_SIGNALS, Ordered,
               Keeping
      <4>4. FailuresHaveAmounts => Cardinality(Counted(r)) = 0
        BY <4>3, FS_EmptySet
      <4>5. Counted(R(k))' = Counted(r)
        BY <3>3, <3>5 DEF Counted
      <4> QED BY <3>1, <3>3, <3>4, <3>5, <3>6, <4>4, <4>5 DEF Working
    <3>9. \A q \in Reference : q = r \/ Same(q)
      <4> SUFFICES ASSUME NEW q \in Reference \ {r} PROVE Same(q)
        OBVIOUS
      <4>1. cases'[q] = cases[q]
        BY <3>4
      <4>2. HeldFor(q)' = HeldFor(q) /\ Openings(q)' = Openings(q) /\ Counted(q)' = Counted(q)
        BY <1>2, <3>5 DEF HeldFor, Openings, Counted
      <4> QED BY <4>1, <4>2 DEF Same
    <3> QED BY <1>1, <1>2, <2>5, <3>1, <3>3, <3>4, <3>5, <3>6, <3>7, <3>8, <3>9 DEF Orderly, Ready
  <2> QED BY <1>4, <2>3, <2>4, <2>5 DEF OpenCase
<1> QED BY <1>3, <1>4

\* A signal that opens nothing leaves a reference without a case as it is.
LEMMA HoldingIsOrderly ==
  ASSUME Keeping, Ordered, NEW k \in Call, Prune(k) \/ Hold(k)
  PROVE  Orderly(k)
<1>1. Stacks /\ Roles(k) /\ Ready(k) /\ Working(k) /\ RowsTyped
  BY DEF Keeping, Sound, Ordered
<1>2. /\ UNCHANGED <<stored, cases>> /\ pc[k] \in {"prune", "hold"}
      /\ pc[k] \in Before /\ pc[k] \in Projecting /\ pc[k] \in Busy
  BY DEF Prune, Hold, Before, Projecting, Busy
<1>3. S(k).kind \notin OPENING_SIGNALS /\ R(k) \in Reference
  BY <1>1, <1>2 DEF Ready, Roles
<1>4. ASSUME Accepted(k), \A h \in held' : h \in held \/ h.reference = R(k) PROVE Orderly(k)
  <2>1. projected' = projected \cup {event[k]} /\ UNCHANGED <<overlapped, failed>>
    BY <1>4 DEF Accepted
  <2>2. ASSUME NEW r \in Reference, r = R(k), Clean(r)' PROVE Done(r)'
    <3>1. Clean(r)
      BY <2>1, <2>2 DEF Clean
    <3>2. cases[r] = None /\ Openings(r) = {}
      BY <1>1, <1>2, <2>2, <3>1 DEF Working
    <3>3. Openings(r)' = {}
      BY <1>2, <1>3, <2>1, <2>2, <3>2, ReportAdds
    <3> QED BY <1>2, <3>2, <3>3 DEF Done
  <2>3. \A r \in Reference \ {R(k)} : HeldFor(r)' \subseteq HeldFor(r)
    BY <1>4 DEF HeldFor
  <2> QED BY <1>1, <1>2, <1>4, <2>2, <2>3, AnsweredIsOrderly DEF RowsTyped
<1>5. CASE Hold(k)
  <2>1. Accepted(k) /\ \A h \in held' : h \in held \/ h.reference = R(k)
    BY <1>5 DEF Hold
  <2> QED BY <1>4, <2>1
<1>6. CASE Prune(k)
  <2>1. CASE Accepted(k) /\ held' = held
    BY <1>4, <2>1
  <2>2. CASE ~(Accepted(k) /\ held' = held)
    <3>1. /\ held' \subseteq held /\ Goto(k, "hold")
          /\ UNCHANGED <<event, row, opened, projected, overlapped, failed>>
      BY <1>6, <2>2 DEF Prune
    <3>2. /\ pc'[k] = "hold" /\ event'[k] = event[k] /\ opened'[k] = opened[k]
          /\ S(k)' = S(k) /\ R(k)' = R(k)
      BY <1>1, <3>1 DEF Goto, Stacks, S, R
    <3>3. pc'[k] \in Before /\ pc'[k] \in Projecting /\ pc'[k] \in Busy
      BY <3>2 DEF Before, Projecting, Busy
    <3>4. \A r \in Reference : Same(r)
      BY <1>2, <3>1 DEF Same, HeldFor, Openings, Counted
    <3>5. Ready(k)'
      BY <1>1, <1>2, <1>3, <3>1, <3>2, <3>3 DEF Ready, Appending
    <3>6. Working(k)'
      <4>1. Openings(R(k))' = Openings(R(k))
        BY <3>1, <3>2 DEF Openings
      <4> QED BY <1>1, <1>2, <3>1, <3>2, <3>3, <4>1 DEF Working, Clean
    <3> QED BY <1>1, <1>2, <3>1, <3>2, <3>3, <3>4, <3>5, <3>6 DEF Orderly, Ready, RowsTyped
  <2> QED BY <2>1, <2>2
<1> QED BY <1>5, <1>6

\* The moves that only read the cases.
LEMMA AdvancingIsOrderly ==
  ASSUME Keeping, Ordered, NEW k \in Call,
         \/ Bill(k) \/ ApplySignal(k) \/ SelectRef(k) \/ InsertEntry(k) \/ ReadHeld(k)
         \/ Sum(k) \/ RecogniseTds(k)
  PROVE  Orderly(k)
<1>1. Stacks /\ Roles(k) /\ Ready(k) /\ Working(k) /\ RowsTyped
  BY DEF Keeping, Sound, Ordered
<1>2. /\ UNCHANGED <<stored, cases, held>> /\ pc[k] \in Projecting \ Before
      /\ Thrown(k) \/ UNCHANGED <<event, row, opened, projected, overlapped, failed>>
  BY DEF Bill, ApplySignal, SelectRef, InsertEntry, ReadHeld, Sum, RecogniseTds, tables, history,
         Step, Projecting, Before, Appending
<1>3. CASE Thrown(k)
  BY <1>2, <1>3, ThrownIsOrderly
<1>4. CASE ~Thrown(k)
  <2>1. UNCHANGED <<event, row, opened, projected, overlapped, failed>>
    BY <1>2, <1>4
  <2>2. ASSUME pc'[k] \in Projecting \ Before,
               Uncounted(k)' => Uncounted(k),
               Counts(S(k)) /\ Uncounted(k) => Uncounted(k)',
               Gone(k)' /\ opened[k] => Gone(k) \/ HeldFor(R(k)) = {},
               pc'[k] = "rebill" \/ (pc'[k] \in Appending /\ cont'[k] = "rebill") =>
                 S(k).amount > 0,
               pc'[k] = "count" => Counts(S(k))
        PROVE  Orderly(k)
    BY <1>2, <2>1, <2>2, AdvanceIsOrderly DEF Before
  <2>3. CASE Bill(k)
    <3>1. row[k] \in Rows
      BY <1>1, <1>2, <2>3 DEF Ready, RowsTyped
    <3>2. event[k] \in Event /\ Signal[event[k]] \in Signals
      BY <1>1, <2>3, IngestAssumption DEF Roles, Bill
    <3>3. S(k).amount > row[k].amount => S(k).amount > 0
      BY <3>1, <3>2 DEF Rows, Signals, S
    <3>4. \/ /\ S(k).amount > 0 /\ cont'[k] = "rebill"
             /\ pc'[k] = "rebill" \/ pc'[k] \in Appending
          \/ pc'[k] = "apply"
      BY <1>1, <2>3, <3>3, Appends DEF Bill, Step, Goto, Stacks
    <3> QED BY <2>2, <2>3, <3>4 DEF Bill, Uncounted, Gone, Projecting, Before, Appending
  <2>4. CASE ApplySignal(k)
    <3>1. CASE Counts(S(k))
      <4>1. pc'[k] = "count"
        BY <1>1, <2>4, <3>1 DEF ApplySignal, Counts, Step, Goto, Stacks
      <4> QED BY <2>2, <2>4, <3>1, <4>1
              DEF ApplySignal, Uncounted, Gone, Projecting, Before, Appending
    <3>2. CASE ~Counts(S(k))
      <4>1. Enter(k, EntriesOf(S(k)), AfterSignal(k))
        BY <2>4, <3>2 DEF ApplySignal, Counts
      <4>2. /\ cont'[k] = AfterSignal(k)
            /\ pc'[k] = AfterSignal(k) \/ pc'[k] \in Appending
            /\ EntriesOf(S(k)) = << >> => pc'[k] = AfterSignal(k)
        BY <1>1, <4>1, Appends
      <4>3. opened[k] => EntriesOf(S(k)) = << >> /\ AfterSignal(k) = "held"
        BY <1>1, EntriesAre DEF Roles, AfterSignal
      <4>4. ~opened[k] => AfterSignal(k) = "sum"
        BY DEF AfterSignal
      <4> QED BY <2>2, <2>4, <3>2, <4>2, <4>3, <4>4
              DEF ApplySignal, Uncounted, Gone, Projecting, Before, Appending
    <3> QED BY <3>1, <3>2
  <2>5. CASE SelectRef(k) \/ InsertEntry(k)
    <3>1. \/ pc'[k] = "insert" /\ cont'[k] = cont[k]
          \/ Enter(k, Tail(queue[k]), cont[k])
      BY <1>1, <1>4, <2>5 DEF SelectRef, InsertEntry, Step, Goto, Stacks
    <3>2. pc[k] \in Appending /\ cont[k] \in {"apply", "rebill", "sum", "drop", "resum"}
      BY <1>1, <2>5 DEF SelectRef, InsertEntry, Roles, Appending
    <3>3. cont'[k] = cont[k] /\ (pc'[k] = cont[k] \/ pc'[k] \in Appending)
      BY <1>1, <3>1, Appends DEF Appending
    <3> QED BY <1>1, <2>2, <3>2, <3>3
            DEF Ready, Uncounted, Gone, Projecting, Before, Appending
  <2>6. CASE ReadHeld(k)
    <3>1. PICK found \in SetToSeqs(HeldFor(R(k))) :
            Enter(k, EntriesOfHeld(found), IF found = << >> THEN "sum" ELSE "drop")
      BY <2>6 DEF ReadHeld
    <3>2. IsFiniteSet(HeldFor(R(k)))
      BY FS_Subset DEF HeldFor, HeldKnown, Keeping
    <3>3. found = << >> => HeldFor(R(k)) = {}
      BY <3>2, AllAreRead
    <3>4. PICK l \in {"sum", "drop"} :
            /\ l = "sum" => HeldFor(R(k)) = {}
            /\ cont'[k] = l
            /\ pc'[k] = l \/ pc'[k] \in Appending
      BY <1>1, <3>1, <3>3, Appends
    <3> QED BY <2>2, <2>6, <3>4
            DEF ReadHeld, Uncounted, Gone, Projecting, Before, Appending
  <2>7. CASE Sum(k)
    <3>1. pc'[k] \in {"tds", "mark"} /\ pc[k] \in {"sum", "resum"}
      BY <1>1, <2>7 DEF Sum, Goto, Stacks
    <3> QED BY <2>2, <3>1 DEF Uncounted, Gone, Projecting, Before, Appending
  <2>8. CASE RecogniseTds(k)
    <3>1. \/ /\ cont'[k] = "resum"
             /\ pc'[k] = "resum" \/ pc'[k] \in Appending
          \/ pc'[k] = "mark"
      BY <1>1, <2>8, Appends DEF RecogniseTds, Step, Goto, Stacks
    <3> QED BY <2>2, <2>8, <3>1 DEF RecogniseTds, Uncounted, Gone, Projecting, Before, Appending
  <2> QED BY <2>3, <2>4, <2>5, <2>6, <2>7, <2>8
<1> QED BY <1>3, <1>4

\* The moves that write the row of the case, or delete what was held for it.
LEMMA WritingIsOrderly ==
  ASSUME Keeping, Ordered, NEW k \in Call, Rebill(k) \/ CountAttempt(k) \/ DropHeld(k)
  PROVE  Orderly(k)
<1>1. Stacks /\ Roles(k) /\ Ready(k) /\ Working(k) /\ RowsTyped
  BY DEF Keeping, Sound, Ordered
<1>2. /\ stored' = stored /\ pc[k] \in {"rebill", "count", "drop"}
      /\ pc[k] \in Projecting \ Before /\ pc[k] \in Busy
      /\ UNCHANGED <<event, row, opened, cont, projected, overlapped, failed>>
  BY DEF Rebill, CountAttempt, DropHeld, Step, history, Projecting, Before, Busy
<1>3. PICK r \in Reference : r = R(k)
  BY <1>1, <1>2 DEF Roles
<1>4. cases[r] \in Rows /\ row[k] \in Rows /\ cases[r] # None
  BY <1>1, <1>2, <1>3 DEF Ready, RowsTyped
<1>5. event[k] \in Event /\ Signal[event[k]] \in Signals
  BY <1>1, <1>2, IngestAssumption DEF Roles
<1>6. S(k)' = S(k) /\ R(k)' = R(k)
  BY <1>2 DEF S, R
<1>7. PICK l \in {"apply", "held", "sum"} :
        /\ pc'[k] = l
        /\ pc[k] = "rebill" => l = "apply"
        /\ pc[k] = "drop" => l = "sum"
        /\ pc[k] = "count" => l = AfterSignal(k)
  BY <1>1 DEF Rebill, CountAttempt, DropHeld, Step, Goto, Stacks, AfterSignal
<1>8. /\ pc'[k] \in Projecting \ Before /\ pc'[k] \in Busy
      /\ Uncounted(k)' <=> l = "apply"
      /\ Gone(k)' <=> l = "sum"
      /\ ~Gone(k)
      /\ Uncounted(k) <=> pc[k] # "drop"
  BY <1>2, <1>7 DEF Projecting, Before, Busy, Uncounted, Gone, Appending
<1>9. \E new \in Rows :
        /\ cases' = [cases EXCEPT ![r] = new]
        /\ new.attempts = IF pc[k] = "count" THEN row[k].attempts + 1 ELSE cases[r].attempts
  <2>1. CASE pc[k] = "rebill"
    <3>1. cases' = [cases EXCEPT ![r].amount = S(k).amount]
      BY <1>3, <2>1 DEF Rebill, CountAttempt, DropHeld
    <3>2. S(k).amount \in Nat \ {0}
      BY <1>1, <1>5, <2>1 DEF Ready, Signals, S
    <3>3. [cases[r] EXCEPT !.amount = S(k).amount] \in Rows
      BY <1>4, <3>2 DEF Rows
    <3>4. [cases[r] EXCEPT !.amount = S(k).amount].attempts = cases[r].attempts
      BY <1>4 DEF Rows
    <3>5. cases' = [cases EXCEPT ![r] = [cases[r] EXCEPT !.amount = S(k).amount]]
      BY <1>1, <3>1 DEF RowsTyped
    <3> QED BY <2>1, <3>3, <3>4, <3>5
  <2>2. CASE pc[k] = "count"
    <3>1. cases' = [cases EXCEPT ![r].attempts = row[k].attempts + 1]
      BY <1>3, <2>2 DEF Rebill, CountAttempt, DropHeld
    <3>2. row[k].attempts + 1 \in Nat
      BY <1>4 DEF Rows
    <3> DEFINE n == row[k].attempts + 1
    <3>3. cases' = [cases EXCEPT ![r] = [cases[r] EXCEPT !.attempts = n]]
      BY <1>1, <3>1 DEF RowsTyped
    <3> HIDE DEF n
    <3>4. [cases[r] EXCEPT !.attempts = n] \in Rows /\ [cases[r] EXCEPT !.attempts = n].attempts = n
      BY <1>4, <3>2 DEF Rows, n
    <3> QED BY <2>2, <3>3, <3>4 DEF n
  <2>3. CASE pc[k] = "drop"
    <3>1. cases' = [cases EXCEPT ![r] = cases[r]]
      BY <1>1, <2>3 DEF Rebill, CountAttempt, DropHeld, RowsTyped
    <3> QED BY <1>4, <2>3, <3>1
  <2> QED BY <1>2, <2>1, <2>2, <2>3
<1>10. PICK new \in Rows :
        /\ cases' = [cases EXCEPT ![r] = new]
        /\ new.attempts = IF pc[k] = "count" THEN row[k].attempts + 1 ELSE cases[r].attempts
  BY <1>9
<1>11. new # None
  BY NoneAssumption
<1>12. /\ cases'[r] = new /\ RowsTyped'
       /\ \A q \in Reference : cases[q] # None => cases'[q] # None
       /\ \A q \in Reference \ {r} : cases'[q] = cases[q]
  BY <1>1, <1>2, <1>10, <1>11 DEF RowsTyped
<1>13. held' = IF pc[k] = "drop" THEN held \ HeldFor(r) ELSE held
  BY <1>3 DEF Rebill, CountAttempt, DropHeld
<1>14. \A q \in Reference : q = r \/ Same(q)
  <2> SUFFICES ASSUME NEW q \in Reference \ {r} PROVE Same(q)
    OBVIOUS
  <2>1. HeldFor(q)' = HeldFor(q) /\ Openings(q)' = Openings(q) /\ Counted(q)' = Counted(q)
    BY <1>2, <1>13 DEF HeldFor, Openings, Counted
  <2> QED BY <1>12, <2>1 DEF Same
<1>15. Ready(k)'
  BY <1>1, <1>2, <1>3, <1>4, <1>6, <1>7, <1>8, <1>11, <1>12 DEF Ready, Appending
<1>16. Working(k)'
  <2>1. SUFFICES ASSUME Clean(r) PROVE Working(k)'
    BY <1>2, <1>3, <1>6 DEF Working, Clean
  <2>2. /\ Openings(R(k))' = Openings(r) /\ Counted(R(k))' = Counted(r)
        /\ HeldFor(R(k))' = IF pc[k] = "drop" THEN {} ELSE HeldFor(r)
    BY <1>2, <1>3, <1>6, <1>13 DEF Openings, Counted, HeldFor
  <2>3. pc[k] = "count" => Counts(S(k))
    BY <1>1 DEF Ready
  <2>4. pc[k] = "count" /\ l = "sum" => ~opened[k]
    BY <1>7 DEF AfterSignal
  <2>5. /\ opened[k] \/ Openings(r) # {}
        /\ ~opened[k] => HeldFor(r) = {}
        /\ pc[k] # "drop" => row[k].attempts = cases[r].attempts
        /\ FailuresHaveAmounts =>
             cases[r].attempts = IF Counts(S(k)) /\ pc[k] = "drop"
                                 THEN Cardinality(Counted(r)) + 1
                                 ELSE Cardinality(Counted(r))
    BY <1>1, <1>2, <1>3, <1>8, <2>1 DEF Working
  <2>6. Cardinality(Counted(R(k)))' = Cardinality(Counted(r))
    BY <2>2
  <2>7. /\ Uncounted(k)' => row'[k].attempts = cases'[R(k)'].attempts
        /\ FailuresHaveAmounts =>
             cases'[R(k)'].attempts =
               IF Counts(S(k))' /\ ~Uncounted(k)' THEN Cardinality(Counted(R(k)))' + 1
               ELSE Cardinality(Counted(R(k)))'
    <3>1. Counts(S(k))' <=> Counts(S(k))
      BY <1>6 DEF Counts
    <3>2. cases'[R(k)'].attempts =
            IF pc[k] = "count" THEN row[k].attempts + 1 ELSE cases[r].attempts
      BY <1>3, <1>6, <1>10, <1>12
    <3>3. CASE pc[k] = "count"
      <4>1. l # "apply"
        BY <1>7, <3>3 DEF AfterSignal
      <4> QED BY <1>8, <2>3, <2>5, <2>6, <3>1, <3>2, <3>3, <4>1
    <3>4. CASE pc[k] = "rebill"
      BY <1>2, <1>7, <1>8, <2>5, <2>6, <3>1, <3>2, <3>4
    <3>5. CASE pc[k] = "drop"
      BY <1>7, <1>8, <2>5, <2>6, <3>1, <3>2, <3>5
    <3> QED BY <1>2, <3>3, <3>4, <3>5
  <2>8. ~opened'[k] \/ Gone(k)' => HeldFor(R(k))' = {}
    BY <1>2, <1>7, <1>8, <2>2, <2>4, <2>5
  <2>9. opened'[k] \/ Openings(R(k))' # {}
    BY <1>2, <2>2, <2>5
  <2> QED BY <1>8, <2>7, <2>8, <2>9 DEF Working
<1> QED BY <1>1, <1>2, <1>3, <1>8, <1>12, <1>14, <1>15, <1>16 DEF Orderly, Ready

\* The last move: the case is as many failures on as were reported.
LEMMA MarkIsOrderly ==
  ASSUME Keeping, Ordered, NEW k \in Call, Mark(k)
  PROVE  Orderly(k)
<1>1. Stacks /\ Roles(k) /\ Ready(k) /\ Working(k) /\ RowsTyped
  BY DEF Keeping, Sound, Ordered
<1>2. /\ pc[k] = "mark" /\ UNCHANGED <<stored, held>> /\ Accepted(k)
      /\ pc[k] \in Projecting \ Before /\ pc[k] \in Busy
  BY DEF Mark, Projecting, Before, Busy
<1>3. PICK r \in Reference : r = R(k)
  BY <1>1, <1>2 DEF Roles
<1>4. cases[r] \in Rows /\ cases[r] # None
  BY <1>1, <1>2, <1>3 DEF Ready, RowsTyped
<1>5. projected' = projected \cup {event[k]} /\ UNCHANGED <<overlapped, failed>>
  BY <1>2 DEF Accepted
<1>6. \E new \in Rows :
        cases' = [cases EXCEPT ![r] = new] /\ new.attempts = cases[r].attempts
  <2>1. ASSUME NEW s \in {"RECOVERED", "IN_PROGRESS"}, cases' = [cases EXCEPT ![r].state = s]
        PROVE  \E new \in Rows :
                 cases' = [cases EXCEPT ![r] = new] /\ new.attempts = cases[r].attempts
    <3>1. [cases[r] EXCEPT !.state = s] \in Rows
      BY <1>4 DEF Rows
    <3>2. [cases[r] EXCEPT !.state = s].attempts = cases[r].attempts
      BY <1>4 DEF Rows
    <3>3. cases' = [cases EXCEPT ![r] = [cases[r] EXCEPT !.state = s]]
      BY <1>1, <2>1 DEF RowsTyped
    <3> QED BY <3>1, <3>2, <3>3
  <2>2. CASE cases' = cases
    <3>1. cases' = [cases EXCEPT ![r] = cases[r]]
      BY <1>1, <2>2 DEF RowsTyped
    <3> QED BY <1>4, <3>1
  <2> QED BY <1>3, <2>1, <2>2 DEF Mark
<1>7. PICK new \in Rows :
        cases' = [cases EXCEPT ![r] = new] /\ new.attempts = cases[r].attempts
  BY <1>6
<1>8. /\ cases'[r] = new /\ new # None
      /\ cases' \in [Reference -> Rows \cup {None}]
      /\ \A q \in Reference \ {r} : cases'[q] = cases[q]
  BY <1>1, <1>7, NoneAssumption DEF RowsTyped
<1>9. \A q \in Reference : HeldFor(q)' = HeldFor(q)
  BY <1>2 DEF HeldFor
<1>10. ASSUME Clean(r)' PROVE Done(r)'
  <2>1. Clean(r)
    BY <1>5, <1>10 DEF Clean
  <2>2. Gone(k) /\ ~Uncounted(k)
    BY <1>2 DEF Gone, Uncounted, Appending
  <2>3. /\ opened[k] \/ Openings(r) # {}
        /\ HeldFor(r) = {}
        /\ FailuresHaveAmounts =>
             cases[r].attempts = IF Counts(S(k)) THEN Cardinality(Counted(r)) + 1
                                 ELSE Cardinality(Counted(r))
    BY <1>1, <1>2, <1>3, <2>1, <2>2 DEF Working
  <2>4. opened[k] => S(k).kind \in OPENING_SIGNALS /\ S(k).amount > 0
    BY <1>1 DEF Roles, Ready
  <2>5. /\ Openings(r)' # {}
        /\ FailuresHaveAmounts => Cardinality(Counted(r))' = cases[r].attempts
    BY <1>2, <1>3, <1>5, <2>3, <2>4, ReportAdds
  <2> QED BY <1>7, <1>8, <1>9, <2>3, <2>5 DEF Done
<1>11. \A q \in Reference : q = R(k) /\ Clean(q)' => Done(q)'
  BY <1>3, <1>10
<1>12. \A q \in Reference \ {R(k)} : cases'[q] = cases[q] /\ HeldFor(q)' \subseteq HeldFor(q)
  BY <1>3, <1>8, <1>9
<1>13. \A q \in Reference : cases[q] # None => cases'[q] # None
  BY <1>3, <1>8
<1> QED BY <1>2, <1>8, <1>11, <1>12, <1>13, AnsweredIsOrderly

LEMMA MovesAreOrderly ==
  ASSUME Keeping, Ordered, NEW k \in Call, Moves(k)
  PROVE  Orderly(k)
<1>1. CASE Fail(k)
  <2>1. Thrown(k) /\ UNCHANGED <<stored, cases, held>>
    BY <1>1 DEF Fail, tables
  <2> QED BY <2>1, ThrownIsOrderly
<1> QED BY <1>1, ReceiverIsOrderly, FindIsOrderly, OpeningIsOrderly, HoldingIsOrderly,
           AdvancingIsOrderly, WritingIsOrderly, MarkIsOrderly DEF Moves

LEMMA OrderedAtFirst == Init => Ordered
<1> SUFFICES ASSUME Init PROVE Ordered
  OBVIOUS
<1>1. /\ \A k \in Call : pc[k] = "idle" /\ ~opened[k]
      /\ \A r \in Reference : cases[r] = None
      /\ projected = {} /\ IsFiniteSet(projected)
  BY FS_EmptySet DEF Init
<1>2. RowsTyped
  BY DEF Init, RowsTyped
<1>3. Apiece /\ \A k \in Call : Ready(k) /\ Working(k)
  BY <1>1 DEF Apiece, Ready, Working, Busy, Projecting, Appending
<1>4. \A r \in Reference : Settled(r)
  BY <1>1 DEF Settled, Done, Openings
<1> QED BY <1>1, <1>2, <1>3, <1>4 DEF Ordered

LEMMA OrderedWhenIdle == Ordered /\ UNCHANGED vars => Ordered'
<1> SUFFICES ASSUME Ordered, UNCHANGED vars PROVE Ordered'
  OBVIOUS
<1>1. UNCHANGED <<stored, cases, held, row, pc, event, opened, queue, cont, projected,
                  overlapped, failed>>
  BY DEF vars, tables, stack, history
<1>2. ASSUME NEW k \in Call PROVE Ready(k)' /\ Working(k)'
  <2>1. Ready(k) /\ Working(k) /\ S(k)' = S(k) /\ R(k)' = R(k)
    BY <1>1 DEF Ordered, S, R
  <2>2. /\ HeldFor(R(k))' = HeldFor(R(k)) /\ Openings(R(k))' = Openings(R(k))
        /\ Counted(R(k))' = Counted(R(k))
        /\ Gone(k)' = Gone(k) /\ Uncounted(k)' = Uncounted(k)
    BY <1>1, <2>1 DEF HeldFor, Openings, Counted, Gone, Uncounted
  <2>3. Ready(k)'
    BY <1>1, <2>1 DEF Ready
  <2>4. Working(k)'
    BY <1>1, <2>1, <2>2 DEF Working, Clean
  <2> QED BY <2>3, <2>4
<1>3. ASSUME NEW r \in Reference PROVE Settled(r)'
  <2>1. /\ HeldFor(r)' = HeldFor(r) /\ Openings(r)' = Openings(r)
        /\ Counted(r)' = Counted(r) /\ (Quiet(r)' <=> Quiet(r))
    BY <1>1 DEF HeldFor, Openings, Counted, Quiet, R, S
  <2>2. Settled(r)
    BY DEF Ordered
  <2> QED BY <1>1, <2>1, <2>2 DEF Settled, Done, Clean
<1> QED BY <1>1, <1>2, <1>3 DEF Ordered, RowsTyped, Apiece

\* Who settles a reference has kept its payments.
LEMMA OrderFollows ==
  FailuresHaveAmounts /\ Keeping /\ PaymentKept /\ Ordered => OrderIrrelevant
<1> SUFFICES ASSUME FailuresHaveAmounts, Keeping, PaymentKept, Ordered,
                    NEW r \in Reference \ (overlapped \cup failed), Quiet(r)
             PROVE  SameInAnyOrder(r)
  BY DEF OrderIrrelevant, SameInAnyOrder
<1>1. Done(r)
  BY DEF Ordered, Settled, Clean
<1>2. ASSUME cases[r] # None, NEW e \in Payments(r) PROVE Booked(e) \/ GivenUp(e)
  <2>1. Booked(e) \/ Kept(e) \/ GivenUp(e)
    BY DEF PaymentKept
  <2>2. ~Kept(e)
    <3> SUFFICES ASSUME NEW h \in held, h.payment = Signal[e].payment PROVE FALSE
      BY DEF Kept
    <3>1. PICK f \in Event :
            h.payment = Signal[f].payment /\ h.payment # None /\ h.reference = Signal[f].reference
      BY DEF Keeping, HeldKnown
    <3>2. e \in Event /\ Signal[e].reference = r
      BY DEF Payments, Keeping
    <3>3. h.reference = r
      BY <3>1, <3>2, IngestAssumption
    <3> QED BY <1>1, <1>2, <3>3 DEF Done, HeldFor
  <2> QED BY <2>1, <2>2
<1>3. Counted(r) = {e \in projected : Signal[e].reference = r
                       /\ Signal[e].kind = "PAYMENT_FAILED" /\ Signal[e].counts}
  BY DEF Counted, Counts
<1> QED BY <1>1, <1>2, <1>3 DEF SameInAnyOrder, Done

LEMMA OrderedIsInvariant == Spec => []Ordered
<1>1. Init => Ordered
  BY OrderedAtFirst
<1>2. Keeping /\ Ordered /\ [Next]_vars => Ordered'
  <2> SUFFICES ASSUME Keeping, Ordered, [Next]_vars PROVE Ordered'
    OBVIOUS
  <2>1. CASE Next
    <3>1. PICK k \in Call : Moves(k)
      BY <2>1, NextIsAMove
    <3>2. Careful(k) /\ Orderly(k)
      BY <3>1, MovesAreCareful, MovesAreOrderly
    <3> QED BY <3>2, OrderlyKeeps
  <2>2. CASE UNCHANGED vars
    BY <2>2, OrderedWhenIdle
  <2> QED BY <2>1, <2>2
<1> QED BY <1>1, <1>2, KeepingIsInvariant, PTL DEF Spec

\* Where no requests overlapped and none failed half way, it makes no
\* difference in which order the events come: there is a case once an opening
\* signal was projected, the payments that were projected are in its ledger,
\* and every failure that counts has been counted.
THEOREM OrderMakesNoDifference ==
  ASSUME FailuresHaveAmounts
  PROVE  Spec => []OrderIrrelevant
<1>1. Keeping /\ PaymentKept /\ Ordered => OrderIrrelevant
  BY OrderFollows
<1> QED BY <1>1, KeepingIsInvariant, OrderedIsInvariant, PTL

-----------------------------------------------------------------------------
(* The state follows the ledger.  What a request has summed stays the sum  *)
(* while it works alone, and the state it read stays the state.  Nothing   *)
(* is asked of the sum but that it is one.                                 *)

Weighing(k) ==
  pc[k] \in Projecting \ Before /\ Clean(R(k)) =>
    /\ row[k].state = cases[R(k)].state
    /\ pc[k] \in {"tds", "mark"} => due[k] = Outstanding(R(k))

Level(r) == cases[r] # None => (cases[r].state = "RECOVERED" <=> Outstanding(r) <= 0)

Balanced ==
  /\ due = [k \in Call |-> due[k]]
  /\ \A k \in Call : Weighing(k)
  /\ \A r \in Reference : Clean(r) /\ Quiet(r) => Level(r)

\* What a step of k does, as far as the balance is concerned.
Weighs(k) ==
  /\ due' = [u \in Call |-> due'[u]] /\ \A u \in Call \ {k} : due'[u] = due[u]
  /\ \A r \in Reference :
       (r = R(k) /\ pc[k] \in Projecting) \/ (cases'[r] = cases[r] /\ ledger'[r] = ledger[r])
  /\ Weighing(k)'
  /\ pc[k] \in Projecting /\ pc'[k] \notin Projecting =>
       \A r \in Reference : r = R(k) /\ Clean(r)' => Level(r)'

LEMMA WeighsKeeps ==
  ASSUME Keeping, Ordered, Balanced, NEW k \in Call, Careful(k), Orderly(k), Weighs(k)
  PROVE  Balanced'
<1>1. ASSUME NEW u \in Call \ {k} PROVE Weighing(u)'
  <2>1. /\ pc'[u] = pc[u] /\ event'[u] = event[u] /\ row'[u] = row[u] /\ due'[u] = due[u]
    BY DEF Careful, Apart, Orderly, Weighs
  <2>2. R(u)' = R(u)
    BY <2>1 DEF R, S
  <2>3. SUFFICES ASSUME NEW r \in Reference, r = R(u), pc[u] \in Projecting \ Before,
                        r \notin overlapped', r \notin failed'
                 PROVE  Weighing(u)'
    BY <2>1, <2>2 DEF Weighing, Clean
  <2>4. Clean(r) /\ r \notin overlapped
    BY <2>3 DEF Clean, Careful, Books, Orderly
  <2>5. ~(r = R(k) /\ pc[k] \in Projecting)
    BY <2>3, <2>4 DEF Keeping, Alone
  <2>6. cases'[r] = cases[r] /\ ledger'[r] = ledger[r]
    BY <2>3, <2>5 DEF Weighs
  <2>7. Outstanding(R(u))' = Outstanding(r)
    BY <2>2, <2>3, <2>6 DEF Outstanding
  <2>8. Weighing(u)
    BY DEF Balanced
  <2> QED BY <2>1, <2>2, <2>3, <2>4, <2>6, <2>7, <2>8 DEF Weighing
<1>2. ASSUME NEW r \in Reference, Clean(r)', Quiet(r)' PROVE Level(r)'
  <2>1. Clean(r)
    BY <1>2 DEF Clean, Careful, Books, Orderly
  <2>2. CASE r = R(k) /\ pc[k] \in Projecting
    <3>1. pc'[k] \notin Projecting
      <4> SUFFICES ASSUME pc'[k] \in Projecting PROVE FALSE
        OBVIOUS
      <4>1. event'[k] = event[k]
        BY DEF Orderly, Busy
      <4> QED BY <1>2, <2>2, <4>1 DEF Quiet, R, S
    <3> QED BY <1>2, <2>2, <3>1 DEF Weighs
  <2>3. CASE ~(r = R(k) /\ pc[k] \in Projecting)
    <3>1. cases'[r] = cases[r] /\ ledger'[r] = ledger[r]
      BY <2>3 DEF Weighs
    <3>2. Quiet(r)
      <4> SUFFICES ASSUME NEW u \in Call, pc[u] \in Projecting, R(u) = r PROVE FALSE
        BY DEF Quiet
      <4>1. u # k
        BY <2>3
      <4>2. pc'[u] = pc[u] /\ event'[u] = event[u]
        BY <4>1 DEF Careful, Apart
      <4> QED BY <1>2, <4>2 DEF Quiet, R, S
    <3>3. Level(r)
      BY <2>1, <3>2 DEF Balanced
    <3>4. Outstanding(r)' = Outstanding(r)
      BY <3>1 DEF Outstanding
    <3> QED BY <3>1, <3>3, <3>4 DEF Level
  <2> QED BY <2>2, <2>3
<1> QED BY <1>1, <1>2 DEF Balanced, Weighs

\* Most steps change neither the case nor the ledger, nor what was summed.
LEMMA AsideWeighs ==
  ASSUME Keeping, Ordered, Balanced, NEW k \in Call, UNCHANGED <<cases, ledger>>,
         due' = [u \in Call |-> due'[u]], \A u \in Call \ {k} : due'[u] = due[u],
         pc'[k] \in Projecting \ Before =>
           /\ pc[k] \in Projecting \ Before /\ row'[k] = row[k] /\ event'[k] = event[k]
           /\ overlapped' = overlapped /\ failed' = failed
           /\ pc'[k] \in {"tds", "mark"} =>
                \/ due'[k] = Outstanding(R(k))
                \/ pc[k] \in {"tds", "mark"} /\ due'[k] = due[k],
         pc[k] \in Projecting /\ pc'[k] \notin Projecting =>
           \A r \in Reference : r = R(k) /\ Clean(r)' => cases[r] = None
  PROVE  Weighs(k)
<1>1. Weighing(k)'
  <2> SUFFICES ASSUME pc'[k] \in Projecting \ Before PROVE Weighing(k)'
    BY DEF Weighing
  <2>1. R(k)' = R(k)
    BY DEF R, S
  <2>2. Outstanding(R(k))' = Outstanding(R(k))
    BY <2>1 DEF Outstanding
  <2>3. Weighing(k)
    BY DEF Balanced
  <2> QED BY <2>1, <2>2, <2>3 DEF Weighing, Clean
<1> QED BY <1>1 DEF Weighs, Level

LEMMA ThrownWeighs ==
  ASSUME Keeping, Ordered, Balanced, NEW k \in Call, Thrown(k), UNCHANGED <<cases, ledger>>
  PROVE  Weighs(k)
<1>1. pc'[k] = "idle" /\ due' = [due EXCEPT ![k] = 0]
  BY DEF Thrown, Leave, Goto, Keeping, Stacks
<1>2. pc[k] \in Projecting => \A r \in Reference : r = R(k) => r \in failed'
  BY IngestAssumption DEF Thrown
<1>3. due' = [u \in Call |-> due'[u]] /\ \A u \in Call \ {k} : due'[u] = due[u]
  BY <1>1 DEF Balanced
<1> QED BY <1>1, <1>2, <1>3, AsideWeighs DEF Clean, Projecting, Appending

LEMMA StartingWeighs ==
  ASSUME Keeping, Ordered, Balanced, NEW k \in Call,
         \/ \E e \in Event : Deliver(k, e)
         \/ Receive(k) \/ Persist(k) \/ FindCustomer(k) \/ AddCustomer(k)
         \/ Prune(k) \/ Hold(k)
         \/ OpenCase(k) /\ cases' = cases /\ (Accepted(k) \/ Thrown(k))
  PROVE  Weighs(k)
<1>1. Stacks /\ Working(k) /\ due = [u \in Call |-> due[u]]
  BY DEF Keeping, Ordered, Balanced
<1>2. UNCHANGED <<cases, ledger>>
  BY DEF Deliver, Receive, Persist, FindCustomer, AddCustomer, Prune, Hold, OpenCase, tables
<1>3. CASE Thrown(k)
  BY <1>2, <1>3, ThrownWeighs
<1>4. CASE ~Thrown(k)
  <2>1. due' = due \/ due' = [due EXCEPT ![k] = 0]
    <3>1. CASE \E e \in Event : Deliver(k, e)
      BY <3>1 DEF Deliver
    <3>2. CASE Receive(k) \/ Persist(k)
      BY <1>4, <3>2 DEF Receive, Persist, Leave, Step
    <3>3. CASE FindCustomer(k) \/ AddCustomer(k)
      BY <1>4, <3>3 DEF FindCustomer, AddCustomer, Step
    <3>4. CASE Prune(k) \/ Hold(k)
      BY <3>4 DEF Prune, Hold, Accepted, Leave
    <3>5. CASE OpenCase(k)
      BY <1>4, <3>5 DEF OpenCase, Accepted, Leave
    <3> QED BY <3>1, <3>2, <3>3, <3>4, <3>5
  <2>2. due' = [u \in Call |-> due'[u]] /\ \A u \in Call \ {k} : due'[u] = due[u]
    BY <1>1, <2>1
  <2>3. CASE pc'[k] \notin Projecting /\ pc[k] \notin Projecting
    BY <1>2, <2>2, <2>3, AsideWeighs
  <2>4. CASE pc[k] \in Before /\ pc'[k] \in Before
    BY <1>2, <2>2, <2>4, AsideWeighs DEF Before, Projecting
  <2>5. CASE pc[k] \in Before /\ Accepted(k)
    <3>1. pc'[k] = "idle" /\ UNCHANGED <<overlapped, failed>>
      BY <1>1, <2>5 DEF Accepted, Leave, Goto, Stacks
    <3>2. \A r \in Reference : r = R(k) /\ Clean(r)' => cases[r] = None
      BY <1>1, <2>5, <3>1 DEF Working, Clean, Before, Projecting
    <3> QED BY <1>2, <2>2, <3>1, <3>2, AsideWeighs DEF Projecting, Appending
  <2>6. CASE \E e \in Event : Deliver(k, e)
    BY <1>1, <2>3, <2>6 DEF Deliver, Goto, Stacks, Projecting, Appending
  <2>7. CASE Receive(k) \/ Persist(k)
    BY <1>1, <1>4, <2>3, <2>7
    DEF Receive, Persist, Leave, Step, Goto, Stacks, Projecting, Appending
  <2>8. CASE FindCustomer(k) \/ AddCustomer(k)
    BY <1>1, <1>4, <2>4, <2>8 DEF FindCustomer, AddCustomer, Step, Goto, Stacks, Before
  <2>9. CASE Prune(k)
    BY <1>1, <2>4, <2>5, <2>9 DEF Prune, Goto, Stacks, Before
  <2>10. CASE Hold(k)
    BY <2>5, <2>10 DEF Hold, Before
  <2>11. CASE OpenCase(k) /\ Accepted(k)
    BY <2>5, <2>11 DEF OpenCase, Before
  <2> QED BY <1>4, <2>6, <2>7, <2>8, <2>9, <2>10, <2>11
<1> QED BY <1>3, <1>4

LEMMA ReadingWeighs ==
  ASSUME Keeping, Ordered, Balanced, NEW k \in Call,
         \/ Bill(k) \/ ApplySignal(k) \/ SelectRef(k) \/ ReadHeld(k) \/ DropHeld(k)
         \/ Sum(k) \/ RecogniseTds(k)
  PROVE  Weighs(k)
<1>1. Stacks /\ Roles(k) /\ due = [u \in Call |-> due[u]]
  BY DEF Keeping, Sound, Balanced
<1>2. UNCHANGED <<cases, ledger>> /\ pc[k] \in Projecting \ Before
  BY DEF Bill, ApplySignal, SelectRef, ReadHeld, DropHeld, Sum, RecogniseTds, tables,
         Projecting, Before, Appending
<1>3. CASE Thrown(k)
  BY <1>2, <1>3, ThrownWeighs
<1>4. CASE ~Thrown(k)
  <2>1. UNCHANGED <<row, event, overlapped, failed>>
    BY <1>4 DEF Bill, ApplySignal, SelectRef, ReadHeld, DropHeld, Sum, RecogniseTds, history, Step
  <2>2. ASSUME pc'[k] \in Projecting,
               due' = due \/ due' = [due EXCEPT ![k] = Outstanding(R(k))],
               pc'[k] \in {"tds", "mark"} => due'[k] = Outstanding(R(k)) \/ pc[k] = "tds"
        PROVE  Weighs(k)
    <3>1. due' = [u \in Call |-> due'[u]] /\ \A u \in Call \ {k} : due'[u] = due[u]
      BY <1>1, <2>2
    <3>2. due'[k] = due[k] \/ due'[k] = Outstanding(R(k))
      BY <1>1, <2>2
    <3> QED BY <1>2, <2>1, <2>2, <3>1, <3>2, AsideWeighs
  <2>3. CASE Sum(k)
    <3>1. /\ pc'[k] \in {"tds", "mark"} /\ due' = [due EXCEPT ![k] = Outstanding(R(k))]
          /\ due'[k] = Outstanding(R(k))
      BY <1>1, <2>3 DEF Sum, Goto, Stacks
    <3> QED BY <2>2, <3>1 DEF Projecting
  <2>4. CASE \/ Bill(k) \/ ApplySignal(k) \/ SelectRef(k)
             \/ ReadHeld(k) \/ DropHeld(k) \/ RecogniseTds(k)
    <3>1. due' = due
      BY <1>4, <2>4 DEF Bill, ApplySignal, SelectRef, ReadHeld, DropHeld, RecogniseTds, Step
    <3>2. \/ pc'[k] \in {"apply", "count", "insert", "sum"}
          \/ pc'[k] = "mark" /\ pc[k] = "tds"
          \/ \E es : \E l \in {"apply", "rebill", "held", "sum", "drop", "resum"} : Enter(k, es, l)
      <4>1. CASE Bill(k)
        BY <1>1, <4>1 DEF Bill, Step, Goto, Stacks
      <4>2. CASE ApplySignal(k)
        BY <1>1, <4>2 DEF ApplySignal, AfterSignal, Step, Goto, Stacks
      <4>3. CASE SelectRef(k)
        <5>1. cont[k] \in {"apply", "rebill", "sum", "drop", "resum"}
          BY <1>1, <4>3 DEF SelectRef, Roles, Appending
        <5> QED BY <1>1, <1>4, <4>3, <5>1 DEF SelectRef, Step, Goto, Stacks
      <4>4. CASE ReadHeld(k)
        BY <4>4 DEF ReadHeld
      <4>5. CASE DropHeld(k)
        BY <1>1, <4>5 DEF DropHeld, Step, Goto, Stacks
      <4>6. CASE RecogniseTds(k)
        BY <1>1, <4>6 DEF RecogniseTds, Step, Goto, Stacks
      <4> QED BY <2>4, <4>1, <4>2, <4>3, <4>4, <4>5, <4>6
    <3>3. \/ pc'[k] \in {"apply", "count", "insert", "sum", "rebill", "held", "drop", "resum"}
          \/ pc'[k] \in Appending
          \/ pc'[k] = "mark" /\ pc[k] = "tds"
      BY <1>1, <3>2, Appends
    <3> QED BY <2>2, <3>1, <3>3 DEF Projecting, Appending
  <2> QED BY <2>3, <2>4
<1> QED BY <1>3, <1>4

LEMMA FindWeighs ==
  ASSUME Keeping, Ordered, Balanced, NEW k \in Call, Find(k)
  PROVE  Weighs(k)
<1>1. Stacks /\ RowsTyped /\ due = [u \in Call |-> due[u]]
  BY DEF Keeping, Ordered, Balanced
<1>2. UNCHANGED <<cases, ledger>> /\ pc[k] \notin Projecting
  BY DEF Find, tables, Projecting, Appending
<1>3. due' = [u \in Call |-> due'[u]] /\ \A u \in Call \ {k} : due'[u] = due[u]
  BY <1>1 DEF Find, Accepted, Leave
<1>4. Weighing(k)'
  <2>1. CASE R(k) = None
    BY <1>1, <2>1 DEF Find, Accepted, Leave, Goto, Stacks, Weighing, Projecting, Appending
  <2>2. CASE R(k) # None
    <3>1. /\ row' = [row EXCEPT ![k] = cases[R(k)]] /\ event' = event
          /\ pc'[k] \in {"bill", "customer", "prune"}
      BY <1>1, <2>2 DEF Find, Goto, Stacks
    <3>2. row'[k] = cases[R(k)] /\ R(k)' = R(k)
      BY <1>1, <3>1 DEF RowsTyped, R, S
    <3> QED BY <1>2, <3>1, <3>2 DEF Weighing
  <2> QED BY <2>1, <2>2
<1> QED BY <1>2, <1>3, <1>4 DEF Weighs

\* The moves that write the case, or the ledger, of the reference at work.
LEMMA WritingWeighs ==
  ASSUME Keeping, Ordered, Balanced, NEW k \in Call,
         Rebill(k) \/ CountAttempt(k) \/ InsertEntry(k) \/ OpenCase(k)
  PROVE  Weighs(k)
<1>1. Stacks /\ Roles(k) /\ Ready(k) /\ Weighing(k) /\ RowsTyped /\ due = [u \in Call |-> due[u]]
  BY DEF Keeping, Sound, Ordered, Balanced
<1>2. ASSUME pc[k] \in Projecting, due' = due, event' = event,
             \A q \in Reference \ {R(k)} : cases'[q] = cases[q] /\ ledger'[q] = ledger[q],
             overlapped' = overlapped /\ failed' = failed,
             pc'[k] \in Projecting, pc'[k] \notin {"tds", "mark"},
             Clean(R(k)) => row'[k].state = cases'[R(k)].state
      PROVE  Weighs(k)
  <2>1. R(k)' = R(k)
    BY <1>2 DEF R, S
  <2>2. Weighing(k)'
    BY <1>2, <2>1 DEF Weighing, Clean
  <2> QED BY <1>1, <1>2, <2>2 DEF Weighs
<1>3. CASE Rebill(k) \/ CountAttempt(k)
  <2>1. /\ pc[k] \in Projecting \ Before /\ ledger' = ledger
        /\ UNCHANGED <<due, event, row, overlapped, failed>>
        /\ pc'[k] \in {"apply", "held", "sum"}
    BY <1>1, <1>3
    DEF Rebill, CountAttempt, AfterSignal, Step, Goto, Stacks, history, Projecting, Before
  <2>2. cases[R(k)] \in Rows /\ R(k) \in Reference
    BY <1>1, <2>1 DEF Ready, RowsTyped, Roles
  <2>3. /\ \A q \in Reference \ {R(k)} : cases'[q] = cases[q]
        /\ cases'[R(k)].state = cases[R(k)].state
    <3>1. CASE Rebill(k)
      <4>1. cases' = [cases EXCEPT ![R(k)].amount = S(k).amount]
        BY <3>1 DEF Rebill
      <4>2. cases'[R(k)] = [cases[R(k)] EXCEPT !.amount = S(k).amount]
        BY <1>1, <2>2, <4>1 DEF RowsTyped
      <4> QED BY <1>1, <2>2, <4>1, <4>2 DEF RowsTyped, Rows
    <3>2. CASE CountAttempt(k)
      <4> DEFINE n == row[k].attempts + 1
      <4>1. cases' = [cases EXCEPT ![R(k)].attempts = n]
        BY <3>2 DEF CountAttempt
      <4> HIDE DEF n
      <4>2. cases'[R(k)] = [cases[R(k)] EXCEPT !.attempts = n]
        BY <1>1, <2>2, <4>1 DEF RowsTyped
      <4> QED BY <1>1, <2>2, <4>1, <4>2 DEF RowsTyped, Rows
    <3> QED BY <1>3, <3>1, <3>2
  <2>4. Clean(R(k)) => row[k].state = cases[R(k)].state
    BY <1>1, <2>1 DEF Weighing
  <2> QED BY <1>2, <2>1, <2>3, <2>4 DEF Projecting
<1>4. CASE InsertEntry(k)
  <2>1. pc[k] \in Projecting \ Before /\ cases' = cases
    BY <1>4 DEF InsertEntry, Projecting, Before, Appending
  <2>2. CASE Thrown(k) /\ ledger' = ledger
    BY <2>1, <2>2, ThrownWeighs
  <2>3. CASE ~(Thrown(k) /\ ledger' = ledger)
    <3>1. /\ Insert(R(k), queue[k][1]) /\ Enter(k, Tail(queue[k]), cont[k])
          /\ UNCHANGED <<event, row, due, overlapped, failed>>
      BY <1>4, <2>3 DEF InsertEntry, history
    <3>2. \A q \in Reference \ {R(k)} : ledger'[q] = ledger[q]
      BY <3>1 DEF Insert, Keeping, LedgerShape
    <3>3. cont[k] \in {"apply", "rebill", "sum", "drop", "resum"}
      BY <1>1, <1>4 DEF InsertEntry, Roles, Appending
    <3>4. pc'[k] \in {"apply", "rebill", "sum", "drop", "resum"} \/ pc'[k] \in Appending
      BY <1>1, <3>1, <3>3, Appends
    <3>5. Clean(R(k)) => row[k].state = cases[R(k)].state
      BY <1>1, <2>1 DEF Weighing
    <3> QED BY <1>2, <2>1, <3>1, <3>2, <3>4, <3>5 DEF Projecting, Appending
  <2> QED BY <2>2, <2>3
<1>5. CASE OpenCase(k)
  <2>1. pc[k] = "open" /\ pc[k] \in Projecting /\ ledger' = ledger
    BY <1>5 DEF OpenCase, Projecting
  <2>2. CASE cases' = cases /\ (Accepted(k) \/ Thrown(k))
    BY <1>5, <2>2, StartingWeighs
  <2>3. CASE ~(cases' = cases /\ (Accepted(k) \/ Thrown(k)))
    <3>1. PICK new, e :
            /\ cases' = [cases EXCEPT ![R(k)] = new]
            /\ row' = [row EXCEPT ![k] = cases'[R(k)]]
            /\ Enter(k, <<e>>, "apply")
            /\ UNCHANGED <<event, due, overlapped, failed>>
      BY <1>5, <2>3 DEF OpenCase, history
    <3>2. row'[k] = cases'[R(k)] /\ \A q \in Reference \ {R(k)} : cases'[q] = cases[q]
      BY <1>1, <3>1 DEF RowsTyped
    <3>3. pc'[k] = "apply" \/ pc'[k] \in Appending
      BY <1>1, <3>1, Appends
    <3> QED BY <1>2, <2>1, <3>1, <3>2, <3>3 DEF Projecting, Appending
  <2> QED BY <2>2, <2>3
<1> QED BY <1>3, <1>4, <1>5

\* The mark sets the state by the sum.
LEMMA MarkWeighs ==
  ASSUME Keeping, Ordered, Balanced, NEW k \in Call, Mark(k)
  PROVE  Weighs(k)
<1>1. Stacks /\ Roles(k) /\ Ready(k) /\ Weighing(k) /\ RowsTyped /\ due = [u \in Call |-> due[u]]
  BY DEF Keeping, Sound, Ordered, Balanced
<1>2. /\ pc[k] = "mark" /\ ledger' = ledger /\ Accepted(k)
      /\ pc[k] \in Projecting \ Before
  BY DEF Mark, Projecting, Before
<1>3. /\ pc'[k] = "idle" /\ due' = [due EXCEPT ![k] = 0] /\ UNCHANGED <<overlapped, failed>>
  BY <1>1, <1>2 DEF Accepted, Leave, Goto, Stacks
<1>4. due' = [u \in Call |-> due'[u]] /\ \A u \in Call \ {k} : due'[u] = due[u]
  BY <1>1, <1>3
<1>5. PICK r \in Reference : r = R(k)
  BY <1>1, <1>2 DEF Roles
<1>6. cases[r] \in Rows
  BY <1>1, <1>2, <1>5 DEF Ready, RowsTyped
<1>7. /\ \A q \in Reference \ {r} : cases'[q] = cases[q]
      /\ \/ due[k] <= 0 /\ cases'[r].state = "RECOVERED"
         \/ due[k] <= 0 /\ row[k].state = "RECOVERED" /\ cases'[r] = cases[r]
         \/ ~(due[k] <= 0) /\ cases'[r].state = "IN_PROGRESS"
         \/ ~(due[k] <= 0) /\ row[k].state # "RECOVERED" /\ cases'[r] = cases[r]
  <2>1. ASSUME NEW s, cases' = [cases EXCEPT ![r].state = s]
        PROVE  (\A q \in Reference \ {r} : cases'[q] = cases[q]) /\ cases'[r].state = s
    <3>1. cases'[r] = [cases[r] EXCEPT !.state = s]
      BY <1>1, <2>1 DEF RowsTyped
    <3> QED BY <1>1, <1>6, <2>1, <3>1 DEF RowsTyped, Rows
  <2>2. \/ due[k] <= 0 /\ cases' = [cases EXCEPT ![r].state = "RECOVERED"]
        \/ due[k] <= 0 /\ row[k].state = "RECOVERED" /\ cases' = cases
        \/ ~(due[k] <= 0) /\ cases' = [cases EXCEPT ![r].state = "IN_PROGRESS"]
        \/ ~(due[k] <= 0) /\ row[k].state # "RECOVERED" /\ cases' = cases
    BY <1>5 DEF Mark
  <2> QED BY <2>1, <2>2
<1>8. ASSUME Clean(r)' PROVE Level(r)'
  <2>1. Clean(r)
    BY <1>3, <1>8 DEF Clean
  <2>2. row[k].state = cases[r].state /\ due[k] = Outstanding(r)
    BY <1>1, <1>2, <1>5, <2>1 DEF Weighing
  <2>3. Outstanding(r)' = Outstanding(r)
    BY <1>2 DEF Outstanding
  <2> QED BY <1>7, <2>2, <2>3 DEF Level
<1>9. Weighing(k)'
  BY <1>3 DEF Weighing, Projecting, Appending
<1> QED BY <1>2, <1>4, <1>5, <1>7, <1>8, <1>9 DEF Weighs

LEMMA MovesWeigh ==
  ASSUME Keeping, Ordered, Balanced, NEW k \in Call, Moves(k)
  PROVE  Weighs(k)
<1>1. CASE Fail(k)
  <2>1. Thrown(k) /\ UNCHANGED <<cases, ledger>>
    BY <1>1 DEF Fail, tables
  <2> QED BY <2>1, ThrownWeighs
<1> QED BY <1>1, StartingWeighs, FindWeighs, ReadingWeighs, WritingWeighs, MarkWeighs DEF Moves

\* Where no requests overlapped and none failed half way, a case is RECOVERED
\* just when its ledger owes nothing, whatever was paid, refunded, billed again
\* or recognised as tax.
THEOREM StatesFollowTheLedger == Spec => []StateMatchesLedger
<1>1. Init => Balanced
  <2> SUFFICES ASSUME Init PROVE Balanced
    OBVIOUS
  <2>1. /\ \A k \in Call : pc[k] = "idle"
        /\ \A r \in Reference : cases[r] = None
        /\ due = [k \in Call |-> due[k]]
    BY DEF Init
  <2> QED BY <2>1 DEF Balanced, Weighing, Level, Projecting, Appending
<1>2. Keeping /\ Ordered /\ Balanced /\ [Next]_vars => Balanced'
  <2> SUFFICES ASSUME Keeping, Ordered, Balanced, [Next]_vars PROVE Balanced'
    OBVIOUS
  <2>1. CASE Next
    <3>1. PICK k \in Call : Moves(k)
      BY <2>1, NextIsAMove
    <3>2. Careful(k) /\ Orderly(k) /\ Weighs(k)
      BY <3>1, MovesAreCareful, MovesAreOrderly, MovesWeigh
    <3> QED BY <3>2, WeighsKeeps
  <2>2. CASE UNCHANGED vars
    <3>1. UNCHANGED <<ledger, cases, row, due, pc, event, overlapped, failed>>
      BY <2>2 DEF vars, tables, stack, history
    <3>2. ASSUME NEW k \in Call PROVE Weighing(k)'
      <4>1. Weighing(k) /\ R(k)' = R(k)
        BY <3>1 DEF Balanced, R, S
      <4>2. Outstanding(R(k))' = Outstanding(R(k))
        BY <3>1, <4>1 DEF Outstanding
      <4> QED BY <3>1, <4>1, <4>2 DEF Weighing, Clean
    <3>3. ASSUME NEW r \in Reference, Clean(r)', Quiet(r)' PROVE Level(r)'
      <4>1. Level(r)
        BY <3>1, <3>3 DEF Balanced, Clean, Quiet, R, S
      <4>2. Outstanding(r)' = Outstanding(r)
        BY <3>1 DEF Outstanding
      <4> QED BY <3>1, <4>1, <4>2 DEF Level
    <3> QED BY <3>1, <3>2, <3>3 DEF Balanced
  <2> QED BY <2>1, <2>2
<1>3. Balanced => StateMatchesLedger
  BY DEF Balanced, StateMatchesLedger, Level, Clean
<1> QED BY <1>1, <1>2, <1>3, KeepingIsInvariant, OrderedIsInvariant, PTL DEF Spec

-----------------------------------------------------------------------------
(* What a sum is.  SumOf is a fold, a recursion over the sets of rows: that *)
(* there is a function which satisfies it, and that its values are numbers, *)
(* follows from the smallest set for which it would not be so.              *)

\* What would be so for some number is so for a least one.
LEMMA NatHasLeast ==
  ASSUME NEW Nums \in SUBSET Nat, Nums # {}
  PROVE  \E x \in Nums : \A y \in Nums : x <= y
<1>1. PICK x \in Nums : \A y \in Nums : <<y, x>> \notin OpToRel(<, Nat)
  BY NatLessThanWellFounded, WFMin
<1>2. \A y \in Nums : ~(y < x)
  BY <1>1, Zenon DEF OpToRel
<1> QED BY <1>2

\* The sum over the set s of rows, of which g has the sums of the smaller sets.
Some(s) == CHOOSE i \in s : TRUE
SumFrom(rows, g, s) == IF s = {} THEN 0 ELSE rows[Some(s)].amount + g[s \ {Some(s)}]

Sums(rows, g) == g = [s \in SUBSET DOMAIN rows |-> SumFrom(rows, g, s)]

\* The fold takes its value from a function that satisfies the recursion.
LEMMA SumOfIs ==
  ASSUME NEW rows
  PROVE  SumOf(rows) = (CHOOSE g : Sums(rows, g))[DOMAIN rows]
BY Zenon DEF SumOf, FoldFunction, FoldFunctionOnSet, MapThenFoldSet, Sums, SumFrom, Some

\* Finitely many rows with amounts.
Amounting(rows) ==
  IsFiniteSet(DOMAIN rows) /\ \A i \in DOMAIN rows : rows[i].amount \in Int

\* One row is taken away, and the set is smaller by one.
LEMMA SumFromIs ==
  ASSUME NEW rows, Amounting(rows), NEW s \in SUBSET DOMAIN rows, s # {}
  PROVE  /\ Cardinality(s) \in Nat \ {0} /\ s \ {Some(s)} \in SUBSET DOMAIN rows
         /\ Cardinality(s \ {Some(s)}) = Cardinality(s) - 1
         /\ rows[Some(s)].amount \in Int
<1>1. Some(s) \in s BY DEF Some
<1>2. IsFiniteSet(s) BY FS_Subset DEF Amounting
<1>3. Cardinality(s \ {Some(s)}) = Cardinality(s) - 1
  BY <1>1, <1>2, FS_RemoveElement
<1>4. Cardinality(s) \in Nat /\ Cardinality(s) # 0
  BY <1>2, FS_CardinalityType, FS_EmptySet
<1> QED BY <1>1, <1>3, <1>4 DEF Amounting

\* Over no rows it is nothing.
LEMMA SumOfNone ==
  ASSUME NEW rows, NEW g PROVE SumFrom(rows, g, {}) = 0
BY DEF SumFrom

\* The sums of all sets up to n rows.
SumsUpTo(rows, n, g) ==
  /\ g \in [SUBSET DOMAIN rows -> Int]
  /\ \A s \in SUBSET DOMAIN rows : Cardinality(s) <= n => g[s] = SumFrom(rows, g, s)

\* They give those of one row more.
LEMMA SumsGrow ==
  ASSUME NEW rows, Amounting(rows), NEW n \in Nat, NEW g, SumsUpTo(rows, n, g)
  PROVE  \E h : SumsUpTo(rows, n + 1, h)
<1> DEFINE D == DOMAIN rows
           h == [s \in SUBSET D |-> IF Cardinality(s) <= n THEN g[s] ELSE SumFrom(rows, g, s)]
<1>1. ASSUME NEW s \in SUBSET D PROVE h[s] \in Int
  <2>1. g[s] \in Int /\ h[s] \in {g[s], SumFrom(rows, g, s)} BY DEF SumsUpTo
  <2>2. SumFrom(rows, g, s) \in Int
    <3>1. CASE s = {} BY <3>1, SumOfNone
    <3>2. CASE s # {}
      <4>1. s \ {Some(s)} \in SUBSET D /\ rows[Some(s)].amount \in Int
        BY <3>2, SumFromIs
      <4>2. g[s \ {Some(s)}] \in Int BY <4>1 DEF SumsUpTo
      <4> QED BY <3>2, <4>1, <4>2 DEF SumFrom
    <3> QED BY <3>1, <3>2
  <2> QED BY <2>1, <2>2
<1>2. h \in [SUBSET D -> Int] BY <1>1
<1>3. ASSUME NEW s \in SUBSET D, Cardinality(s) <= n + 1
      PROVE  h[s] = SumFrom(rows, h, s)
  <2>1. CASE s = {}
    <3>1. Cardinality(s) = 0 /\ g[s] = 0
      BY <2>1, SumOfNone, FS_EmptySet DEF SumsUpTo
    <3> QED BY <2>1, <3>1, SumOfNone
  <2>2. CASE s # {}
    <3>1. /\ Cardinality(s) \in Nat /\ s \ {Some(s)} \in SUBSET D
          /\ Cardinality(s \ {Some(s)}) = Cardinality(s) - 1
      BY <2>2, SumFromIs
    <3>2. Cardinality(s \ {Some(s)}) <= n BY <1>3, <3>1
    <3>3. h[s \ {Some(s)}] = g[s \ {Some(s)}] BY <3>1, <3>2
    <3>4. SumFrom(rows, h, s) = SumFrom(rows, g, s) BY <2>2, <3>3 DEF SumFrom
    <3>5. Cardinality(s) <= n => g[s] = SumFrom(rows, g, s) BY DEF SumsUpTo
    <3>6. h[s] = SumFrom(rows, g, s) BY <3>5
    <3> QED BY <3>4, <3>6
  <2> QED BY <2>1, <2>2
<1> HIDE DEF h
<1> QED BY <1>2, <1>3 DEF SumsUpTo

\* So there are sums of any number of rows.
LEMMA SumsExist ==
  ASSUME NEW rows, Amounting(rows), NEW n \in Nat
  PROVE  \E g : SumsUpTo(rows, n, g)
<1> DEFINE Nums == {m \in Nat : ~\E g : SumsUpTo(rows, m, g)}
<1>1. SUFFICES ASSUME Nums # {} PROVE FALSE OBVIOUS
<1>2. PICK m \in Nums : \A l \in Nums : m <= l
  <2> HIDE DEF Nums
  <2>1. Nums \in SUBSET Nat BY DEF Nums
  <2> QED BY <1>1, <2>1, NatHasLeast
<1>3. SumsUpTo(rows, 0, [s \in SUBSET DOMAIN rows |-> 0])
  <2>1. ASSUME NEW s \in SUBSET DOMAIN rows, Cardinality(s) <= 0 PROVE s = {}
    <3>1. s # {} => Cardinality(s) \in Nat \ {0} BY SumFromIs
    <3> QED BY <2>1, <3>1
  <2> QED BY <2>1, SumOfNone DEF SumsUpTo
<1>4. m # 0 BY <1>2, <1>3
<1>5. m - 1 \in Nat /\ m - 1 \notin Nums /\ (m - 1) + 1 = m BY <1>2, <1>4
<1>6. PICK g : SumsUpTo(rows, m - 1, g) BY <1>5
<1>7. \E h : SumsUpTo(rows, m, h) BY <1>5, <1>6, SumsGrow
<1> QED BY <1>2, <1>7

\* A sum of integers is one.
LEMMA SumIsInt ==
  ASSUME NEW rows, Amounting(rows)
  PROVE  SumOf(rows) \in Int
<1> DEFINE D == DOMAIN rows
<1>1. /\ Cardinality(D) \in Nat
      /\ \A s \in SUBSET D : Cardinality(s) \in Nat /\ Cardinality(s) <= Cardinality(D)
  BY FS_Subset, FS_CardinalityType DEF Amounting
<1>2. PICK g : SumsUpTo(rows, Cardinality(D), g)
  BY <1>1, SumsExist
<1>3. g = [s \in SUBSET D |-> SumFrom(rows, g, s)]
  BY <1>1, <1>2 DEF SumsUpTo
<1>4. Sums(rows, g) BY <1>3 DEF Sums
<1> DEFINE h == CHOOSE f : Sums(rows, f)
<1>5. Sums(rows, h) BY <1>4
<1> HIDE DEF h
<1> DEFINE Nums == {n \in Nat : \E s \in SUBSET D : Cardinality(s) = n /\ h[s] \notin Int}
<1>6. ASSUME Nums # {} PROVE FALSE
  <2>1. PICK n \in Nums : \A l \in Nums : n <= l
    <3> HIDE DEF Nums
    <3>1. Nums \in SUBSET Nat BY DEF Nums
    <3> QED BY <1>6, <3>1, NatHasLeast
  <2>2. PICK s \in SUBSET D : Cardinality(s) = n /\ h[s] \notin Int BY <2>1
  <2>3. h[s] = SumFrom(rows, h, s) BY <1>5 DEF Sums
  <2>4. s # {} BY <2>2, <2>3, SumOfNone
  <2>5. /\ Cardinality(s) \in Nat \ {0} /\ s \ {Some(s)} \in SUBSET D
        /\ Cardinality(s \ {Some(s)}) = Cardinality(s) - 1
        /\ rows[Some(s)].amount \in Int
    BY <2>4, SumFromIs
  <2>6. h[s \ {Some(s)}] \in Int BY <2>1, <2>2, <2>5
  <2> QED BY <2>2, <2>3, <2>4, <2>5, <2>6 DEF SumFrom
<1>7. h[D] \in Int BY <1>1, <1>6
<1>8. SumOf(rows) = h[D] BY SumOfIs DEF h
<1> QED BY <1>7, <1>8

-----------------------------------------------------------------------------
(* The types.  An entry that is not looked up before it is inserted has an *)
(* amount from the start, one that is has it from the search on.           *)

Worth(k) ==
  /\ \A i \in DOMAIN queue[k] : queue[k][i].ref = NoRef => queue[k][i].amount # 0
  /\ pc[k] = "insert" => queue[k][1].amount # 0

TablesTyped ==
  /\ stored \subseteq Event /\ customers \subseteq Customer
  /\ ledger \in [Reference -> Seq(Entries)] /\ held \subseteq Held

StacksTyped ==
  /\ pc \in [Call -> PC] /\ event \in [Call -> Event \cup {None}]
  /\ opened \in [Call -> BOOLEAN]
  /\ queue \in [Call -> Seq(Offers)] /\ cont \in [Call -> PC] /\ due \in [Call -> Int]
  /\ \A k \in Call : Worth(k)

HistoryTyped ==
  /\ projected \subseteq Event
  /\ overlapped \subseteq Reference /\ failed \subseteq Reference
  /\ pruned \subseteq PaymentId

BoundsTyped ==
  limit \in Limits /\ deliveries \in 0..limit.deliveries /\ failures \in 0..limit.failures

Typed == TablesTyped /\ StacksTyped /\ HistoryTyped /\ BoundsTyped

LEMMA SignalTypes == ASSUME NEW e \in Event PROVE Signal[e] \in Signals
BY IngestAssumption

LEMMA EntryTypes ==
  ASSUME NEW type \in DOMAIN Sign, NEW m \in Nat, NEW x \in ProviderRef \cup {NoRef}
  PROVE  /\ Entry(type, m, x) \in Offers /\ Entry(type, m, x).ref = x
         /\ m # 0 => Entry(type, m, x).amount # 0
<1>1. Sign[type] \in {1, -1}
  BY DEF Sign
<1>2. Sign[type] * m \in Int /\ (m # 0 => Sign[type] * m # 0)
  BY <1>1
<1> QED BY <1>2 DEF Entry, Offers

LEMMA PaymentRefs ==
  ASSUME NEW p \in PaymentId
  PROVE  /\ <<"payment", p>> \in ProviderRef \ {NoRef}
         /\ <<"refund", p>> \in ProviderRef \ {NoRef}
BY DEF ProviderRef, NoRef

-----------------------------------------------------------------------------
(* Moves of the stack *)

LEMMA LeaveIsTyped ==
  ASSUME StacksTyped, NEW k \in Call, Leave(k)
  PROVE  StacksTyped'
<1>1. << >> \in Seq(Offers) /\ DOMAIN << >> = {} OBVIOUS
<1>2. \A u \in Call : Worth(u)'
  BY <1>1 DEF StacksTyped, Leave, Goto, Worth
<1> QED BY <1>1, <1>2 DEF StacksTyped, Leave, Goto, PC

LEMMA GotoIsTyped ==
  ASSUME StacksTyped, NEW k \in Call, NEW l \in PC, Goto(k, l),
         l # "insert" \/ queue[k][1].amount # 0,
         UNCHANGED <<queue, cont>>, event' \in [Call -> Event \cup {None}],
         opened' \in [Call -> BOOLEAN], due' \in [Call -> Int]
  PROVE  StacksTyped'
<1>1. \A u \in Call : Worth(u)'
  BY DEF StacksTyped, Goto, Worth
<1> QED BY <1>1 DEF StacksTyped, Goto

LEMMA StepIsTyped ==
  ASSUME StacksTyped, HistoryTyped, NEW k \in Call, NEW l \in PC, Step(k, l),
         l # "insert" \/ queue[k][1].amount # 0
  PROVE  StacksTyped' /\ HistoryTyped'
<1>1. UNCHANGED <<queue, cont, event, opened, due, history>> /\ Goto(k, l)
  BY DEF Step
<1> QED BY <1>1, GotoIsTyped DEF StacksTyped, HistoryTyped, history

LEMMA EnterIsTyped ==
  ASSUME StacksTyped, NEW k \in Call, NEW es \in Seq(Offers), NEW l \in PC \ {"insert"},
         Enter(k, es, l), UNCHANGED <<event, due>>, opened' \in [Call -> BOOLEAN],
         \A i \in DOMAIN es : es[i].ref = NoRef => es[i].amount # 0
  PROVE  StacksTyped'
<1> DEFINE m == IF es = << >> THEN l ELSE IF es[1].ref = NoRef THEN "insert" ELSE "select"
<1>1. /\ queue' = [queue EXCEPT ![k] = es] /\ cont' = [cont EXCEPT ![k] = l]
      /\ pc' = [pc EXCEPT ![k] = m]
  BY DEF Enter, Goto
<1>2. m \in PC /\ (m = "insert" => es[1].amount # 0)
  <2>1. es # << >> => 1 \in DOMAIN es OBVIOUS
  <2> QED BY <2>1 DEF PC, Projecting, Appending
<1> HIDE DEF m
<1>3. \A u \in Call : Worth(u)'
  BY <1>1, <1>2 DEF StacksTyped, Worth
<1> QED BY <1>1, <1>2, <1>3 DEF StacksTyped

LEMMA ThrownIsTyped ==
  ASSUME Keeping, StacksTyped, HistoryTyped, NEW k \in Call, Thrown(k), pc[k] # "idle"
  PROVE  StacksTyped' /\ HistoryTyped'
<1>1. R(k) \in Reference \cup {None}
  BY SignalTypes DEF Keeping, Sound, Roles, R, S, Signals
<1> QED BY <1>1, LeaveIsTyped DEF Thrown, HistoryTyped

LEMMA AcceptedIsTyped ==
  ASSUME Keeping, StacksTyped, HistoryTyped, NEW k \in Call, Accepted(k), pc[k] # "idle"
  PROVE  StacksTyped' /\ HistoryTyped'
<1>1. event[k] \in Event
  BY DEF Keeping, Sound, Roles
<1> QED BY <1>1, LeaveIsTyped DEF Accepted, HistoryTyped

-----------------------------------------------------------------------------
(* The steps *)

\* The event of a request and its signal.
LEMMA CarriedTypes ==
  ASSUME Keeping, NEW k \in Call, pc[k] # "idle"
  PROVE  event[k] \in Event /\ S(k) \in Signals /\ R(k) \in Reference \cup {None}
BY SignalTypes DEF Keeping, Sound, Roles, R, S, Signals

LEMMA ReceiverIsTyped ==
  ASSUME Keeping, Typed, NEW k \in Call,
         (\E e \in Event : Deliver(k, e)) \/ Receive(k) \/ Persist(k)
  PROVE  Typed'
<1>1. CASE \E e \in Event : Deliver(k, e)
  <2>1. PICK e \in Event : Deliver(k, e)
    BY <1>1
  <2>2. /\ Goto(k, "receive") /\ event' = [event EXCEPT ![k] = e]
        /\ UNCHANGED <<tables, opened, queue, cont, due, history, limit, failures>>
        /\ deliveries < limit.deliveries /\ deliveries' = deliveries + 1
    BY <2>1 DEF Deliver
  <2>3. event' \in [Call -> Event \cup {None}] /\ "receive" \in PC
    BY <2>2 DEF Typed, StacksTyped, PC
  <2>4. StacksTyped'
    BY <2>2, <2>3, GotoIsTyped DEF Typed, StacksTyped
  <2>5. BoundsTyped'
    BY <2>2, IngestAssumption DEF Typed, BoundsTyped
  <2> QED BY <2>2, <2>4, <2>5 DEF Typed, TablesTyped, HistoryTyped, tables, history
<1>2. CASE Receive(k)
  <2>1. StacksTyped' /\ HistoryTyped'
    <3>1. CASE Step(k, "persist")
      BY <3>1, StepIsTyped DEF Typed, PC
    <3>2. CASE Leave(k) /\ UNCHANGED history
      BY <3>2, LeaveIsTyped DEF Typed, HistoryTyped, history
    <3> QED BY <1>2, <3>1, <3>2 DEF Receive
  <2> QED BY <1>2, <2>1 DEF Receive, Typed, TablesTyped, BoundsTyped, tables, bounds
<1>3. CASE Persist(k)
  <2>1. event[k] \in Event /\ pc[k] # "idle"
    BY <1>3, CarriedTypes DEF Persist
  <2>2. StacksTyped' /\ HistoryTyped'
    <3>1. CASE Step(k, "find")
      BY <3>1, StepIsTyped DEF Typed, PC
    <3>2. CASE Leave(k) /\ UNCHANGED history
      BY <3>2, LeaveIsTyped DEF Typed, HistoryTyped, history
    <3>3. CASE Thrown(k)
      BY <2>1, <3>3, ThrownIsTyped DEF Typed
    <3> QED BY <1>3, <3>1, <3>2, <3>3 DEF Persist
  <2>3. stored' \subseteq Event
    BY <1>3, <2>1 DEF Persist, Typed, TablesTyped
  <2> QED BY <1>3, <2>2, <2>3 DEF Persist, Typed, TablesTyped, BoundsTyped, bounds
<1> QED BY <1>1, <1>2, <1>3

LEMMA OpeningIsTyped ==
  ASSUME Keeping, Typed, NEW k \in Call,
         Find(k) \/ FindCustomer(k) \/ AddCustomer(k) \/ OpenCase(k)
  PROVE  Typed'
<1>1. /\ pc[k] # "idle" /\ event[k] \in Event /\ S(k) \in Signals
      /\ R(k) \in Reference \cup {None}
  BY CarriedTypes DEF Find, FindCustomer, AddCustomer, OpenCase
<1>2. CASE Find(k)
  <2>1. StacksTyped' /\ HistoryTyped'
    <3>1. CASE R(k) = None
      BY <1>1, <1>2, <3>1, AcceptedIsTyped DEF Find, Typed
    <3>2. CASE R(k) # None
      <4>1. PICK l \in {"bill", "customer", "prune"} : Goto(k, l)
        BY <1>2, <3>2 DEF Find
      <4>2. l \in PC /\ l # "insert"
        BY DEF PC, Projecting
      <4>3. UNCHANGED <<event, opened, queue, cont, due, projected, failed, pruned>>
        BY <1>2, <3>2 DEF Find
      <4>4. StacksTyped'
        BY <4>1, <4>2, <4>3, GotoIsTyped DEF Typed, StacksTyped
      <4>5. overlapped' \subseteq Reference
        BY <1>1, <1>2, <3>2 DEF Find, Typed, HistoryTyped
      <4> QED BY <4>3, <4>4, <4>5 DEF Typed, HistoryTyped
    <3> QED BY <3>1, <3>2
  <2> QED BY <1>2, <2>1 DEF Find, Typed, TablesTyped, BoundsTyped, tables, bounds
<1>3. CASE FindCustomer(k)
  <2>1. PICK l \in {"open", "addCustomer"} : Step(k, l)
    BY <1>3 DEF FindCustomer
  <2>2. l \in PC /\ l # "insert"
    BY DEF PC, Projecting
  <2>3. StacksTyped' /\ HistoryTyped'
    BY <2>1, <2>2, StepIsTyped DEF Typed
  <2> QED BY <1>3, <2>3 DEF FindCustomer, Typed, TablesTyped, BoundsTyped, tables, bounds
<1>4. CASE AddCustomer(k)
  <2>1. StacksTyped' /\ HistoryTyped'
    <3>1. CASE Step(k, "open")
      BY <3>1, StepIsTyped DEF Typed, PC, Projecting
    <3>2. CASE Thrown(k)
      BY <1>1, <3>2, ThrownIsTyped DEF Typed
    <3> QED BY <1>4, <3>1, <3>2 DEF AddCustomer
  <2>2. customers' \subseteq Customer
    BY <1>1, <1>4 DEF AddCustomer, Typed, TablesTyped, Signals
  <2> QED BY <1>4, <2>1, <2>2 DEF AddCustomer, Typed, TablesTyped, BoundsTyped, bounds
<1>5. CASE OpenCase(k)
  <2>1. StacksTyped' /\ HistoryTyped'
    <3>1. CASE Accepted(k)
      BY <1>1, <3>1, AcceptedIsTyped DEF Typed
    <3>2. CASE Thrown(k)
      BY <1>1, <3>2, ThrownIsTyped DEF Typed
    <3>3. CASE ~Accepted(k) /\ ~Thrown(k)
      <4> DEFINE e == Entry("CHARGE", S(k).amount, NoRef)
      <4>1. /\ S(k).amount > 0 /\ opened' = [opened EXCEPT ![k] = TRUE]
            /\ Enter(k, <<e>>, "apply") /\ UNCHANGED <<event, due, history>>
        BY <1>5, <3>3 DEF OpenCase, Opens
      <4>2. S(k).amount \in Nat
        BY <1>1 DEF Signals
      <4>3. e \in Offers /\ e.amount # 0
        BY <4>1, <4>2, EntryTypes DEF Sign
      <4> HIDE DEF e
      <4>4. <<e>> \in Seq(Offers) /\ \A i \in DOMAIN <<e>> : <<e>>[i].amount # 0
        BY <4>3
      <4>5. "apply" \in PC \ {"insert"}
        BY DEF PC, Projecting
      <4>6. StacksTyped'
        BY <4>1, <4>4, <4>5, EnterIsTyped DEF Typed, StacksTyped
      <4> QED BY <4>1, <4>6 DEF Typed, HistoryTyped, history
    <3> QED BY <3>1, <3>2, <3>3
  <2> QED BY <1>5, <2>1 DEF OpenCase, Typed, TablesTyped, BoundsTyped, bounds
<1> QED BY <1>2, <1>3, <1>4, <1>5

LEMMA HoldingIsTyped ==
  ASSUME Keeping, Typed, NEW k \in Call, Prune(k) \/ Hold(k)
  PROVE  Typed'
<1>1. /\ pc[k] # "idle" /\ event[k] \in Event /\ S(k) \in Signals
  BY CarriedTypes DEF Prune, Hold
<1>2. CASE Prune(k)
  <2>1. CASE Accepted(k) /\ UNCHANGED held
    <3>1. StacksTyped' /\ HistoryTyped'
      BY <1>1, <2>1, AcceptedIsTyped DEF Typed
    <3> QED BY <1>2, <2>1, <3>1 DEF Prune, Typed, TablesTyped, BoundsTyped, bounds
  <2>2. CASE ~(Accepted(k) /\ UNCHANGED held)
    <3> DEFINE old == {h \in held : h.at < S(k).at - RETENTION}
    <3>1. /\ held' = held \ old /\ pruned' = pruned \cup {h.payment : h \in old}
          /\ Goto(k, "hold")
          /\ UNCHANGED <<event, opened, queue, cont, due, projected, overlapped, failed>>
      BY <1>2, <2>2 DEF Prune
    <3>2. "hold" \in PC
      BY DEF PC, Projecting
    <3>3. StacksTyped'
      BY <3>1, <3>2, GotoIsTyped DEF Typed, StacksTyped
    <3>4. held' \subseteq Held /\ pruned' \subseteq PaymentId
      BY <3>1 DEF Typed, TablesTyped, HistoryTyped, Held
    <3> QED BY <1>2, <3>1, <3>3, <3>4 DEF Prune, Typed, TablesTyped, HistoryTyped, BoundsTyped, bounds
  <2> QED BY <2>1, <2>2
<1>3. CASE Hold(k)
  <2>1. StacksTyped' /\ HistoryTyped'
    BY <1>1, <1>3, AcceptedIsTyped DEF Hold, Typed
  <2>2. R(k) \in Reference /\ S(k).payment # None
    BY <1>3 DEF Hold, Keeping, Sound, Roles, Paying, Projecting
  <2>3. held' \subseteq Held
    <3>1. [payment |-> S(k).payment, reference |-> R(k), amount |-> S(k).amount,
           at |-> S(k).at] \in Held
      BY <1>1, <2>2 DEF Signals, Held
    <3> QED BY <1>3, <3>1 DEF Hold, Typed, TablesTyped
  <2> QED BY <1>3, <2>1, <2>3 DEF Hold, Typed, TablesTyped, BoundsTyped, bounds
<1> QED BY <1>2, <1>3

\* The entries of a signal.
LEMMA EntriesTypes ==
  ASSUME NEW s \in Signals
  PROVE  EntriesOf(s) \in Seq(Offers) /\ \A i \in DOMAIN EntriesOf(s) : EntriesOf(s)[i].ref # NoRef
<1> DEFINE e == Entry("PAYMENT", s.amount, <<"payment", s.payment>>)
           f == Entry("REFUND", s.amount, <<"refund", s.payment>>)
<1>1. ASSUME s.payment # None
      PROVE  e \in Offers /\ f \in Offers /\ e.ref # NoRef /\ f.ref # NoRef
  <2>1. s.payment \in PaymentId /\ s.amount \in Nat
    BY <1>1 DEF Signals
  <2>2. /\ <<"payment", s.payment>> \in ProviderRef \ {NoRef}
        /\ <<"refund", s.payment>> \in ProviderRef \ {NoRef}
    BY <2>1, PaymentRefs
  <2>3. "PAYMENT" \in DOMAIN Sign /\ "REFUND" \in DOMAIN Sign
    BY DEF Sign
  <2> QED BY <2>1, <2>2, <2>3, EntryTypes
<1> HIDE DEF e, f
<1>2. EntriesOf(s) = << >> \/ (s.payment # None /\ EntriesOf(s) \in {<<e>>, <<f>>})
  BY DEF EntriesOf, e, f
<1>3. << >> \in Seq(Offers) /\ DOMAIN << >> = {}
  OBVIOUS
<1>4. ASSUME s.payment # None, NEW g \in {e, f}
      PROVE  <<g>> \in Seq(Offers) /\ \A i \in DOMAIN <<g>> : <<g>>[i].ref # NoRef
  BY <1>1, <1>4
<1> QED BY <1>2, <1>3, <1>4

LEMMA ApplyingIsTyped ==
  ASSUME Keeping, Ordered, Typed, NEW k \in Call,
         Bill(k) \/ Rebill(k) \/ ApplySignal(k) \/ CountAttempt(k)
  PROVE  Typed'
<1>1. /\ pc[k] # "idle" /\ S(k) \in Signals /\ S(k).amount \in Nat
  BY CarriedTypes DEF Bill, Rebill, ApplySignal, CountAttempt, Signals
<1>2. /\ UNCHANGED <<stored, customers, ledger, held, bounds>>
  BY DEF Bill, Rebill, ApplySignal, CountAttempt, tables
<1>3. SUFFICES StacksTyped' /\ HistoryTyped'
  BY <1>2 DEF Typed, TablesTyped, BoundsTyped, bounds
<1>4. {"apply", "count", "sum", "held", "rebill"} \subseteq PC \ {"insert"}
  BY DEF PC, Projecting
<1>5. \A l \in {"apply", "count", "sum", "held"} : Step(k, l) => StacksTyped' /\ HistoryTyped'
  BY <1>4, StepIsTyped DEF Typed
<1>6. ASSUME NEW es \in Seq(Offers), NEW l \in {"rebill", "sum", "held"}, Enter(k, es, l),
             UNCHANGED <<event, opened, due, history>>,
             \A i \in DOMAIN es : es[i].ref = NoRef => es[i].amount # 0
      PROVE  StacksTyped' /\ HistoryTyped'
  <2>1. StacksTyped'
    BY <1>4, <1>6, EnterIsTyped DEF Typed, StacksTyped
  <2> QED BY <1>6, <2>1 DEF Typed, HistoryTyped, history
<1>7. AfterSignal(k) \in {"sum", "held"}
  BY DEF AfterSignal
<1>8. CASE Bill(k)
  <2>1. CASE S(k).amount > row[k].amount
    <3> DEFINE m == S(k).amount - row[k].amount
               e == Entry("CHARGE", m, NoRef)
    <3>1. row[k] \in Rows
      BY <1>8 DEF Bill, Ordered, RowsTyped, Ready, Projecting, Before
    <3>2. m \in Nat /\ m # 0
      BY <1>1, <2>1, <3>1 DEF Rows
    <3>3. e \in Offers /\ e.amount # 0
      BY <3>2, EntryTypes DEF Sign
    <3>4. Enter(k, <<e>>, "rebill") /\ UNCHANGED <<event, opened, due, history>>
      BY <1>8, <2>1 DEF Bill
    <3> HIDE DEF e
    <3>5. <<e>> \in Seq(Offers) /\ \A i \in DOMAIN <<e>> : <<e>>[i].amount # 0
      BY <3>3
    <3> QED BY <1>6, <3>4, <3>5
  <2> QED BY <1>5, <1>8, <2>1 DEF Bill
<1>9. CASE Rebill(k) \/ CountAttempt(k)
  BY <1>5, <1>7, <1>9 DEF Rebill, CountAttempt
<1>10. CASE ApplySignal(k)
  <2>1. CASE Step(k, "count")
    BY <1>5, <2>1
  <2>2. CASE ~Step(k, "count")
    <3>1. Enter(k, EntriesOf(S(k)), AfterSignal(k)) /\ UNCHANGED <<event, opened, due, history>>
      BY <1>10, <2>2 DEF ApplySignal
    <3> QED BY <1>1, <1>6, <1>7, <3>1, EntriesTypes
  <2> QED BY <2>1, <2>2
<1> QED BY <1>8, <1>9, <1>10

\* What is left of the queue is typed as the queue was.
LEMMA MovesOnTyped ==
  ASSUME Keeping, Typed, NEW k \in Call, pc[k] \in Appending,
         Enter(k, Tail(queue[k]), cont[k]), UNCHANGED <<event, opened, due, history>>
  PROVE  StacksTyped' /\ HistoryTyped'
<1> DEFINE q == queue[k]
<1>1. /\ q \in Seq(Offers) /\ q # << >> /\ cont[k] \in PC \ {"insert"}
      /\ \A i \in DOMAIN q : q[i].ref = NoRef => q[i].amount # 0
  BY DEF Typed, StacksTyped, Worth, Keeping, Sound, Roles
<1>2. Tail(q) \in Seq(Offers) /\ \A i \in DOMAIN Tail(q) : i + 1 \in DOMAIN q /\ Tail(q)[i] = q[i + 1]
  <2> HIDE DEF q
  <2> QED BY <1>1
<1>3. \A i \in DOMAIN Tail(q) : Tail(q)[i].ref = NoRef => Tail(q)[i].amount # 0
  BY <1>1, <1>2
<1>4. StacksTyped'
  <2> HIDE DEF q
  <2>1. Enter(k, Tail(q), cont[k]) BY DEF q
  <2> QED BY <1>1, <1>2, <1>3, <2>1, EnterIsTyped DEF Typed, StacksTyped
<1> QED BY <1>4 DEF Typed, HistoryTyped, history

LEMMA AppendingIsTyped ==
  ASSUME Keeping, Typed, NEW k \in Call, SelectRef(k) \/ InsertEntry(k)
  PROVE  Typed'
<1>1. pc[k] \in Appending /\ pc[k] # "idle" /\ queue[k] # << >> /\ queue[k] \in Seq(Offers)
  BY DEF SelectRef, InsertEntry, Appending, Keeping, Sound, Roles, Typed, StacksTyped
<1>2. StacksTyped' /\ HistoryTyped'
  <2>1. CASE Thrown(k)
    BY <1>1, <2>1, ThrownIsTyped DEF Typed
  <2>2. CASE Enter(k, Tail(queue[k]), cont[k]) /\ UNCHANGED <<event, opened, due, history>>
    BY <1>1, <2>2, MovesOnTyped
  <2>3. CASE Step(k, "insert") /\ queue[k][1].amount # 0
    BY <2>3, StepIsTyped DEF Typed, PC, Projecting, Appending
  <2> QED BY <2>1, <2>2, <2>3 DEF SelectRef, InsertEntry
<1>3. ledger' \in [Reference -> Seq(Entries)]
  <2>1. ledger \in [Reference -> Seq(Entries)]
    BY DEF Typed, TablesTyped
  <2>2. CASE ledger' = ledger
    BY <2>1, <2>2
  <2>3. CASE InsertEntry(k) /\ Insert(R(k), queue[k][1])
    <3>1. queue[k][1] \in Entries
      <4>1. queue[k][1] \in Offers BY <1>1
      <4>2. queue[k][1].amount # 0
        BY <2>3 DEF InsertEntry, Typed, StacksTyped, Worth
      <4> QED BY <4>1, <4>2 DEF Entries
    <3>2. R(k) \in Reference
      BY <1>1 DEF Keeping, Sound, Roles, Projecting
    <3>3. Append(ledger[R(k)], queue[k][1]) \in Seq(Entries)
      BY <2>1, <3>1, <3>2
    <3> QED BY <2>1, <2>3, <3>3 DEF Insert
  <2> QED BY <2>2, <2>3 DEF SelectRef, InsertEntry, tables
<1>4. UNCHANGED <<stored, customers, held, bounds>>
  BY DEF SelectRef, InsertEntry, tables
<1> QED BY <1>2, <1>3, <1>4 DEF Typed, TablesTyped, BoundsTyped, bounds

\* The entries of held payments.
LEMMA HeldEntriesTypes ==
  ASSUME NEW H \in SUBSET Held, IsFiniteSet(H), NEW found \in SetToSeqs(H)
  PROVE  /\ EntriesOfHeld(found) \in Seq(Offers)
         /\ \A i \in DOMAIN EntriesOfHeld(found) : EntriesOfHeld(found)[i].ref # NoRef
<1> DEFINE n == Cardinality(H)
           es == EntriesOfHeld(found)
<1>1. n \in Nat /\ found \in [1..n -> H]
  BY FS_CardinalityType DEF SetToSeqs
<1>2. ASSUME NEW i \in 1..n PROVE es[i] \in Offers /\ es[i].ref # NoRef
  <2>1. found[i].payment \in PaymentId /\ found[i].amount \in Nat
    BY <1>1 DEF Held
  <2>2. es[i] = Entry("PAYMENT", found[i].amount, <<"payment", found[i].payment>>)
    BY <1>1 DEF EntriesOfHeld
  <2>3. <<"payment", found[i].payment>> \in ProviderRef \ {NoRef} /\ "PAYMENT" \in DOMAIN Sign
    BY <2>1, PaymentRefs DEF Sign
  <2> HIDE DEF es
  <2> QED BY <2>1, <2>2, <2>3, EntryTypes
<1>3. es = [i \in 1..n |-> es[i]]
  BY <1>1 DEF EntriesOfHeld
<1> HIDE DEF es, n
<1>4. es \in Seq(Offers) /\ DOMAIN es = 1..n
  BY <1>1, <1>2, <1>3
<1> QED BY <1>2, <1>4 DEF es

LEMMA DroppingIsTyped ==
  ASSUME Keeping, Typed, NEW k \in Call, ReadHeld(k) \/ DropHeld(k)
  PROVE  Typed'
<1>1. CASE ReadHeld(k)
  <2>1. PICK found \in SetToSeqs(HeldFor(R(k))) :
               Enter(k, EntriesOfHeld(found), IF found = << >> THEN "sum" ELSE "drop")
    BY <1>1 DEF ReadHeld
  <2>2. UNCHANGED <<tables, event, opened, due, history, bounds>>
    BY <1>1 DEF ReadHeld
  <2>3. HeldFor(R(k)) \in SUBSET Held /\ IsFiniteSet(HeldFor(R(k)))
    BY FS_Subset DEF HeldFor, Typed, TablesTyped, Keeping, HeldKnown
  <2>4. PICK l \in {"sum", "drop"} : Enter(k, EntriesOfHeld(found), l)
    BY <2>1
  <2>5. l \in PC \ {"insert"}
    BY DEF PC, Projecting
  <2>6. /\ EntriesOfHeld(found) \in Seq(Offers)
        /\ \A i \in DOMAIN EntriesOfHeld(found) : EntriesOfHeld(found)[i].ref # NoRef
    BY <2>3, HeldEntriesTypes
  <2>7. StacksTyped'
    BY <2>2, <2>4, <2>5, <2>6, EnterIsTyped DEF Typed, StacksTyped
  <2> QED BY <2>2, <2>7 DEF Typed, TablesTyped, HistoryTyped, BoundsTyped, tables, history, bounds
<1>2. CASE DropHeld(k)
  <2>1. StacksTyped' /\ HistoryTyped'
    BY <1>2, StepIsTyped DEF DropHeld, Typed, PC, Projecting
  <2>2. held' \subseteq Held
    BY <1>2 DEF DropHeld, Typed, TablesTyped
  <2> QED BY <1>2, <2>1, <2>2 DEF DropHeld, Typed, TablesTyped, BoundsTyped, bounds
<1> QED BY <1>1, <1>2

\* The sums of a ledger are integers, and what is taken for tax is a number.
LEMMA SumsAreInts ==
  ASSUME Typed, NEW r \in Reference
  PROVE  Outstanding(r) \in Int /\ Paid(r) \in Int /\ Billed(r) \in Int
<1> DEFINE l == ledger[r]
<1>1. l \in Seq(Entries)
  BY DEF Typed, TablesTyped
<1>2. IsFiniteSet(DOMAIN l) /\ \A i \in DOMAIN l : l[i].amount \in Int
  <2>1. DOMAIN l = 1..Len(l) /\ Len(l) \in Nat /\ \A i \in DOMAIN l : l[i] \in Entries
    BY <1>1
  <2>2. IsFiniteSet(1..Len(l))
    BY <2>1, FS_Interval
  <2> QED BY <2>1, <2>2 DEF Entries, Offers
<1>3. ASSUME NEW type PROVE SumOf(OfType(r, type)) \in Int
  <2> DEFINE of == OfType(r, type)
  <2>1. of = [i \in {j \in DOMAIN l : l[j].type = type} |-> l[i]]
    BY Zenon DEF OfType, RestrictValues, Restrict
  <2>2. IsFiniteSet(DOMAIN of) /\ \A i \in DOMAIN of : of[i].amount \in Int
    <3> HIDE DEF of, l
    <3>1. DOMAIN of \subseteq DOMAIN l BY <2>1
    <3> QED BY <1>2, <2>1, <3>1, FS_Subset
  <2> HIDE DEF of
  <2>3. SumOf(of) \in Int BY <2>2, SumIsInt DEF Amounting
  <2> QED BY <2>3 DEF of
<1>4. SumOf(l) \in Int
  BY <1>2, SumIsInt DEF Amounting
<1> QED BY <1>3, <1>4 DEF Outstanding, Paid, Billed

LEMMA DeductionTypes ==
  ASSUME NEW invoice \in Int, NEW paid \in Int, NEW d \in Deductions(invoice, paid)
  PROVE  d \in Nat \ {0}
<1>1. PICK rate \in TdsRates : d = Rounded(invoice * rate, 1000) /\ d > 0
  BY DEF Deductions
<1>2. invoice * rate \in Int
  <2>1. rate \in Nat BY IngestAssumption
  <2> QED BY <2>1
<1> DEFINE m == invoice * rate
<1> HIDE DEF m
<1>3. Rounded(m, 1000) \in Int
  BY <1>2 DEF Rounded, m
<1> QED BY <1>1, <1>3 DEF m

LEMMA SettlingIsTyped ==
  ASSUME Keeping, Typed, NEW k \in Call, Sum(k) \/ RecogniseTds(k) \/ Mark(k)
  PROVE  Typed'
<1>1. pc[k] \in Projecting /\ pc[k] # "idle" /\ R(k) \in Reference
  BY DEF Sum, RecogniseTds, Mark, Projecting, Keeping, Sound, Roles
<1>2. UNCHANGED <<stored, customers, ledger, held, bounds>>
  BY DEF Sum, RecogniseTds, Mark, tables
<1>3. SUFFICES StacksTyped' /\ HistoryTyped'
  BY <1>2 DEF Typed, TablesTyped, BoundsTyped, bounds
<1>4. {"tds", "mark", "resum"} \subseteq PC \ {"insert"}
  BY DEF PC, Projecting
<1>5. CASE Sum(k)
  <2>1. PICK l \in {"tds", "mark"} : Goto(k, l)
    BY <1>5 DEF Sum
  <2>2. due' \in [Call -> Int] /\ UNCHANGED <<event, opened, queue, cont, history>>
    BY <1>1, <1>5, SumsAreInts DEF Sum, Typed, StacksTyped
  <2>3. StacksTyped'
    BY <1>4, <2>1, <2>2, GotoIsTyped DEF Typed, StacksTyped
  <2> QED BY <2>2, <2>3 DEF Typed, HistoryTyped, history
<1>6. CASE RecogniseTds(k)
  <2>1. CASE Step(k, "mark")
    BY <1>4, <2>1, StepIsTyped DEF Typed
  <2>2. CASE ~Step(k, "mark")
    <3>1. PICK d \in Deductions(Billed(R(k)), Paid(R(k))) :
                 /\ Enter(k, <<Entry("TDS_ADJUSTMENT", d, NoRef)>>, "resum")
                 /\ UNCHANGED <<event, opened, due, history>>
      BY <1>6, <2>2 DEF RecogniseTds
    <3> DEFINE e == Entry("TDS_ADJUSTMENT", d, NoRef)
    <3>2. d \in Nat \ {0}
      BY <1>1, SumsAreInts, DeductionTypes
    <3>3. e \in Offers /\ e.amount # 0
      BY <3>2, EntryTypes DEF Sign
    <3>4. Enter(k, <<e>>, "resum") BY <3>1
    <3> HIDE DEF e
    <3>5. <<e>> \in Seq(Offers) /\ \A i \in DOMAIN <<e>> : <<e>>[i].amount # 0
      BY <3>3
    <3>6. StacksTyped'
      BY <1>4, <3>1, <3>4, <3>5, EnterIsTyped DEF Typed, StacksTyped
    <3> QED BY <3>1, <3>6 DEF Typed, HistoryTyped, history
  <2> QED BY <2>1, <2>2
<1>7. CASE Mark(k)
  BY <1>1, <1>7, AcceptedIsTyped DEF Mark, Typed
<1> QED BY <1>5, <1>6, <1>7

LEMMA MovesAreTyped ==
  ASSUME Keeping, Ordered, Typed, NEW k \in Call, Moves(k)
  PROVE  Typed'
<1>1. CASE Fail(k)
  <2>1. StacksTyped' /\ HistoryTyped'
    BY <1>1, ThrownIsTyped DEF Fail, Typed
  <2>2. BoundsTyped'
    BY <1>1, IngestAssumption DEF Fail, Typed, BoundsTyped
  <2> QED BY <1>1, <2>1, <2>2 DEF Fail, Typed, TablesTyped, tables
<1> QED BY <1>1, ReceiverIsTyped, OpeningIsTyped, HoldingIsTyped, ApplyingIsTyped,
           AppendingIsTyped, DroppingIsTyped, SettlingIsTyped DEF Moves

\* Every variable of the webhook's way keeps its type, the sums included.
THEOREM TypeCorrect == Spec => []TypeOK
<1>1. Init => Typed
  <2> SUFFICES ASSUME Init PROVE Typed
    OBVIOUS
  <2>1. << >> \in Seq(Entries) /\ << >> \in Seq(Offers) /\ DOMAIN << >> = {}
    OBVIOUS
  <2>2. \A k \in Call : Worth(k)
    BY <2>1 DEF Init, Worth
  <2>3. TablesTyped
    BY <2>1 DEF Init, TablesTyped
  <2>4. StacksTyped
    BY <2>1, <2>2 DEF Init, StacksTyped, PC
  <2>5. HistoryTyped /\ BoundsTyped
    BY IngestAssumption DEF Init, HistoryTyped, BoundsTyped
  <2> QED BY <2>3, <2>4, <2>5 DEF Typed
<1>2. Keeping /\ Ordered /\ Typed /\ [Next]_vars => Typed'
  <2> SUFFICES ASSUME Keeping, Ordered, Typed, [Next]_vars PROVE Typed'
    OBVIOUS
  <2>1. CASE Next
    BY <2>1, NextIsAMove, MovesAreTyped
  <2>2. CASE UNCHANGED vars
    <3>1. \A k \in Call : Worth(k)'
      BY <2>2 DEF vars, stack, Typed, StacksTyped, Worth
    <3> QED BY <2>2, <3>1 DEF vars, tables, stack, history, bounds,
               Typed, TablesTyped, StacksTyped, HistoryTyped, BoundsTyped
  <2> QED BY <2>1, <2>2
<1>3. Ordered /\ Typed => TypeOK
  BY DEF Ordered, RowsTyped, Typed, TablesTyped, StacksTyped, HistoryTyped, BoundsTyped, TypeOK
<1> QED BY <1>1, <1>2, <1>3, KeepingIsInvariant, OrderedIsInvariant, PTL DEF Spec

===============================================================================
