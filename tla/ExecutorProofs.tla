---------------------------- MODULE ExecutorProofs ----------------------------
(***************************************************************************)
(* What the executor's drains keep: the types, the claims and the mutexes, *)
(* and then the two budgets that are kept by counting, the messages of a   *)
(* case and the attempts of an action.  Both are counted by a read, an     *)
(* await and a write, so both rest on who else may be between the two.     *)
(***************************************************************************)
EXTENDS Executor, FiniteSetTheorems, TLAPS

-----------------------------------------------------------------------------
\* The pieces every step of a drain is made of keep the types.

LEMMA RowWrites ==
  ASSUME RowsTypeOK, NEW a \in Action,
         \/ Enqueue(a) \/ Claim(a) \/ MarkSent(a) \/ MarkSuppressed(a)
         \/ Reschedule(a) \/ MarkRetry(a) \/ DeadLetter(a) \/ ComesDue(a)
  PROVE  RowsTypeOK'
<1>1. CASE Enqueue(a)
  BY <1>1 DEF RowsTypeOK, Status, Enqueue
<1>2. CASE Claim(a)
  BY <1>2 DEF RowsTypeOK, Status, Claim
<1>3. CASE MarkSent(a)
  BY <1>3 DEF RowsTypeOK, Status, MarkSent
<1>4. CASE MarkSuppressed(a)
  BY <1>4 DEF RowsTypeOK, Status, MarkSuppressed
<1>5. CASE Reschedule(a)
  BY <1>5 DEF RowsTypeOK, Status, Reschedule
<1>6. CASE MarkRetry(a)
  BY <1>6 DEF RowsTypeOK, Status, MarkRetry
<1>7. CASE DeadLetter(a)
  BY <1>7 DEF RowsTypeOK, Status, DeadLetter
<1>8. CASE ComesDue(a)
  BY <1>8 DEF RowsTypeOK, Status, ComesDue
<1>9. QED
  BY <1>1, <1>2, <1>3, <1>4, <1>5, <1>6, <1>7, <1>8

LEMMA CancelWrites ==
  ASSUME RowsTypeOK, NEW c \in Case, CancelPendingForCase(c)
  PROVE  RowsTypeOK'
BY DEF RowsTypeOK, Status, CancelPendingForCase

LEMMA Unwritten == RowsTypeOK /\ UNCHANGED rows => RowsTypeOK'
BY DEF RowsTypeOK, rows

LEMMA Unmoved ==
  /\ ConfigTypeOK /\ UNCHANGED config => ConfigTypeOK'
  /\ FactsTypeOK /\ UNCHANGED facts => FactsTypeOK'
  /\ StackTypeOK /\ UNCHANGED stack /\ UNCHANGED doomed /\ UNCHANGED misled => StackTypeOK'
  /\ CountsTypeOK /\ UNCHANGED contacts /\ UNCHANGED faults /\ UNCHANGED events
       => CountsTypeOK'
BY DEF ConfigTypeOK, config, FactsTypeOK, facts, cases, prefetched, StackTypeOK,
       stack, CountsTypeOK

LEMMA FinishTypes ==
  ASSUME StackTypeOK, CountsTypeOK, NEW d \in Drain, pc[d] \in Holding, Finish(d)
  PROVE  StackTypeOK' /\ CountsTypeOK'
<1>1. cur[d] \in Action
  BY DEF StackTypeOK
<1>2. seen' \in [Drain -> [Action -> Nat]]
  BY <1>1 DEF Finish, StackTypeOK
<1>3. \A e \in Drain : pc'[e] \in Holding <=> cur'[e] # None
  BY DEF Finish, Goto, StackTypeOK, PC, Holding, InTry
<1>4. pc' \in [Drain -> PC]
  BY DEF Finish, Goto, StackTypeOK, PC
<1>5. QED
  BY <1>2, <1>3, <1>4 DEF Finish, StackTypeOK, CountsTypeOK, Why

LEMMA StepTypes ==
  ASSUME StackTypeOK, CountsTypeOK, NEW d \in Drain, NEW l \in Holding,
         pc[d] \in Holding, Step(d, l)
  PROVE  StackTypeOK' /\ CountsTypeOK'
BY DEF Step, Goto, StackTypeOK, CountsTypeOK, PC, history

LEMMA DeadTypes ==
  ASSUME StackTypeOK, NEW S, Dead(S)
  PROVE  StackTypeOK'
<1>1. pc' \in [Drain -> PC]
  BY DEF Dead, StackTypeOK, PC
<1>2. \A e \in Drain : pc'[e] \in Holding <=> cur'[e] # None
  BY DEF Dead, StackTypeOK, PC, Holding, InTry
<1>3. seen' \in [Drain -> [Action -> Nat]]
  BY DEF Dead, StackTypeOK
<1>4. cur' \in [Drain -> Action \cup {None}] /\ batch' \in [Drain -> SUBSET Action]
  BY DEF Dead, StackTypeOK
<1>5. QED
  BY <1>1, <1>2, <1>3, <1>4 DEF Dead, StackTypeOK, Why

-----------------------------------------------------------------------------
\* What a decision cycle does to the maps of its process.
Prefetches(p) ==
  \/ \E c \in Case : FetchCase(p, c)
  \/ \E u \in Customer : FetchPerson(p, u)
  \/ Release(p)

\* It touches nothing else.
LEMMA PrefetchesOnly ==
  ASSUME NEW p \in Process, Prefetches(p)
  PROVE  UNCHANGED <<rows, config, cases, optedOut, halted, stack, history>>
BY DEF Prefetches, FetchCase, FetchPerson, Release

\* A row that was fetched was there before, or it is one as it is stored.
Older(p) ==
  /\ \A q \in Process : \A r \in caseRows'[q] :
       r \in caseRows[q] \/ (r.disputed <=> flag[r.case] = "disputed")
  /\ \A q \in Process : \A r \in people'[q] :
       r \in people[q] \/ (r.optedOut <=> optedOut[r.customer])

LEMMA FetchTypes ==
  ASSUME FactsTypeOK, NEW p \in Process, Prefetches(p)
  PROVE  FactsTypeOK' /\ Older(p)
<1> USE DEF CaseRow, Person
<1>1. CASE \E c \in Case : FetchCase(p, c)
  <2>1. PICK c \in Case : FetchCase(p, c)
    BY <1>1
  <2>2. CaseNow(c) \in CaseRow /\ CaseNow(c).case = c
        /\ (CaseNow(c).disputed <=> flag[c] = "disputed")
    BY DEF CaseNow, FactsTypeOK
  <2>3. caseRows' \in [Process -> SUBSET CaseRow] /\ UNCHANGED <<people, cases, optedOut, halted>>
    BY <2>1, <2>2 DEF FetchCase, FactsTypeOK
  <2>4. \A q \in Process : \A r \in caseRows'[q] : r \in caseRows[q] \/ r = CaseNow(c)
    BY <2>1 DEF FetchCase, FactsTypeOK
  <2>5. QED
    BY <2>2, <2>3, <2>4 DEF FactsTypeOK, Older, cases
<1>2. CASE \E u \in Customer : FetchPerson(p, u)
  <2>1. PICK u \in Customer : FetchPerson(p, u)
    BY <1>2
  <2>2. PersonNow(u) \in Person /\ PersonNow(u).customer = u
        /\ (PersonNow(u).optedOut <=> optedOut[u])
    BY DEF PersonNow, FactsTypeOK
  <2>3. people' \in [Process -> SUBSET Person] /\ UNCHANGED <<caseRows, cases, optedOut, halted>>
    BY <2>1, <2>2 DEF FetchPerson, FactsTypeOK
  <2>4. \A q \in Process : \A r \in people'[q] : r \in people[q] \/ r = PersonNow(u)
    BY <2>1 DEF FetchPerson, FactsTypeOK
  <2>5. QED
    BY <2>2, <2>3, <2>4 DEF FactsTypeOK, Older, cases
<1>3. CASE Release(p)
  <2>1. \A q \in Process : caseRows'[q] \subseteq caseRows[q] /\ people'[q] \subseteq people[q]
    BY <1>3 DEF Release, FactsTypeOK
  <2>2. caseRows' \in [Process -> SUBSET CaseRow] /\ people' \in [Process -> SUBSET Person]
    BY <1>3 DEF Release, FactsTypeOK
  <2>3. QED
    BY <1>3, <2>1, <2>2 DEF Release, FactsTypeOK, Older, cases
<1>4. QED
  BY <1>1, <1>2, <1>3 DEF Prefetches

-----------------------------------------------------------------------------
\* The type invariant, for any number of rows, drains, processes and cases:
\* in particular a drain is inside execute exactly while it holds a row.
THEOREM TypeCorrect == Spec => []TypeOK
<1> USE CaseOfAssumption, ExecutorAssumption
<1>1. Init => TypeOK
  BY DEF Init, RowsInit, TypeOK, RowsTypeOK, Status, ConfigTypeOK, FactsTypeOK,
         StackTypeOK, CountsTypeOK, PC, Holding, InTry, Why
<1>2. TypeOK /\ [Next]_vars => TypeOK'
  <2> SUFFICES ASSUME TypeOK, [Next]_vars PROVE TypeOK'
    OBVIOUS
  <2> USE DEF TypeOK
  <2>1. UNCHANGED vars => TypeOK'
    BY Unwritten, Unmoved DEF vars, history
  <2>2. ASSUME NEW d \in Drain, StartDrain(d) PROVE TypeOK'
    BY <2>2, Unwritten, Unmoved DEF StartDrain, history, StackTypeOK,
       RowsTypeOK, Due
  <2>3. ASSUME NEW d \in Drain, HaltDrain(d) PROVE TypeOK'
    BY <2>3, Unwritten, Unmoved DEF HaltDrain, history, StackTypeOK
  <2>4. ASSUME NEW d \in Drain, NEW a \in Action, ClaimRow(d, a) PROVE TypeOK'
    BY <2>4, RowWrites, Unmoved DEF ClaimRow, TakeRow, Goto, MustNotAct,
       StackTypeOK, FactsTypeOK, PC, Holding, InTry
  <2>5. ASSUME NEW d \in Drain, NEW a \in Action, SkipRow(d, a) PROVE TypeOK'
    BY <2>5, Unwritten, Unmoved DEF SkipRow, TakeRow, StackTypeOK, history
  <2>6. ASSUME NEW d \in Drain, LoadStop(d) PROVE TypeOK'
    <3>1. pc[d] \in Holding /\ cur[d] \in Action
      BY <2>6 DEF LoadStop, Holding, StackTypeOK
    <3>2. UNCHANGED <<config, facts>>
      BY <2>6 DEF LoadStop
    <3>3. PICK v, row : Verdict(d, v) \/ Continue(d, row)
      BY <2>6 DEF LoadStop
    <3>4. CASE Verdict(d, v) /\ v # "DEFER"
      <4>1. StackTypeOK'
        BY <3>1, <3>4 DEF Verdict, Goto, StackTypeOK, PC, Holding, Why, history
      <4>2. CountsTypeOK'
        BY <3>4, Unmoved DEF Verdict, history
      <4>3. RowsTypeOK'
        BY <3>1, <3>4, RowWrites DEF Verdict
      <4>4. QED
        BY <4>1, <4>2, <4>3, <3>2, Unmoved
    <3>5. CASE Verdict(d, v) /\ v = "DEFER"
      BY <3>1, <3>2, <3>5, FinishTypes, RowWrites, Unmoved DEF Verdict
    <3>6. CASE Continue(d, row)
      <4>1. (row.touches < touches[row.case]) \in BOOLEAN
        OBVIOUS
      <4>2. StackTypeOK'
        BY <3>1, <3>6, <4>1 DEF Continue, Goto, StackTypeOK, PC, Holding
      <4>3. QED
        BY <3>2, <3>6, <4>2, Unwritten, Unmoved DEF Continue
    <3>7. QED
      BY <3>3, <3>4, <3>5, <3>6
  <2>7. ASSUME NEW d \in Drain, CancelStopped(d) PROVE TypeOK'
    <3>1. pc[d] \in Holding /\ cur[d] \in Action
      BY <2>7 DEF CancelStopped, Holding, InTry, StackTypeOK
    <3>2. QED
      BY <2>7, <3>1, CancelWrites, StepTypes, Unmoved DEF CancelStopped, Holding
  <2>8. ASSUME NEW d \in Drain, RecordStop(d) PROVE TypeOK'
    <3>1. pc[d] \in Holding /\ cur[d] \in Action
      BY <2>8 DEF RecordStop, Holding, InTry, StackTypeOK
    <3>2. FactsTypeOK'
      BY <2>8, <3>1 DEF RecordStop, FactsTypeOK, prefetched
    <3>3. QED
      BY <2>8, <3>1, <3>2, FinishTypes, Unwritten, Unmoved DEF RecordStop
  <2>9. ASSUME NEW d \in Drain, LoadPolicy(d) PROVE TypeOK'
    <3>1. pc[d] \in Holding /\ cur[d] \in Action
      BY <2>9 DEF LoadPolicy, Holding, InTry, StackTypeOK
    <3>2. CASE Step(d, "call") /\ UNCHANGED rows
      BY <2>9, <3>1, <3>2, StepTypes, Unwritten, Unmoved DEF LoadPolicy,
         Holding, InTry
    <3>3. CASE MarkSuppressed(cur[d]) /\ Finish(d)
      BY <2>9, <3>1, <3>3, FinishTypes, RowWrites, Unmoved DEF LoadPolicy
    <3>4. CASE Reschedule(cur[d]) /\ Finish(d)
      BY <2>9, <3>1, <3>4, FinishTypes, RowWrites, Unmoved DEF LoadPolicy
    <3>5. QED
      BY <2>9, <3>2, <3>3, <3>4 DEF LoadPolicy
  <2>10. ASSUME NEW d \in Drain, Call(d) PROVE TypeOK'
    <3>1. pc[d] \in Holding /\ cur[d] \in Action
      BY <2>10 DEF Call, Holding, InTry, StackTypeOK
    <3>2. PICK l \in {"accepted", "fail"}, o \in BOOLEAN : Calling(d, l, o)
      BY <2>10 DEF Call
    <3>3. StackTypeOK'
      BY <3>1, <3>2 DEF Calling, Goto, StackTypeOK, PC, Holding, InTry, Why
    <3>4. QED
      BY <3>2, <3>3, Unwritten, Unmoved DEF Calling
  <2>11. ASSUME NEW d \in Drain, Withhold(d) PROVE TypeOK'
    <3>1. pc[d] \in Holding /\ cur[d] \in Action
      BY <2>11 DEF Withhold, Holding, InTry, StackTypeOK
    <3>2. QED
      BY <2>11, <3>1, FinishTypes, RowWrites, Unmoved DEF Withhold
  <2>12. ASSUME NEW d \in Drain, GiveUp(d) PROVE TypeOK'
    <3>1. pc[d] \in Holding /\ cur[d] \in Action
      BY <2>12 DEF GiveUp, Holding, InTry, StackTypeOK
    <3>2. QED
      BY <2>12, <3>1, FinishTypes, RowWrites, Unmoved DEF GiveUp
  <2>13. ASSUME NEW d \in Drain, CallNothing(d) PROVE TypeOK'
    <3>1. pc[d] \in Holding /\ cur[d] \in Action
      BY <2>13 DEF CallNothing, Holding, InTry, StackTypeOK
    <3>2. QED
      BY <2>13, <3>1, StepTypes, Unwritten, Unmoved DEF CallNothing, Holding,
         InTry
  <2>14. ASSUME NEW d \in Drain, RecordSent(d) PROVE TypeOK'
    <3>1. pc[d] \in Holding /\ cur[d] \in Action
      BY <2>14 DEF RecordSent, Holding, InTry, StackTypeOK
    <3>2. StackTypeOK' /\ CountsTypeOK'
      BY <2>14, <3>1, StepTypes, FinishTypes DEF RecordSent, Holding, InTry
    <3>3. QED
      BY <2>14, <3>1, <3>2, RowWrites, Unmoved DEF RecordSent
  <2>15. ASSUME NEW d \in Drain, InsertContact(d) PROVE TypeOK'
    <3>1. pc[d] \in Holding /\ cur[d] \in Action
      BY <2>15 DEF InsertContact, Holding, InTry, StackTypeOK
    <3>2. touches[CaseOf[cur[d]]] \in Nat
      BY <3>1 DEF FactsTypeOK
    <3>3. StackTypeOK'
      BY <2>15, <3>1, <3>2 DEF InsertContact, Goto, StackTypeOK, PC, Holding,
         InTry
    <3>4. CountsTypeOK'
      BY <2>15, <3>1 DEF InsertContact, CountsTypeOK
    <3>5. QED
      BY <2>15, <3>3, <3>4, Unwritten, Unmoved DEF InsertContact
  <2>16. ASSUME NEW d \in Drain, WriteTouches(d) PROVE TypeOK'
    <3>1. pc[d] \in Holding /\ cur[d] \in Action
      BY <2>16 DEF WriteTouches, Holding, InTry, StackTypeOK
    <3>2. FactsTypeOK'
      BY <2>16, <3>1 DEF WriteTouches, FactsTypeOK, StackTypeOK, prefetched
    <3>3. StackTypeOK' /\ CountsTypeOK'
      BY <2>16, <3>1, StepTypes, FinishTypes DEF WriteTouches, Holding, InTry
    <3>4. QED
      BY <2>16, <3>2, <3>3, Unwritten, Unmoved DEF WriteTouches
  <2>17. ASSUME NEW d \in Drain, StoreOptOut(d) PROVE TypeOK'
    <3>1. pc[d] \in Holding /\ cur[d] \in Action
      BY <2>17 DEF StoreOptOut, Holding, InTry, StackTypeOK
    <3>2. FactsTypeOK'
      BY <2>17, <3>1 DEF StoreOptOut, FactsTypeOK, cases, prefetched
    <3>3. QED
      BY <2>17, <3>1, <3>2, StepTypes, Unwritten, Unmoved DEF StoreOptOut,
         Holding, InTry
  <2>18. ASSUME NEW d \in Drain, CancelOptedOut(d) PROVE TypeOK'
    <3>1. pc[d] \in Holding /\ cur[d] \in Action
      BY <2>18 DEF CancelOptedOut, Holding, InTry, StackTypeOK
    <3>2. QED
      BY <2>18, <3>1, FinishTypes, CancelWrites, Unmoved DEF CancelOptedOut
  <2>19. ASSUME NEW d \in Drain, HandleFailure(d) PROVE TypeOK'
    <3>1. pc[d] \in Holding /\ cur[d] \in Action
      BY <2>19 DEF HandleFailure, Holding, InTry, StackTypeOK
    <3>2. QED
      BY <2>19, <3>1, FinishTypes, RowWrites, Unmoved DEF HandleFailure
  <2>20. ASSUME NEW d \in Drain, ThrowInDispatch(d) PROVE TypeOK'
    <3>1. pc[d] \in Holding /\ cur[d] \in Action
      BY <2>20 DEF ThrowInDispatch, Holding, InTry, StackTypeOK
    <3>2. StackTypeOK'
      BY <2>20, <3>1 DEF ThrowInDispatch, Goto, StackTypeOK, PC, Holding
    <3>3. CountsTypeOK'
      BY <2>20 DEF ThrowInDispatch, Fault, CountsTypeOK
    <3>4. QED
      BY <2>20, <3>2, <3>3, Unwritten, Unmoved DEF ThrowInDispatch
  <2>21. ASSUME NEW d \in Drain, Abort(d) PROVE TypeOK'
    <3>1. PICK S : Dead(S)
      BY <2>21 DEF Abort
    <3>2. StackTypeOK'
      BY <3>1, DeadTypes
    <3>3. CountsTypeOK'
      BY <2>21, <3>1 DEF Abort, Fault, Dead, CountsTypeOK
    <3>4. QED
      BY <2>21, <3>1, <3>2, <3>3, Unwritten, Unmoved DEF Abort, Dead, facts
  <2>22. ASSUME NEW p \in Process, Crash(p) PROVE TypeOK'
    <3>1. PICK S : Dead(S)
      BY <2>22 DEF Crash
    <3>2. StackTypeOK'
      BY <3>1, DeadTypes
    <3>3. CountsTypeOK'
      BY <2>22, <3>1 DEF Crash, Fault, Dead, CountsTypeOK
    <3>4. FactsTypeOK'
      BY <2>22, <3>1 DEF Crash, Dead, FactsTypeOK, cases
    <3>5. QED
      BY <3>1, <3>2, <3>3, <3>4, Unwritten, Unmoved DEF Dead
  <2>23. ASSUME NEW a \in Action, Submit(a) PROVE TypeOK'
    BY <2>23, RowWrites, Unmoved DEF Submit, history
  <2>24. ASSUME NEW a \in Action, Wait(a) PROVE TypeOK'
    BY <2>24, RowWrites, Unmoved DEF Wait, history
  <2>25. ASSUME NEW c \in Case, Pay(c) PROVE TypeOK'
    BY <2>25, Unwritten, Unmoved DEF Pay, Event, FactsTypeOK, CountsTypeOK, prefetched
  <2>26. ASSUME NEW c \in Case, Reply(c) PROVE TypeOK'
    BY <2>26, Unwritten, Unmoved DEF Reply, Event, FactsTypeOK, CountsTypeOK, prefetched
  <2>27. ASSUME NEW p \in Process, ReadSwitches(p) PROVE TypeOK'
    BY <2>27, Unwritten, Unmoved DEF ReadSwitches, Event, FactsTypeOK,
       CountsTypeOK, cases, prefetched
  <2>28. ASSUME NEW p \in Process, Prefetches(p) PROVE TypeOK'
    BY <2>28, FetchTypes, Unwritten, Unmoved, PrefetchesOnly DEF history
  <2>29. QED
    BY <2>1, <2>2, <2>3, <2>4, <2>5, <2>6, <2>7, <2>8, <2>9, <2>10, <2>11,
       <2>12, <2>13, <2>14, <2>15, <2>16, <2>17, <2>18, <2>19, <2>20, <2>21,
       <2>22, <2>23, <2>24, <2>25, <2>26, <2>27, <2>28 DEF Next, Advance, Prefetches
<1>3. QED
  BY <1>1, <1>2, PTL DEF Spec

-----------------------------------------------------------------------------
\* What a drain does with the row it holds.
Works(d) ==
  \/ LoadStop(d)
  \/ CancelStopped(d)
  \/ RecordStop(d)
  \/ LoadPolicy(d)
  \/ Call(d)
  \/ Withhold(d)
  \/ GiveUp(d)
  \/ CallNothing(d)
  \/ RecordSent(d)
  \/ InsertContact(d)
  \/ WriteTouches(d)
  \/ StoreOptOut(d)
  \/ CancelOptedOut(d)
  \/ HandleFailure(d)
  \/ ThrowInDispatch(d)

\* It moves no stack but its own, writes to its own row and otherwise cancels
\* rows that wait, and while it goes on its row reads as it left it; what it
\* lets go is waiting or closed.
OwnWrites(d) ==
  /\ pc[d] \in Holding /\ cur[d] \in Action
  /\ \A e \in Drain \ {d} : pc'[e] = pc[e] /\ cur'[e] = cur[e]
  /\ \A a \in Action \ {cur[d]} :
       status'[a] = status[a] \/ (status[a] = "SCHEDULED" /\ status'[a] = "CANCELLED")
  /\ cur'[d] \in {cur[d], None}
  /\ pc'[d] \in Holding => cur'[d] = cur[d] /\ status'[cur[d]] \in RowAt(pc'[d])
  /\ pc'[d] \notin Holding => status'[cur[d]] \notin {"ABSENT", "IN_FLIGHT"}

LEMMA WorkIsOwn ==
  ASSUME TypeOK, ClaimExclusive, NEW d \in Drain, Works(d)
  PROVE  OwnWrites(d)
<1> USE CaseOfAssumption, ExecutorAssumption
<1>1. CASE LoadStop(d)
  <2>1. pc[d] \in Holding /\ cur[d] \in Action /\ status[cur[d]] \in RowAt(pc[d])
    BY <1>1 DEF LoadStop, Holding, InTry, TypeOK, StackTypeOK, ClaimExclusive
  <2>2. \A e \in Drain \ {d} : pc'[e] = pc[e] /\ cur'[e] = cur[e]
    BY <1>1 DEF LoadStop, Verdict, Continue, MarkSuppressed, Reschedule, Goto, Finish,
       TypeOK, StackTypeOK
  <2>3. \A a \in Action \ {cur[d]} :
          status'[a] = status[a] \/ (status[a] = "SCHEDULED" /\ status'[a] = "CANCELLED")
    BY <1>1 DEF LoadStop, Verdict, Continue, MarkSuppressed, Reschedule, rows, TypeOK,
       RowsTypeOK
  <2>4. cur'[d] \in {cur[d], None}
    BY <1>1 DEF LoadStop, Verdict, Continue, MarkSuppressed, Reschedule, Finish, TypeOK,
       StackTypeOK
  <2>5. /\ pc'[d] \in Holding => cur'[d] = cur[d] /\ status'[cur[d]] \in RowAt(pc'[d])
        /\ pc'[d] \notin Holding => status'[cur[d]] \notin {"ABSENT", "IN_FLIGHT"}
    BY <1>1, <2>1 DEF LoadStop, Verdict, Continue, MarkSuppressed, Reschedule, Goto,
       Finish, rows, RowAt, Holding,
       InTry, TypeOK, RowsTypeOK, StackTypeOK
  <2>6. QED
    BY <2>1, <2>2, <2>3, <2>4, <2>5 DEF OwnWrites
<1>2. CASE CancelStopped(d)
  <2>1. pc[d] \in Holding /\ cur[d] \in Action /\ status[cur[d]] \in RowAt(pc[d])
    BY <1>2 DEF CancelStopped, Holding, InTry, TypeOK, StackTypeOK,
       ClaimExclusive
  <2>2. \A e \in Drain \ {d} : pc'[e] = pc[e] /\ cur'[e] = cur[e]
    BY <1>2 DEF CancelStopped, CancelPendingForCase, Goto, Step, Finish,
       TypeOK, StackTypeOK
  <2>3. \A a \in Action \ {cur[d]} :
          status'[a] = status[a] \/ (status[a] = "SCHEDULED" /\ status'[a] = "CANCELLED")
    BY <1>2 DEF CancelStopped, CancelPendingForCase, rows, TypeOK, RowsTypeOK
  <2>4. cur'[d] \in {cur[d], None}
    BY <1>2 DEF CancelStopped, CancelPendingForCase, Step, Finish, TypeOK,
       StackTypeOK
  <2>5. /\ pc'[d] \in Holding => cur'[d] = cur[d] /\ status'[cur[d]] \in RowAt(pc'[d])
        /\ pc'[d] \notin Holding => status'[cur[d]] \notin {"ABSENT", "IN_FLIGHT"}
    BY <1>2, <2>1 DEF CancelStopped, CancelPendingForCase, Goto, Step,
       Finish, rows, RowAt, Holding,
       InTry, TypeOK, RowsTypeOK, StackTypeOK
  <2>6. QED
    BY <2>1, <2>2, <2>3, <2>4, <2>5 DEF OwnWrites
<1>3. CASE RecordStop(d)
  <2>1. pc[d] \in Holding /\ cur[d] \in Action /\ status[cur[d]] \in RowAt(pc[d])
    BY <1>3 DEF RecordStop, Holding, InTry, TypeOK, StackTypeOK, ClaimExclusive
  <2>2. \A e \in Drain \ {d} : pc'[e] = pc[e] /\ cur'[e] = cur[e]
    BY <1>3 DEF RecordStop, Goto, Step, Finish, TypeOK, StackTypeOK
  <2>3. \A a \in Action \ {cur[d]} :
          status'[a] = status[a] \/ (status[a] = "SCHEDULED" /\ status'[a] = "CANCELLED")
    BY <1>3 DEF RecordStop, rows, TypeOK, RowsTypeOK
  <2>4. cur'[d] \in {cur[d], None}
    BY <1>3 DEF RecordStop, Step, Finish, TypeOK, StackTypeOK
  <2>5. /\ pc'[d] \in Holding => cur'[d] = cur[d] /\ status'[cur[d]] \in RowAt(pc'[d])
        /\ pc'[d] \notin Holding => status'[cur[d]] \notin {"ABSENT", "IN_FLIGHT"}
    BY <1>3, <2>1 DEF RecordStop, Goto, Step, Finish, rows, RowAt, Holding,
       InTry, TypeOK, RowsTypeOK, StackTypeOK
  <2>6. QED
    BY <2>1, <2>2, <2>3, <2>4, <2>5 DEF OwnWrites
<1>4. CASE LoadPolicy(d)
  <2>1. pc[d] \in Holding /\ cur[d] \in Action /\ status[cur[d]] \in RowAt(pc[d])
    BY <1>4 DEF LoadPolicy, Holding, InTry, TypeOK, StackTypeOK, ClaimExclusive
  <2>2. \A e \in Drain \ {d} : pc'[e] = pc[e] /\ cur'[e] = cur[e]
    BY <1>4 DEF LoadPolicy, MarkSuppressed, Reschedule, Goto, Step, Finish,
       TypeOK, StackTypeOK
  <2>3. \A a \in Action \ {cur[d]} :
          status'[a] = status[a] \/ (status[a] = "SCHEDULED" /\ status'[a] = "CANCELLED")
    BY <1>4 DEF LoadPolicy, MarkSuppressed, Reschedule, rows, TypeOK, RowsTypeOK
  <2>4. cur'[d] \in {cur[d], None}
    BY <1>4 DEF LoadPolicy, MarkSuppressed, Reschedule, Step, Finish, TypeOK,
       StackTypeOK
  <2>5. /\ pc'[d] \in Holding => cur'[d] = cur[d] /\ status'[cur[d]] \in RowAt(pc'[d])
        /\ pc'[d] \notin Holding => status'[cur[d]] \notin {"ABSENT", "IN_FLIGHT"}
    BY <1>4, <2>1 DEF LoadPolicy, MarkSuppressed, Reschedule, Goto, Step,
       Finish, rows, RowAt, Holding,
       InTry, TypeOK, RowsTypeOK, StackTypeOK
  <2>6. QED
    BY <2>1, <2>2, <2>3, <2>4, <2>5 DEF OwnWrites
<1>5. CASE Call(d)
  <2>1. pc[d] \in Holding /\ cur[d] \in Action /\ status[cur[d]] \in RowAt(pc[d])
    BY <1>5 DEF Call, Holding, InTry, TypeOK, StackTypeOK, ClaimExclusive
  <2>2. \A e \in Drain \ {d} : pc'[e] = pc[e] /\ cur'[e] = cur[e]
    BY <1>5 DEF Call, Calling, Goto, Step, Finish, TypeOK, StackTypeOK
  <2>3. \A a \in Action \ {cur[d]} :
          status'[a] = status[a] \/ (status[a] = "SCHEDULED" /\ status'[a] = "CANCELLED")
    BY <1>5 DEF Call, Calling, rows, TypeOK, RowsTypeOK
  <2>4. cur'[d] \in {cur[d], None}
    BY <1>5 DEF Call, Calling, Step, Finish, TypeOK, StackTypeOK
  <2>5. /\ pc'[d] \in Holding => cur'[d] = cur[d] /\ status'[cur[d]] \in RowAt(pc'[d])
        /\ pc'[d] \notin Holding => status'[cur[d]] \notin {"ABSENT", "IN_FLIGHT"}
    BY <1>5, <2>1 DEF Call, Calling, Goto, Step, Finish, rows, RowAt, Holding,
       InTry, TypeOK, RowsTypeOK, StackTypeOK
  <2>6. QED
    BY <2>1, <2>2, <2>3, <2>4, <2>5 DEF OwnWrites
<1>6. CASE Withhold(d)
  <2>1. pc[d] \in Holding /\ cur[d] \in Action /\ status[cur[d]] \in RowAt(pc[d])
    BY <1>6 DEF Withhold, Holding, InTry, TypeOK, StackTypeOK, ClaimExclusive
  <2>2. \A e \in Drain \ {d} : pc'[e] = pc[e] /\ cur'[e] = cur[e]
    BY <1>6 DEF Withhold, MarkSuppressed, Goto, Step, Finish, TypeOK,
       StackTypeOK
  <2>3. \A a \in Action \ {cur[d]} :
          status'[a] = status[a] \/ (status[a] = "SCHEDULED" /\ status'[a] = "CANCELLED")
    BY <1>6 DEF Withhold, MarkSuppressed, rows, TypeOK, RowsTypeOK
  <2>4. cur'[d] \in {cur[d], None}
    BY <1>6 DEF Withhold, MarkSuppressed, Step, Finish, TypeOK, StackTypeOK
  <2>5. /\ pc'[d] \in Holding => cur'[d] = cur[d] /\ status'[cur[d]] \in RowAt(pc'[d])
        /\ pc'[d] \notin Holding => status'[cur[d]] \notin {"ABSENT", "IN_FLIGHT"}
    BY <1>6, <2>1 DEF Withhold, MarkSuppressed, Goto, Step, Finish, rows,
       RowAt, Holding,
       InTry, TypeOK, RowsTypeOK, StackTypeOK
  <2>6. QED
    BY <2>1, <2>2, <2>3, <2>4, <2>5 DEF OwnWrites
<1>7. CASE GiveUp(d)
  <2>1. pc[d] \in Holding /\ cur[d] \in Action /\ status[cur[d]] \in RowAt(pc[d])
    BY <1>7 DEF GiveUp, Holding, InTry, TypeOK, StackTypeOK, ClaimExclusive
  <2>2. \A e \in Drain \ {d} : pc'[e] = pc[e] /\ cur'[e] = cur[e]
    BY <1>7 DEF GiveUp, DeadLetter, Goto, Step, Finish, TypeOK, StackTypeOK
  <2>3. \A a \in Action \ {cur[d]} :
          status'[a] = status[a] \/ (status[a] = "SCHEDULED" /\ status'[a] = "CANCELLED")
    BY <1>7 DEF GiveUp, DeadLetter, rows, TypeOK, RowsTypeOK
  <2>4. cur'[d] \in {cur[d], None}
    BY <1>7 DEF GiveUp, DeadLetter, Step, Finish, TypeOK, StackTypeOK
  <2>5. /\ pc'[d] \in Holding => cur'[d] = cur[d] /\ status'[cur[d]] \in RowAt(pc'[d])
        /\ pc'[d] \notin Holding => status'[cur[d]] \notin {"ABSENT", "IN_FLIGHT"}
    BY <1>7, <2>1 DEF GiveUp, DeadLetter, Goto, Step, Finish, rows, RowAt,
       Holding,
       InTry, TypeOK, RowsTypeOK, StackTypeOK
  <2>6. QED
    BY <2>1, <2>2, <2>3, <2>4, <2>5 DEF OwnWrites
<1>8. CASE CallNothing(d)
  <2>1. pc[d] \in Holding /\ cur[d] \in Action /\ status[cur[d]] \in RowAt(pc[d])
    BY <1>8 DEF CallNothing, Holding, InTry, TypeOK, StackTypeOK,
       ClaimExclusive
  <2>2. \A e \in Drain \ {d} : pc'[e] = pc[e] /\ cur'[e] = cur[e]
    BY <1>8 DEF CallNothing, Goto, Step, Finish, TypeOK, StackTypeOK
  <2>3. \A a \in Action \ {cur[d]} :
          status'[a] = status[a] \/ (status[a] = "SCHEDULED" /\ status'[a] = "CANCELLED")
    BY <1>8 DEF CallNothing, rows, TypeOK, RowsTypeOK
  <2>4. cur'[d] \in {cur[d], None}
    BY <1>8 DEF CallNothing, Step, Finish, TypeOK, StackTypeOK
  <2>5. /\ pc'[d] \in Holding => cur'[d] = cur[d] /\ status'[cur[d]] \in RowAt(pc'[d])
        /\ pc'[d] \notin Holding => status'[cur[d]] \notin {"ABSENT", "IN_FLIGHT"}
    BY <1>8, <2>1 DEF CallNothing, Goto, Step, Finish, rows, RowAt, Holding,
       InTry, TypeOK, RowsTypeOK, StackTypeOK
  <2>6. QED
    BY <2>1, <2>2, <2>3, <2>4, <2>5 DEF OwnWrites
<1>9. CASE RecordSent(d)
  <2>1. pc[d] \in Holding /\ cur[d] \in Action /\ status[cur[d]] \in RowAt(pc[d])
    BY <1>9 DEF RecordSent, Holding, InTry, TypeOK, StackTypeOK, ClaimExclusive
  <2>2. \A e \in Drain \ {d} : pc'[e] = pc[e] /\ cur'[e] = cur[e]
    BY <1>9 DEF RecordSent, MarkSent, Goto, Step, Finish, TypeOK, StackTypeOK
  <2>3. \A a \in Action \ {cur[d]} :
          status'[a] = status[a] \/ (status[a] = "SCHEDULED" /\ status'[a] = "CANCELLED")
    BY <1>9 DEF RecordSent, MarkSent, rows, TypeOK, RowsTypeOK
  <2>4. cur'[d] \in {cur[d], None}
    BY <1>9 DEF RecordSent, MarkSent, Step, Finish, TypeOK, StackTypeOK
  <2>5. /\ pc'[d] \in Holding => cur'[d] = cur[d] /\ status'[cur[d]] \in RowAt(pc'[d])
        /\ pc'[d] \notin Holding => status'[cur[d]] \notin {"ABSENT", "IN_FLIGHT"}
    BY <1>9, <2>1 DEF RecordSent, MarkSent, Goto, Step, Finish, rows, RowAt,
       Holding,
       InTry, TypeOK, RowsTypeOK, StackTypeOK
  <2>6. QED
    BY <2>1, <2>2, <2>3, <2>4, <2>5 DEF OwnWrites
<1>10. CASE InsertContact(d)
  <2>1. pc[d] \in Holding /\ cur[d] \in Action /\ status[cur[d]] \in RowAt(pc[d])
    BY <1>10 DEF InsertContact, Holding, InTry, TypeOK, StackTypeOK,
       ClaimExclusive
  <2>2. \A e \in Drain \ {d} : pc'[e] = pc[e] /\ cur'[e] = cur[e]
    BY <1>10 DEF InsertContact, Goto, Step, Finish, TypeOK, StackTypeOK
  <2>3. \A a \in Action \ {cur[d]} :
          status'[a] = status[a] \/ (status[a] = "SCHEDULED" /\ status'[a] = "CANCELLED")
    BY <1>10 DEF InsertContact, rows, TypeOK, RowsTypeOK
  <2>4. cur'[d] \in {cur[d], None}
    BY <1>10 DEF InsertContact, Step, Finish, TypeOK, StackTypeOK
  <2>5. /\ pc'[d] \in Holding => cur'[d] = cur[d] /\ status'[cur[d]] \in RowAt(pc'[d])
        /\ pc'[d] \notin Holding => status'[cur[d]] \notin {"ABSENT", "IN_FLIGHT"}
    BY <1>10, <2>1 DEF InsertContact, Goto, Step, Finish, rows, RowAt, Holding,
       InTry, TypeOK, RowsTypeOK, StackTypeOK
  <2>6. QED
    BY <2>1, <2>2, <2>3, <2>4, <2>5 DEF OwnWrites
<1>11. CASE WriteTouches(d)
  <2>1. pc[d] \in Holding /\ cur[d] \in Action /\ status[cur[d]] \in RowAt(pc[d])
    BY <1>11 DEF WriteTouches, Holding, InTry, TypeOK, StackTypeOK,
       ClaimExclusive
  <2>2. \A e \in Drain \ {d} : pc'[e] = pc[e] /\ cur'[e] = cur[e]
    BY <1>11 DEF WriteTouches, Goto, Step, Finish, TypeOK, StackTypeOK
  <2>3. \A a \in Action \ {cur[d]} :
          status'[a] = status[a] \/ (status[a] = "SCHEDULED" /\ status'[a] = "CANCELLED")
    BY <1>11 DEF WriteTouches, rows, TypeOK, RowsTypeOK
  <2>4. cur'[d] \in {cur[d], None}
    BY <1>11 DEF WriteTouches, Step, Finish, TypeOK, StackTypeOK
  <2>5. /\ pc'[d] \in Holding => cur'[d] = cur[d] /\ status'[cur[d]] \in RowAt(pc'[d])
        /\ pc'[d] \notin Holding => status'[cur[d]] \notin {"ABSENT", "IN_FLIGHT"}
    BY <1>11, <2>1 DEF WriteTouches, Goto, Step, Finish, rows, RowAt, Holding,
       InTry, TypeOK, RowsTypeOK, StackTypeOK
  <2>6. QED
    BY <2>1, <2>2, <2>3, <2>4, <2>5 DEF OwnWrites
<1>12. CASE StoreOptOut(d)
  <2>1. pc[d] \in Holding /\ cur[d] \in Action /\ status[cur[d]] \in RowAt(pc[d])
    BY <1>12 DEF StoreOptOut, Holding, InTry, TypeOK, StackTypeOK,
       ClaimExclusive
  <2>2. \A e \in Drain \ {d} : pc'[e] = pc[e] /\ cur'[e] = cur[e]
    BY <1>12 DEF StoreOptOut, Goto, Step, Finish, TypeOK, StackTypeOK
  <2>3. \A a \in Action \ {cur[d]} :
          status'[a] = status[a] \/ (status[a] = "SCHEDULED" /\ status'[a] = "CANCELLED")
    BY <1>12 DEF StoreOptOut, rows, TypeOK, RowsTypeOK
  <2>4. cur'[d] \in {cur[d], None}
    BY <1>12 DEF StoreOptOut, Step, Finish, TypeOK, StackTypeOK
  <2>5. /\ pc'[d] \in Holding => cur'[d] = cur[d] /\ status'[cur[d]] \in RowAt(pc'[d])
        /\ pc'[d] \notin Holding => status'[cur[d]] \notin {"ABSENT", "IN_FLIGHT"}
    BY <1>12, <2>1 DEF StoreOptOut, Goto, Step, Finish, rows, RowAt, Holding,
       InTry, TypeOK, RowsTypeOK, StackTypeOK
  <2>6. QED
    BY <2>1, <2>2, <2>3, <2>4, <2>5 DEF OwnWrites
<1>13. CASE CancelOptedOut(d)
  <2>1. pc[d] \in Holding /\ cur[d] \in Action /\ status[cur[d]] \in RowAt(pc[d])
    BY <1>13 DEF CancelOptedOut, Holding, InTry, TypeOK, StackTypeOK,
       ClaimExclusive
  <2>2. \A e \in Drain \ {d} : pc'[e] = pc[e] /\ cur'[e] = cur[e]
    BY <1>13 DEF CancelOptedOut, CancelPendingForCase, Goto, Step, Finish,
       TypeOK, StackTypeOK
  <2>3. \A a \in Action \ {cur[d]} :
          status'[a] = status[a] \/ (status[a] = "SCHEDULED" /\ status'[a] = "CANCELLED")
    BY <1>13 DEF CancelOptedOut, CancelPendingForCase, rows, TypeOK, RowsTypeOK
  <2>4. cur'[d] \in {cur[d], None}
    BY <1>13 DEF CancelOptedOut, CancelPendingForCase, Step, Finish, TypeOK,
       StackTypeOK
  <2>5. /\ pc'[d] \in Holding => cur'[d] = cur[d] /\ status'[cur[d]] \in RowAt(pc'[d])
        /\ pc'[d] \notin Holding => status'[cur[d]] \notin {"ABSENT", "IN_FLIGHT"}
    BY <1>13, <2>1 DEF CancelOptedOut, CancelPendingForCase, Goto, Step,
       Finish, rows, RowAt, Holding,
       InTry, TypeOK, RowsTypeOK, StackTypeOK
  <2>6. QED
    BY <2>1, <2>2, <2>3, <2>4, <2>5 DEF OwnWrites
<1>14. CASE HandleFailure(d)
  <2>1. pc[d] \in Holding /\ cur[d] \in Action /\ status[cur[d]] \in RowAt(pc[d])
    BY <1>14 DEF HandleFailure, Holding, InTry, TypeOK, StackTypeOK,
       ClaimExclusive
  <2>2. \A e \in Drain \ {d} : pc'[e] = pc[e] /\ cur'[e] = cur[e]
    BY <1>14 DEF HandleFailure, DeadLetter, MarkRetry, Goto, Step, Finish,
       TypeOK, StackTypeOK
  <2>3. \A a \in Action \ {cur[d]} :
          status'[a] = status[a] \/ (status[a] = "SCHEDULED" /\ status'[a] = "CANCELLED")
    BY <1>14 DEF HandleFailure, DeadLetter, MarkRetry, rows, TypeOK, RowsTypeOK
  <2>4. cur'[d] \in {cur[d], None}
    BY <1>14 DEF HandleFailure, DeadLetter, MarkRetry, Step, Finish, TypeOK,
       StackTypeOK
  <2>5. /\ pc'[d] \in Holding => cur'[d] = cur[d] /\ status'[cur[d]] \in RowAt(pc'[d])
        /\ pc'[d] \notin Holding => status'[cur[d]] \notin {"ABSENT", "IN_FLIGHT"}
    BY <1>14, <2>1 DEF HandleFailure, DeadLetter, MarkRetry, Goto, Step,
       Finish, rows, RowAt, Holding,
       InTry, TypeOK, RowsTypeOK, StackTypeOK
  <2>6. QED
    BY <2>1, <2>2, <2>3, <2>4, <2>5 DEF OwnWrites
<1>15. CASE ThrowInDispatch(d)
  <2>1. pc[d] \in Holding /\ cur[d] \in Action /\ status[cur[d]] \in RowAt(pc[d])
    BY <1>15 DEF ThrowInDispatch, Holding, InTry, TypeOK, StackTypeOK,
       ClaimExclusive
  <2>2. \A e \in Drain \ {d} : pc'[e] = pc[e] /\ cur'[e] = cur[e]
    BY <1>15 DEF ThrowInDispatch, Goto, Step, Finish, TypeOK, StackTypeOK
  <2>3. \A a \in Action \ {cur[d]} :
          status'[a] = status[a] \/ (status[a] = "SCHEDULED" /\ status'[a] = "CANCELLED")
    BY <1>15 DEF ThrowInDispatch, rows, TypeOK, RowsTypeOK
  <2>4. cur'[d] \in {cur[d], None}
    BY <1>15 DEF ThrowInDispatch, Step, Finish, TypeOK, StackTypeOK
  <2>5. /\ pc'[d] \in Holding => cur'[d] = cur[d] /\ status'[cur[d]] \in RowAt(pc'[d])
        /\ pc'[d] \notin Holding => status'[cur[d]] \notin {"ABSENT", "IN_FLIGHT"}
    BY <1>15, <2>1 DEF ThrowInDispatch, Goto, Step, Finish, rows, RowAt,
       Holding,
       InTry, TypeOK, RowsTypeOK, StackTypeOK
  <2>6. QED
    BY <2>1, <2>2, <2>3, <2>4, <2>5 DEF OwnWrites
<1>16. QED
  BY <1>1, <1>2, <1>3, <1>4, <1>5, <1>6, <1>7, <1>8, <1>9, <1>10, <1>11, <1>12, <1>13, <1>14, <1>15
  DEF Works

\* Such a step keeps ClaimExclusive.
LEMMA OwnRow ==
  ASSUME TypeOK, ClaimExclusive, NEW d \in Drain, OwnWrites(d)
  PROVE  ClaimExclusive'
<1>1. \A e \in Drain : pc[e] \in Holding => cur[e] \in Action /\ cur[e] # None
  BY DEF TypeOK, StackTypeOK
<1>2. \A e \in Drain : pc[e] \in Holding => status[cur[e]] # "SCHEDULED"
  BY DEF ClaimExclusive, RowAt
<1>3. ASSUME NEW e \in Drain, pc'[e] \in Holding
      PROVE  status'[cur'[e]] \in RowAt(pc'[e])
  <2>1. CASE e = d
    BY <1>3, <2>1 DEF OwnWrites
  <2>2. CASE e # d
    <3>1. pc[e] \in Holding /\ cur'[e] = cur[e] /\ pc'[e] = pc[e]
      BY <1>3, <2>2 DEF OwnWrites
    <3>2. status[cur[e]] \in RowAt(pc[e]) /\ cur[e] # cur[d]
      BY <3>1, <2>2 DEF ClaimExclusive
    <3>3. status'[cur[e]] = status[cur[e]]
      BY <1>1, <1>2, <3>1, <3>2 DEF OwnWrites
    <3>4. QED
      BY <3>1, <3>2, <3>3
  <2>3. QED
    BY <2>1, <2>2
<1>4. ASSUME NEW e \in Drain, pc'[e] \in Holding, NEW f \in Drain \ {e}
      PROVE  cur'[f] # cur'[e]
  <2>1. CASE e = d
    BY <1>1, <1>4, <2>1 DEF ClaimExclusive, OwnWrites
  <2>2. CASE e # d /\ f = d
    BY <1>1, <1>4, <2>2 DEF ClaimExclusive, OwnWrites
  <2>3. CASE e # d /\ f # d
    BY <1>4, <2>3 DEF ClaimExclusive, OwnWrites
  <2>4. QED
    BY <2>1, <2>2, <2>3
<1>5. QED
  BY <1>3, <1>4 DEF ClaimExclusive

\* A step that moves no drain and writes to waiting or absent rows only.
LEMMA NoDrainMoved ==
  ASSUME TypeOK, ClaimExclusive, UNCHANGED <<pc, cur>>,
         \A a \in Action : status[a] \notin {"SCHEDULED", "ABSENT"} => status'[a] = status[a]
  PROVE  ClaimExclusive'
<1>1. \A e \in Drain : pc[e] \in Holding => cur[e] \in Action
  BY DEF TypeOK, StackTypeOK
<1>2. \A e \in Drain : pc[e] \in Holding => status[cur[e]] \notin {"SCHEDULED", "ABSENT"}
  BY DEF ClaimExclusive, RowAt
<1>3. \A e \in Drain : pc[e] \in Holding => status'[cur[e]] = status[cur[e]]
  BY <1>1, <1>2
<1>4. QED
  BY <1>3 DEF ClaimExclusive

\* Drains that die hold nothing.
LEMMA DeadHoldNothing ==
  ASSUME TypeOK, ClaimExclusive, NEW S, Dead(S)
  PROVE  ClaimExclusive'
<1>1. \A e \in Drain : pc'[e] \in Holding =>
        e \notin S /\ pc'[e] = pc[e] /\ cur'[e] = cur[e] /\ cur[e] # None
  BY DEF Dead, Holding, InTry, TypeOK, StackTypeOK
<1>2. \A e \in Drain : cur'[e] \in {cur[e], None}
  BY DEF Dead
<1>3. status' = status
  BY DEF Dead, rows
<1>4. QED
  BY <1>1, <1>2, <1>3 DEF ClaimExclusive

\* Two drains never work the same row and each finds its row as it left it,
\* for any number of drains, processes, rows and cases.
THEOREM ClaimIsExclusive == Spec => []ClaimExclusive
<1> USE CaseOfAssumption, ExecutorAssumption
<1>1. Init => ClaimExclusive
  BY DEF Init, ClaimExclusive, Holding, InTry
<1>2. TypeOK /\ ClaimExclusive /\ [Next]_vars => ClaimExclusive'
  <2> SUFFICES ASSUME TypeOK, ClaimExclusive, [Next]_vars PROVE ClaimExclusive'
    OBVIOUS
  <2>1. UNCHANGED vars => ClaimExclusive'
    BY NoDrainMoved DEF vars, stack, rows
  <2>2. ASSUME NEW d \in Drain, StartDrain(d) PROVE ClaimExclusive'
    BY <2>2, NoDrainMoved DEF StartDrain, rows
  <2>3. ASSUME NEW d \in Drain, HaltDrain(d) PROVE ClaimExclusive'
    BY <2>3, NoDrainMoved DEF HaltDrain, rows
  <2>4. ASSUME NEW d \in Drain, NEW a \in Action, ClaimRow(d, a) PROVE ClaimExclusive'
    <3>1. status[a] = "SCHEDULED" /\ pc[d] = "next"
      BY <2>4 DEF ClaimRow, TakeRow, Claimable
    <3>2. /\ status' = [status EXCEPT ![a] = "IN_FLIGHT"]
          /\ pc' = [pc EXCEPT ![d] = "gate"]
          /\ cur' = [cur EXCEPT ![d] = a]
      BY <2>4 DEF ClaimRow, Claim, Goto
    <3>3. \A e \in Drain : cur[e] # a
      BY <3>1 DEF ClaimExclusive, RowAt, TypeOK, StackTypeOK
    <3>4. status'[a] \in RowAt("gate") /\ pc'[d] = "gate" /\ cur'[d] = a
      BY <3>2 DEF RowAt, TypeOK, RowsTypeOK, StackTypeOK
    <3>5. \A e \in Drain \ {d} : pc'[e] = pc[e] /\ cur'[e] = cur[e]
      BY <3>2 DEF TypeOK, StackTypeOK
    <3>6. \A b \in Action \ {a} : status'[b] = status[b]
      BY <3>2 DEF TypeOK, RowsTypeOK
    <3>7. \A e \in Drain \ {d} : pc[e] \in Holding => cur[e] \in Action \ {a}
      BY <3>3 DEF TypeOK, StackTypeOK
    <3>8. QED
      BY <3>3, <3>4, <3>5, <3>6, <3>7 DEF ClaimExclusive
  <2>5. ASSUME NEW d \in Drain, NEW a \in Action, SkipRow(d, a) PROVE ClaimExclusive'
    BY <2>5, NoDrainMoved DEF SkipRow, rows
  <2>6. ASSUME NEW d \in Drain, Works(d) PROVE ClaimExclusive'
    BY <2>6, WorkIsOwn, OwnRow
  <2>7. ASSUME NEW d \in Drain, Abort(d) PROVE ClaimExclusive'
    BY <2>7, DeadHoldNothing DEF Abort
  <2>8. ASSUME NEW p \in Process, Crash(p) PROVE ClaimExclusive'
    BY <2>8, DeadHoldNothing DEF Crash
  <2>9. ASSUME NEW a \in Action, Submit(a) PROVE ClaimExclusive'
    BY <2>9, NoDrainMoved DEF Submit, Enqueue, stack, TypeOK, RowsTypeOK
  <2>10. ASSUME NEW a \in Action, Wait(a) PROVE ClaimExclusive'
    BY <2>10, NoDrainMoved DEF Wait, ComesDue, stack
  <2>11. ASSUME NEW c \in Case, Pay(c) PROVE ClaimExclusive'
    BY <2>11, NoDrainMoved DEF Pay, stack, rows
  <2>12. ASSUME NEW c \in Case, Reply(c) PROVE ClaimExclusive'
    BY <2>12, NoDrainMoved DEF Reply, stack, rows
  <2>13. ASSUME NEW p \in Process, ReadSwitches(p) PROVE ClaimExclusive'
    BY <2>13, NoDrainMoved DEF ReadSwitches, stack, rows
  <2>14. ASSUME NEW p \in Process, Prefetches(p) PROVE ClaimExclusive'
    BY <2>14, PrefetchesOnly, NoDrainMoved DEF stack, rows
  <2>15. QED
    BY <2>1, <2>2, <2>3, <2>4, <2>5, <2>6, <2>7, <2>8, <2>9, <2>10, <2>11,
       <2>12, <2>13, <2>14 DEF Next, Advance, Works, Prefetches
<1>3. QED
  BY <1>1, <1>2, TypeCorrect, PTL DEF Spec

-----------------------------------------------------------------------------
\* A drain that claimed a row it must not act on is on the way of a stop, and
\* the fact that made it so is still stored, and is in every row that may be
\* served in its place: NoCallAfterStop by itself does not exclude that such a
\* drain is about to ask the policy gate, nor that an older row arrives.
DoomedStops ==
  \A d \in Drain : doomed[d] =>
    pc[d] \in {"gate", "cancel", "record"} /\ MustNotAct(cur[d], host[d])

LEMMA ConfigStays == [Next]_vars => UNCHANGED config
<1>1. ASSUME NEW d \in Drain, Works(d) PROVE UNCHANGED config
  BY <1>1 DEF Works, LoadStop, CancelStopped, RecordStop, LoadPolicy, Call,
     Calling, Withhold, GiveUp, CallNothing, RecordSent, InsertContact,
     WriteTouches, StoreOptOut, CancelOptedOut, HandleFailure, ThrowInDispatch
<1>2. QED
  BY <1>1 DEF Next, Advance, Works, StartDrain, HaltDrain, ClaimRow, SkipRow,
     Abort, Crash, Dead, Submit, Wait, Pay, Reply, ReadSwitches, FetchCase,
     FetchPerson, Release, vars

\* Payments, disputes and opt-outs are never taken back, and a row in the maps
\* is no older than those that were there, or as it is stored.
FactsGrow ==
  /\ \A c \in Case : paid[c] => paid'[c]
  /\ \A c \in Case : flag[c] = "disputed" => flag'[c] = "disputed"
  /\ \A u \in Customer : optedOut[u] => optedOut'[u]
  /\ \A p \in Process : Older(p)

\* A process that dies takes its maps with it.
MapsShrink ==
  \A p \in Process : caseRows'[p] \subseteq caseRows[p] /\ people'[p] \subseteq people[p]

LEMMA ShrunkMaps ==
  ASSUME TypeOK, MapsShrink
  PROVE  \A p \in Process : Older(p)
BY DEF MapsShrink, Older

LEMMA FactsStay ==
  ASSUME TypeOK, [Next]_vars
  PROVE  FactsGrow
<1> USE CaseOfAssumption, ExecutorAssumption
<1>1. ASSUME UNCHANGED <<paid, flag, optedOut>>, MapsShrink PROVE FactsGrow
  BY <1>1, ShrunkMaps DEF FactsGrow
<1>2. ASSUME UNCHANGED facts PROVE FactsGrow
  BY <1>1, <1>2 DEF facts, cases, prefetched, MapsShrink
<1>3. CASE \E d \in Drain : RecordStop(d) \/ WriteTouches(d)
  BY <1>1, <1>3 DEF RecordStop, WriteTouches, prefetched, MapsShrink
<1>4. CASE \E d \in Drain : StoreOptOut(d)
  <2>1. PICK d \in Drain : StoreOptOut(d)
    BY <1>4
  <2>2. UNCHANGED <<paid, flag, prefetched>> /\ \A u \in Customer : optedOut[u] => optedOut'[u]
    BY <2>1 DEF StoreOptOut, cases, TypeOK, FactsTypeOK
  <2>3. QED
    BY <2>2, ShrunkMaps DEF FactsGrow, prefetched, MapsShrink
<1>5. CASE \E c \in Case : Pay(c)
  <2>1. UNCHANGED <<flag, optedOut, prefetched>> /\ \A c \in Case : paid[c] => paid'[c]
    BY <1>5 DEF Pay, TypeOK, FactsTypeOK
  <2>2. QED
    BY <2>1, ShrunkMaps DEF FactsGrow, prefetched, MapsShrink
<1>6. CASE \E c \in Case : Reply(c)
  <2>1. /\ UNCHANGED <<paid, optedOut, prefetched>>
        /\ \A c \in Case : flag[c] = "disputed" => flag'[c] = "disputed"
    BY <1>6 DEF Reply, TypeOK, FactsTypeOK
  <2>2. QED
    BY <2>1, ShrunkMaps DEF FactsGrow, prefetched, MapsShrink
<1>7. CASE \E p \in Process : ReadSwitches(p)
  BY <1>1, <1>7 DEF ReadSwitches, cases, prefetched, MapsShrink
<1>8. CASE \E d \in Drain : Abort(d)
  BY <1>1, <1>8 DEF Abort, Dead, cases, prefetched, MapsShrink
<1>9. CASE \E p \in Process : Crash(p)
  <2>1. UNCHANGED <<paid, flag, optedOut>>
    BY <1>9 DEF Crash, Dead, cases
  <2>2. MapsShrink
    BY <1>9 DEF Crash, MapsShrink, TypeOK, FactsTypeOK
  <2>3. QED
    BY <1>1, <2>1, <2>2
<1>10. CASE \E p \in Process : Prefetches(p)
  <2>1. UNCHANGED <<paid, flag, optedOut>>
    BY <1>10, PrefetchesOnly DEF cases
  <2>2. \A p \in Process : Older(p)
    BY <1>10, FetchTypes DEF Older, TypeOK
  <2>3. QED
    BY <2>1, <2>2 DEF FactsGrow
<1>11. CASE \E d \in Drain : StartDrain(d) \/ HaltDrain(d) \/ LoadStop(d)
             \/ CancelStopped(d) \/ LoadPolicy(d) \/ Call(d) \/ Withhold(d)
             \/ GiveUp(d) \/ CallNothing(d) \/ RecordSent(d) \/ InsertContact(d)
             \/ CancelOptedOut(d) \/ HandleFailure(d) \/ ThrowInDispatch(d)
  BY <1>2, <1>11 DEF StartDrain, HaltDrain, LoadStop, CancelStopped, LoadPolicy,
     Call, Calling, Withhold, GiveUp, CallNothing, RecordSent, InsertContact,
     CancelOptedOut, HandleFailure, ThrowInDispatch
<1>12. CASE \/ \E d \in Drain, b \in Action : ClaimRow(d, b) \/ SkipRow(d, b)
            \/ \E b \in Action : Submit(b) \/ Wait(b)
            \/ UNCHANGED vars
  BY <1>2, <1>12 DEF ClaimRow, SkipRow, Submit, Wait, vars
<1>13. QED
  BY <1>3, <1>4, <1>5, <1>6, <1>7, <1>8, <1>9, <1>10, <1>11, <1>12
  DEF Next, Advance, Prefetches

LEMMA StopStays ==
  ASSUME TypeOK, TypeOK', [Next]_vars, NEW a \in Action, NEW p \in Process, MustNotAct(a, p)
  PROVE  MustNotAct(a, p)'
<1> USE CaseOfAssumption, ExecutorAssumption
<1> DEFINE c == CaseOf[a]
           u == CustomerOf[c]
<1>1. FactsGrow /\ c \in Case /\ u \in Customer
  BY FactsStay
<1>2. CASE paid[c]
  BY <1>1, <1>2 DEF FactsGrow, MustNotAct
<1>3. CASE flag[c] = "disputed" /\ \A r \in caseRows[p] : r.case = c => r.disputed
  <2>1. ASSUME NEW r \in caseRows'[p], r.case = c PROVE r.disputed
    BY <1>1, <1>3, <2>1 DEF FactsGrow, Older
  <2>2. flag'[c] = "disputed"
    BY <1>1, <1>3 DEF FactsGrow
  <2>3. QED
    BY <2>1, <2>2 DEF MustNotAct
<1>4. CASE optedOut[u] /\ \A r \in people[p] : r.customer = u => r.optedOut
  <2>1. ASSUME NEW r \in people'[p], r.customer = u PROVE r.optedOut
    BY <1>1, <1>4, <2>1 DEF FactsGrow, Older
  <2>2. optedOut'[u]
    BY <1>1, <1>4 DEF FactsGrow
  <2>3. QED
    BY <2>1, <2>2 DEF MustNotAct
<1>5. QED
  BY <1>2, <1>3, <1>4 DEF MustNotAct

\* Whatever a doomed drain does with its row keeps it on the way of a stop:
\* the gate has no other verdict for it.
LEMMA DoomedWork ==
  ASSUME TypeOK, DoomedStops, NEW d \in Drain, Works(d)
  PROVE  /\ \A e \in Drain \ {d} : doomed'[e] = doomed[e]
         /\ doomed'[d] => doomed[d] /\ pc'[d] \in {"cancel", "record"}
<1> USE CaseOfAssumption, ExecutorAssumption
<1>1. CASE LoadStop(d)
  <2> DEFINE c == CaseOf[cur[d]]
             p == host[d]
  <2>1. cur[d] \in Action /\ c \in Case /\ p \in Process
    BY <1>1 DEF LoadStop, Holding, TypeOK, StackTypeOK, ConfigTypeOK
  <2>2. PICK row \in LoadedCase(p, c), person \in LoadedPerson(p, CustomerOf[c]) :
          \E v \in StopVerdicts(cur[d], p, row, person) :
            Verdict(d, v) \/ (v = "CONTINUE" /\ Continue(d, row))
    BY <1>1 DEF LoadStop
  <2>3. ASSUME flag[c] = "disputed", \A r \in caseRows[p] : r.case = c => r.disputed
        PROVE  row.disputed
    <3>1. (row \in caseRows[p] /\ row.case = c) \/ row = CaseNow(c)
      BY <2>2 DEF LoadedCase
    <3>2. CaseNow(c).disputed <=> flag[c] = "disputed"
      BY DEF CaseNow
    <3>3. CASE row = CaseNow(c)
      BY <2>3, <3>2, <3>3
    <3>4. QED
      BY <2>3, <3>1, <3>3
  <2>4. ASSUME optedOut[CustomerOf[c]],
               \A r \in people[p] : r.customer = CustomerOf[c] => r.optedOut
        PROVE  person.optedOut
    BY <2>2, <2>4 DEF LoadedPerson, PersonNow
  <2>5. doomed[d] => StopVerdicts(cur[d], p, row, person) \subseteq {"STOP_PAID", "STOP_OTHER"}
    BY <2>3, <2>4 DEF DoomedStops, MustNotAct, StopVerdicts
  <2>6. \A e \in Drain \ {d} : doomed'[e] = doomed[e]
    BY <2>2 DEF Verdict, Continue, Finish, history, TypeOK, StackTypeOK
  <2>7. ASSUME doomed'[d] PROVE doomed[d]
    BY <2>2, <2>7 DEF Verdict, Continue, Finish, history, TypeOK, StackTypeOK
  <2>8. ASSUME doomed'[d] PROVE pc'[d] = "cancel"
    BY <2>2, <2>5, <2>7, <2>8 DEF Verdict, Continue, Finish, Goto, history, TypeOK,
       StackTypeOK
  <2>9. QED
    BY <2>6, <2>7, <2>8
<1>2. CASE CancelStopped(d)
  BY <1>2 DEF CancelStopped, Step, Goto, history, TypeOK, StackTypeOK
<1>3. CASE ~LoadStop(d) /\ ~CancelStopped(d)
  <2>1. \A e \in Drain \ {d} : doomed'[e] = doomed[e]
    BY <1>3 DEF Works, RecordStop, LoadPolicy, Call, Calling, Withhold, GiveUp,
       CallNothing, RecordSent, InsertContact, WriteTouches, StoreOptOut,
       CancelOptedOut, HandleFailure, ThrowInDispatch, Finish, Step, history,
       TypeOK, StackTypeOK
  <2>2. pc[d] = "record" => ~doomed'[d]
    BY <1>3 DEF Works, RecordStop, LoadPolicy, Call, Withhold, GiveUp,
       CallNothing, RecordSent, InsertContact, WriteTouches, StoreOptOut,
       CancelOptedOut, HandleFailure, ThrowInDispatch, InTry, Finish,
       TypeOK, StackTypeOK
  <2>3. pc[d] # "record" => pc[d] \notin {"gate", "cancel", "record"}
    BY <1>3 DEF Works, RecordStop, LoadPolicy, Call, Withhold, GiveUp,
       CallNothing, RecordSent, InsertContact, WriteTouches, StoreOptOut,
       CancelOptedOut, HandleFailure, ThrowInDispatch, InTry
  <2>4. pc[d] # "record" => ~doomed[d]
    BY <2>3 DEF DoomedStops
  <2>5. doomed'[d] => doomed[d]
    BY <1>3 DEF Works, RecordStop, LoadPolicy, Call, Calling, Withhold, GiveUp,
       CallNothing, RecordSent, InsertContact, WriteTouches, StoreOptOut,
       CancelOptedOut, HandleFailure, ThrowInDispatch, Finish, Step, history,
       TypeOK, StackTypeOK
  <2>6. QED
    BY <2>1, <2>2, <2>4, <2>5
<1>4. QED
  BY <1>1, <1>2, <1>3

\* Both gates run again before a call: what was stored before the claim, and
\* is not hidden by a row that an overlapping tick read before, keeps the drain
\* from the provider, however the drains, cycles, failures and facts fall.
THEOREM StopIsHeeded == Spec => []NoCallAfterStop
<1> USE CaseOfAssumption, ExecutorAssumption
<1>1. Init => DoomedStops
  BY DEF Init, DoomedStops
<1>2. TypeOK /\ TypeOK' /\ ClaimExclusive /\ DoomedStops /\ [Next]_vars => DoomedStops'
  <2> SUFFICES ASSUME TypeOK, TypeOK', ClaimExclusive, DoomedStops, [Next]_vars,
                      NEW e \in Drain, doomed'[e]
               PROVE  pc'[e] \in {"gate", "cancel", "record"} /\ MustNotAct(cur[e], host[e])'
    BY DEF DoomedStops
  <2>0. host' = host /\ host[e] \in Process
    BY ConfigStays DEF config, TypeOK, ConfigTypeOK
  <2>1. ASSUME doomed[e], pc'[e] \in {"gate", "cancel", "record"}, cur'[e] = cur[e]
        PROVE  pc'[e] \in {"gate", "cancel", "record"} /\ MustNotAct(cur[e], host[e])'
    <3>1. cur[e] \in Action /\ MustNotAct(cur[e], host[e])
      BY <2>1 DEF DoomedStops, TypeOK, StackTypeOK, Holding
    <3>2. PICK a \in Action, p \in Process : a = cur[e] /\ p = host[e]
      BY <2>0, <3>1
    <3>3. MustNotAct(a, p)'
      BY <3>1, <3>2, StopStays
    <3>4. QED
      BY <2>0, <2>1, <3>2, <3>3 DEF MustNotAct
  <2>2. ASSUME UNCHANGED <<pc, cur, doomed>>
        PROVE  pc'[e] \in {"gate", "cancel", "record"} /\ MustNotAct(cur[e], host[e])'
    BY <2>1, <2>2 DEF DoomedStops
  <2>3. ASSUME NEW d \in Drain, NEW a \in Action, ClaimRow(d, a)
        PROVE  pc'[e] \in {"gate", "cancel", "record"} /\ MustNotAct(cur[e], host[e])'
    <3>1. CASE e = d
      BY <2>0, <2>3, <3>1 DEF ClaimRow, Goto, TypeOK, StackTypeOK, MustNotAct, facts, cases,
         prefetched
    <3>2. CASE e # d
      <4>1. doomed[e] /\ pc'[e] = pc[e] /\ cur'[e] = cur[e]
        BY <2>3, <3>2 DEF ClaimRow, Goto, TypeOK, StackTypeOK
      <4>2. QED
        BY <2>1, <4>1 DEF DoomedStops
    <3>3. QED
      BY <3>1, <3>2
  <2>4. ASSUME NEW d \in Drain, Works(d)
        PROVE  pc'[e] \in {"gate", "cancel", "record"} /\ MustNotAct(cur[e], host[e])'
    <3>1. OwnWrites(d)
      BY <2>4, WorkIsOwn
    <3>2. CASE e = d
      <4>1. doomed[d] /\ pc'[d] \in {"cancel", "record"}
        BY <2>4, <3>2, DoomedWork
      <4>2. cur'[d] = cur[d]
        BY <3>1, <4>1 DEF OwnWrites, Holding
      <4>3. QED
        BY <2>1, <3>2, <4>1, <4>2
    <3>3. CASE e # d
      <4>1. doomed[e] /\ pc'[e] = pc[e] /\ cur'[e] = cur[e]
        BY <2>4, <3>1, <3>3, DoomedWork DEF OwnWrites
      <4>2. QED
        BY <2>1, <4>1 DEF DoomedStops
    <3>4. QED
      BY <3>2, <3>3
  <2>5. ASSUME NEW S, Dead(S)
        PROVE  pc'[e] \in {"gate", "cancel", "record"} /\ MustNotAct(cur[e], host[e])'
    <3>1. doomed[e] /\ pc'[e] = pc[e] /\ cur'[e] = cur[e]
      BY <2>5 DEF Dead
    <3>2. QED
      BY <2>1, <3>1 DEF DoomedStops
  <2>6. ASSUME NEW p \in Process, Prefetches(p)
        PROVE  pc'[e] \in {"gate", "cancel", "record"} /\ MustNotAct(cur[e], host[e])'
    BY <2>2, <2>6, PrefetchesOnly DEF stack, history
  <2>7. QED
    BY <2>2, <2>3, <2>4, <2>5, <2>6 DEF Next, Advance, Works, StartDrain, HaltDrain,
       SkipRow, TakeRow, Abort, Crash, Submit, Wait, Pay, Reply, ReadSwitches,
       Prefetches, vars, stack, history
<1>3. DoomedStops => NoCallAfterStop
  BY DEF DoomedStops, NoCallAfterStop
<1>4. QED
  BY <1>1, <1>2, <1>3, TypeCorrect, ClaimIsExclusive, PTL DEF Spec

-----------------------------------------------------------------------------
\* The refinement mapping, read off the stacks and the status column: what a
\* drain holds is held by it, and the rest is where its status says.
HeldRows ==
  \A d \in Drain, a \in Action :
    Holds(d, a) => HolderOf(a) = d /\ PhaseOf(a) = "held"

FreeRows ==
  \A a \in Action : (\A d \in Drain : ~Holds(d, a)) =>
    HolderOf(a) = None /\ PhaseOf(a) = FreePhase(status[a])

Mapped == HeldRows /\ FreeRows

LEMMA MappingReads == TypeOK /\ ClaimExclusive => Mapped
<1> SUFFICES ASSUME TypeOK, ClaimExclusive PROVE Mapped
  OBVIOUS
<1>1. ASSUME NEW d \in Drain, NEW a \in Action, Holds(d, a)
      PROVE  HolderOf(a) = d /\ PhaseOf(a) = "held"
  <2>1. \A e \in Drain : Holds(e, a) => e = d
    BY <1>1 DEF Holds, ClaimExclusive
  <2>2. Held(a)
    BY <1>1 DEF Held
  <2>3. HolderOf(a) = d
    BY <1>1, <2>1, <2>2 DEF HolderOf
  <2>4. QED
    BY <2>2, <2>3 DEF PhaseOf
<1>2. ASSUME NEW a \in Action, \A d \in Drain : ~Holds(d, a)
      PROVE  HolderOf(a) = None /\ PhaseOf(a) = FreePhase(status[a])
  BY <1>2 DEF Held, HolderOf, PhaseOf, FreePhase
<1>3. QED
  BY <1>1, <1>2 DEF Mapped, HeldRows, FreeRows

\* The life of one action in one step.
Lives(a) ==
  \/ PhaseOf(a)' = PhaseOf(a) /\ HolderOf(a)' = HolderOf(a)
  \/ /\ HolderOf(a)' = None
     /\ \/ PhaseOf(a) = "absent" /\ PhaseOf(a)' = "waiting"
        \/ PhaseOf(a) = "held" /\ PhaseOf(a)' \in {"waiting", "closed", "abandoned"}
        \/ PhaseOf(a) = "waiting" /\ PhaseOf(a)' = "closed"
  \/ /\ \A b \in Action : HolderOf(b) # HolderOf(a)'
     /\ HolderOf(a)' \in Drain
     /\ PhaseOf(a) = "waiting" /\ PhaseOf(a)' = "held"

LEMMA LivesIsNext ==
  ASSUME Mapped', \A a \in Action : Lives(a)
  PROVE  Lifecycle!Next
<1>1. ASSUME NEW a \in Action
      PROVE  PhaseOf(a)' \in Lifecycle!Phase /\ HolderOf(a)' \in Drain \cup {None}
  BY DEF Mapped, HeldRows, FreeRows, FreePhase, Lifecycle!Phase
<1>2. /\ [a \in Action |-> PhaseOf(a)]' \in [Action -> Lifecycle!Phase]
      /\ [a \in Action |-> HolderOf(a)]' \in [Action -> Drain \cup {None}]
  BY <1>1
<1>3. ASSUME NEW a \in Action
      PROVE  \/ Lifecycle!Stay(a) \/ Lifecycle!Submit(a) \/ Lifecycle!Return(a)
             \/ Lifecycle!Close(a) \/ Lifecycle!Cancel(a) \/ Lifecycle!Abandon(a)
             \/ \E w \in Drain : Lifecycle!Take(a, w)
  BY DEF Lives, Lifecycle!Stay, Lifecycle!Submit, Lifecycle!Return,
     Lifecycle!Close, Lifecycle!Cancel, Lifecycle!Abandon, Lifecycle!Take,
     Lifecycle!Move
<1>4. QED
  BY <1>2, <1>3 DEF Lifecycle!Next

\* A row that keeps its status and its holder stays; one that waits may be
\* cancelled, because nobody holds it.
LEMMA RowStays ==
  ASSUME TypeOK, ClaimExclusive, Mapped, Mapped', NEW a \in Action,
         \A d \in Drain : Holds(d, a)' <=> Holds(d, a),
         \/ status'[a] = status[a]
         \/ status[a] = "SCHEDULED" /\ status'[a] = "CANCELLED"
  PROVE  Lives(a)
<1>1. CASE \E d \in Drain : Holds(d, a)
  BY <1>1 DEF Lives, Mapped, HeldRows
<1>2. CASE \A d \in Drain : ~Holds(d, a)
  <2>1. \A d \in Drain : ~Holds(d, a)'
    BY <1>2
  <2>2. /\ HolderOf(a) = None /\ PhaseOf(a) = FreePhase(status[a])
        /\ HolderOf(a)' = None /\ PhaseOf(a)' = FreePhase(status'[a])
    BY <1>2, <2>1 DEF Mapped, FreeRows, FreePhase
  <2>3. QED
    BY <2>2 DEF Lives, FreePhase
<1>3. QED
  BY <1>1, <1>2

\* The row a drain lets go is waiting or closed; a row it loses by dying is
\* abandoned if it was in flight.
LEMMA WorkLives ==
  ASSUME TypeOK, TypeOK', ClaimExclusive, Mapped, Mapped',
         NEW d \in Drain, OwnWrites(d), NEW a \in Action
  PROVE  Lives(a)
<1>1. CASE a # cur[d]
  <2>1. \A e \in Drain : Holds(e, a)' <=> Holds(e, a)
    BY <1>1, ExecutorAssumption DEF OwnWrites, Holds, TypeOK, StackTypeOK
  <2>2. QED
    BY <1>1, <2>1, RowStays DEF OwnWrites
<1>2. CASE a = cur[d] /\ pc'[d] \in Holding
  <2>1. Holds(d, a) /\ Holds(d, a)'
    BY <1>2 DEF OwnWrites, Holds
  <2>2. QED
    BY <2>1 DEF Lives, Mapped, HeldRows
<1>3. CASE a = cur[d] /\ pc'[d] \notin Holding
  <2>1. Holds(d, a)
    BY <1>3 DEF OwnWrites, Holds
  <2>2. \A e \in Drain : ~Holds(e, a)'
    BY <1>3 DEF OwnWrites, Holds, ClaimExclusive
  <2>3. HolderOf(a)' = None /\ PhaseOf(a)' = FreePhase(status'[a])
    BY <2>2 DEF Mapped, FreeRows, FreePhase
  <2>4. status'[a] \notin {"ABSENT", "IN_FLIGHT"}
    BY <1>3 DEF OwnWrites
  <2>5. PhaseOf(a) = "held"
    BY <2>1 DEF Mapped, HeldRows
  <2>6. QED
    BY <2>3, <2>4, <2>5 DEF Lives, FreePhase
<1>4. QED
  BY <1>1, <1>2, <1>3

LEMMA DeathLives ==
  ASSUME TypeOK, ClaimExclusive, Mapped, Mapped', NEW S, Dead(S), NEW a \in Action
  PROVE  Lives(a)
<1>1. status' = status /\ \A d \in Drain : Holds(d, a)' => Holds(d, a)
  BY ExecutorAssumption DEF Dead, rows, Holds, Holding, InTry
<1>2. CASE \A d \in Drain : Holds(d, a)' <=> Holds(d, a)
  BY <1>1, <1>2, RowStays
<1>3. CASE \E d \in Drain : Holds(d, a) /\ ~Holds(d, a)'
  <2>1. PICK d \in Drain : Holds(d, a) /\ ~Holds(d, a)'
    BY <1>3
  <2>2. \A e \in Drain : Holds(e, a) => e = d
    BY <2>1 DEF Holds, ClaimExclusive
  <2>3. \A e \in Drain : ~Holds(e, a)'
    BY <1>1, <2>1, <2>2
  <2>4. HolderOf(a)' = None /\ PhaseOf(a)' = FreePhase(status[a])
    BY <1>1, <2>3 DEF Mapped, FreeRows, FreePhase
  <2>5. status[a] \in {"IN_FLIGHT", "SENT", "SUPPRESSED"}
    BY <2>1 DEF Holds, ClaimExclusive, RowAt
  <2>6. PhaseOf(a) = "held"
    BY <2>1 DEF Mapped, HeldRows
  <2>7. QED
    BY <2>4, <2>5, <2>6 DEF Lives, FreePhase
<1>4. QED
  BY <1>1, <1>2, <1>3

\* The executor implements the life of an action: every step of any number of
\* drains, processes and cases moves each action along its own life or not
\* at all.
THEOREM LifecycleIsImplemented == Spec => ImplementsLifecycle
<1> USE CaseOfAssumption, ExecutorAssumption
<1>1. Init => Lifecycle!Init
  <2> SUFFICES ASSUME Init, NEW a \in Action
               PROVE  PhaseOf(a) = "absent" /\ HolderOf(a) = None
    BY DEF Lifecycle!Init
  <2>1. \A d \in Drain : ~Holds(d, a)
    BY DEF Init, Holds, Holding, InTry
  <2>2. QED
    BY <2>1 DEF Init, RowsInit, Held, HolderOf, PhaseOf, FreePhase
<1>2. /\ TypeOK /\ ClaimExclusive /\ Mapped
      /\ TypeOK' /\ ClaimExclusive' /\ Mapped'
      /\ [Next]_vars
      => [Lifecycle!Next]_<<[a \in Action |-> PhaseOf(a)], [a \in Action |-> HolderOf(a)]>>
  <2> SUFFICES ASSUME TypeOK, ClaimExclusive, Mapped, TypeOK', ClaimExclusive',
                      Mapped', [Next]_vars, NEW a \in Action
               PROVE  Lives(a)
    BY LivesIsNext
  <2>1. ASSUME UNCHANGED <<pc, cur, status>> PROVE Lives(a)
    <3>1. \A d \in Drain : Holds(d, a)' <=> Holds(d, a)
      BY <2>1 DEF Holds
    <3>2. QED
      BY <2>1, <3>1, RowStays
  <2>2. ASSUME NEW d \in Drain, NEW b \in Action, ClaimRow(d, b) PROVE Lives(a)
    <3>1. /\ status[b] = "SCHEDULED" /\ pc[d] = "next"
          /\ status' = [status EXCEPT ![b] = "IN_FLIGHT"]
          /\ pc' = [pc EXCEPT ![d] = "gate"]
          /\ cur' = [cur EXCEPT ![d] = b]
      BY <2>2 DEF ClaimRow, TakeRow, Claimable, Claim, Goto
    <3>2. Holds(d, b)' /\ \A c \in Action : ~Holds(d, c)
      BY <3>1 DEF Holds, Holding, InTry, TypeOK, StackTypeOK
    <3>3. CASE a # b
      <4>1. \A e \in Drain : Holds(e, a)' <=> Holds(e, a)
        BY <3>1, <3>2, <3>3 DEF Holds, TypeOK, StackTypeOK
      <4>2. status'[a] = status[a]
        BY <3>1, <3>3 DEF TypeOK, RowsTypeOK
      <4>3. QED
        BY <4>1, <4>2, RowStays
    <3>4. CASE a = b
      <4>1. \A e \in Drain : ~Holds(e, a)
        BY <3>1, <3>4 DEF Holds, ClaimExclusive, RowAt
      <4>2. PhaseOf(a) = "waiting"
        BY <3>1, <3>4, <4>1 DEF Mapped, FreeRows, FreePhase
      <4>3. HolderOf(a)' = d /\ PhaseOf(a)' = "held"
        BY <3>2, <3>4 DEF Mapped, HeldRows
      <4>4. ASSUME NEW c \in Action PROVE HolderOf(c) # d
        BY <3>2 DEF Mapped, HeldRows, FreeRows
      <4>5. QED
        BY <4>2, <4>3, <4>4 DEF Lives
    <3>5. QED
      BY <3>3, <3>4
  <2>3. ASSUME NEW d \in Drain, Works(d) PROVE Lives(a)
    BY <2>3, WorkIsOwn, WorkLives
  <2>4. ASSUME NEW S, Dead(S) PROVE Lives(a)
    BY <2>4, DeathLives
  <2>5. ASSUME NEW b \in Action, Submit(b) PROVE Lives(a)
    <3>1. /\ status[b] = "ABSENT" /\ UNCHANGED <<pc, cur>>
          /\ status' = [status EXCEPT ![b] = "SCHEDULED"]
      BY <2>5 DEF Submit, Enqueue, stack
    <3>2. \A d \in Drain : Holds(d, a)' <=> Holds(d, a)
      BY <3>1 DEF Holds
    <3>3. CASE a # b
      BY <3>1, <3>2, <3>3, RowStays DEF TypeOK, RowsTypeOK
    <3>4. CASE a = b
      <4>1. \A d \in Drain : ~Holds(d, a) /\ ~Holds(d, a)'
        BY <3>1, <3>2, <3>4 DEF Holds, ClaimExclusive, RowAt
      <4>2. status[a] = "ABSENT" /\ status'[a] = "SCHEDULED"
        BY <3>1, <3>4 DEF TypeOK, RowsTypeOK
      <4>3. QED
        BY <4>1, <4>2 DEF Mapped, FreeRows, FreePhase, Lives
    <3>5. QED
      BY <3>3, <3>4
  <2>6. QED
    BY <2>1, <2>2, <2>3, <2>4, <2>5 DEF Next, Advance, Works, StartDrain,
       HaltDrain, SkipRow, TakeRow, Abort, Crash, Wait, ComesDue, Pay, Reply,
       ReadSwitches, FetchCase, FetchPerson, Release,
       vars, stack, rows
<1>3. QED
  BY <1>1, <1>2, TypeCorrect, ClaimIsExclusive, MappingReads, PTL
     DEF Spec, ImplementsLifecycle, Lifecycle!Spec

-----------------------------------------------------------------------------
\* Touches.  With one process for all drains the mutex covers the gate's read
\* of the count, the message and the count's write.

OneProcess == \A d, e \in Drain : host[d] = host[e]

CaseMutex ==
  \A d, e \in Drain : d # e /\ cur[d] # None /\ cur[e] # None =>
    CaseOf[cur[d]] # CaseOf[cur[e]]

\* From the gate's verdict to the write, a message is within the cap, if the
\* gate was told of all that came before it.
WithinCap ==
  \A d \in Drain :
    /\ pc[d] \in {"contact", "touch"} => kind[cur[d]] = "MESSAGE"
    /\ /\ pc[d] \in {"policy", "call", "accepted", "contact", "touch"}
       /\ kind[cur[d]] = "MESSAGE" /\ ~misled[d]
       => touches[CaseOf[cur[d]]] < TouchCap

ReadIsFresh ==
  \A d \in Drain : pc[d] = "touch" => touchRead[d] = touches[CaseOf[cur[d]]]

Touching(c) == \E d \in Drain : pc[d] = "touch" /\ CaseOf[cur[d]] = c

\* A contact that counts was let through under the cap; in the stored count it
\* is included, about to be, or lost to a failure.
Accounted ==
  \A c \in Case : /\ contacts[c] <= TouchCap + faults
                  /\ ~Touching(c) => contacts[c] <= touches[c] + faults
                  /\ contacts[c] <= touches[c] + faults + 1

TouchInv == OneProcess => CaseMutex /\ WithinCap /\ ReadIsFresh /\ Accounted

LEMMA TouchInvSuffices == TouchInv => TouchBudget
BY DEF TouchInv, TouchBudget, OneProcess, Accounted

\* What a step of execute does to the counts and to the place it is at.
Quiet(d) ==
  /\ UNCHANGED <<touches, contacts>>
  /\ faults' \in {faults, faults + 1}
  /\ pc'[d] # "touch"
  /\ pc[d] = "touch" => faults' = faults + 1
  /\ pc'[d] = "contact" => kind[cur[d]] = "MESSAGE"
  /\ pc'[d] \in {"policy", "call", "accepted", "contact"} =>
       \/ pc[d] \in {"policy", "call", "accepted", "contact"} /\ misled'[d] = misled[d]
       \/ kind[cur[d]] = "MESSAGE" /\ ~misled'[d] => touches[CaseOf[cur[d]]] < TouchCap

LEMMA QuietWork ==
  ASSUME TypeOK, NEW d \in Drain, Works(d), ~InsertContact(d), ~WriteTouches(d)
  PROVE  /\ Quiet(d)
         /\ \A e \in Drain \ {d} : touchRead'[e] = touchRead[e] /\ misled'[e] = misled[e]
<1> USE ExecutorAssumption, CaseOfAssumption
<1>1. CASE LoadStop(d)
  <2> DEFINE c == CaseOf[cur[d]]
  <2>1. pc[d] = "gate" /\ cur[d] \in Action /\ c \in Case /\ host[d] \in Process
    BY <1>1 DEF LoadStop, TypeOK, StackTypeOK, ConfigTypeOK, Holding
  <2>2. PICK row \in LoadedCase(host[d], c), person \in LoadedPerson(host[d], CustomerOf[c]) :
          \E v \in StopVerdicts(cur[d], host[d], row, person) :
            Verdict(d, v) \/ (v = "CONTINUE" /\ Continue(d, row))
    BY <1>1 DEF LoadStop
  <2>3. UNCHANGED touches
    BY <1>1 DEF LoadStop, facts, cases
  <2>4. CASE \E v \in StopVerdicts(cur[d], host[d], row, person) : Verdict(d, v)
    BY <2>1, <2>3, <2>4 DEF Verdict, Finish, Goto, Quiet, history, TypeOK, StackTypeOK
  <2>5. CASE "CONTINUE" \in StopVerdicts(cur[d], host[d], row, person) /\ Continue(d, row)
    <3>1. row.case = c /\ row.touches \in Nat /\ touches[c] \in Nat /\ TouchCap \in Nat
      BY <2>1, <2>2 DEF LoadedCase, CaseNow, CaseRow, TypeOK, FactsTypeOK
    <3>2. kind[cur[d]] = "MESSAGE" => ~(row.touches >= TouchCap)
      BY <2>5 DEF StopVerdicts
    <3>3. ~misled'[d] => ~(row.touches < touches[c])
      BY <2>5, <3>1 DEF Continue, TypeOK, StackTypeOK
    <3>4. kind[cur[d]] = "MESSAGE" /\ ~misled'[d] => touches[c] < TouchCap
      BY <3>1, <3>2, <3>3
    <3>5. QED
      BY <2>1, <2>3, <2>5, <3>4 DEF Continue, Goto, Quiet, TypeOK, StackTypeOK
  <2>6. QED
    BY <2>2, <2>4, <2>5
<1>2. CASE ThrowInDispatch(d)
  BY <1>2 DEF ThrowInDispatch, Fault, Goto, facts, cases, Quiet, TypeOK, StackTypeOK
<1>3. CASE CancelStopped(d) \/ RecordStop(d) \/ LoadPolicy(d)
  BY <1>3 DEF CancelStopped, RecordStop, LoadPolicy, Finish, Step, Goto, facts,
     cases, history, Quiet, TypeOK, StackTypeOK
<1>4. CASE Call(d) \/ Withhold(d) \/ GiveUp(d) \/ CallNothing(d) \/ RecordSent(d)
  BY <1>4 DEF Call, Calling, Withhold, GiveUp, CallNothing, RecordSent, Finish,
     Step, Goto, facts, cases, history, Quiet, TypeOK, StackTypeOK
<1>5. CASE StoreOptOut(d) \/ CancelOptedOut(d) \/ HandleFailure(d)
  BY <1>5 DEF StoreOptOut, CancelOptedOut, HandleFailure, Finish, Step, Goto,
     facts, cases, history, Quiet, TypeOK, StackTypeOK
<1>6. QED
  BY <1>1, <1>2, <1>3, <1>4, <1>5 DEF Works

\* Only a holder of the mutex of a case writes to its count.
LEMMA WorkKeepsTouches ==
  ASSUME TypeOK, TypeOK', TouchInv, OneProcess, UNCHANGED config,
         NEW d \in Drain, Works(d), OwnWrites(d)
  PROVE  CaseMutex' /\ WithinCap' /\ ReadIsFresh' /\ Accounted'
<1> USE ExecutorAssumption, CaseOfAssumption
<1>1. CaseMutex /\ WithinCap /\ ReadIsFresh /\ Accounted
  BY DEF TouchInv
<1>2. \A e \in Drain : cur'[e] = cur[e] \/ cur'[e] = None
  BY DEF OwnWrites
<1>3. CaseMutex'
  BY <1>1, <1>2 DEF CaseMutex
<1>4. \A e \in Drain : pc[e] \in Holding => cur[e] \in Action /\ CaseOf[cur[e]] \in Case
  BY DEF TypeOK, StackTypeOK
<1>5. \A e \in Drain \ {d} : pc[e] \in Holding => CaseOf[cur[e]] # CaseOf[cur[d]]
  BY <1>1, <1>4 DEF CaseMutex, OwnWrites
<1>6. kind' = kind /\ \A c \in Case : /\ touches[c] \in Nat /\ contacts[c] \in Nat
                                      /\ touches'[c] \in Nat /\ contacts'[c] \in Nat
  BY DEF config, TypeOK, FactsTypeOK, CountsTypeOK
<1>7. faults \in Nat /\ TouchCap \in Nat
  BY DEF TypeOK, CountsTypeOK
<1>8. CASE /\ Quiet(d)
           /\ \A e \in Drain \ {d} : touchRead'[e] = touchRead[e] /\ misled'[e] = misled[e]
  <2>1. WithinCap'
    <3> SUFFICES ASSUME NEW e \in Drain
                 PROVE  /\ pc'[e] \in {"contact", "touch"} => kind[cur'[e]] = "MESSAGE"
                        /\ /\ pc'[e] \in {"policy", "call", "accepted", "contact", "touch"}
                           /\ kind[cur'[e]] = "MESSAGE" /\ ~misled'[e]
                           => touches[CaseOf[cur'[e]]] < TouchCap
      BY <1>6, <1>8 DEF WithinCap, Quiet
    <3>1. CASE e # d
      BY <1>1, <1>8, <3>1 DEF WithinCap, OwnWrites
    <3>2. CASE e = d /\ pc'[d] \in Holding
      BY <1>1, <1>8, <3>2 DEF WithinCap, OwnWrites, Quiet
    <3>3. CASE e = d /\ pc'[d] \notin Holding
      BY <3>3 DEF Holding, InTry
    <3>4. QED
      BY <3>1, <3>2, <3>3
  <2>2. ReadIsFresh'
    BY <1>1, <1>8 DEF ReadIsFresh, OwnWrites, Quiet
  <2>3. \A c \in Case : Touching(c) /\ ~Touching(c)' => faults' = faults + 1
    BY <1>8 DEF Touching, OwnWrites, Quiet
  <2>4. Accounted'
    BY <1>1, <1>6, <1>7, <1>8, <2>3 DEF Accounted, Quiet
  <2>5. QED
    BY <1>3, <2>1, <2>2, <2>4
<1>9. CASE InsertContact(d)
  <2> DEFINE c == CaseOf[cur[d]]
  <2>1. /\ pc[d] = "contact" /\ pc' = [pc EXCEPT ![d] = "touch"] /\ cur' = cur
        /\ touchRead' = [touchRead EXCEPT ![d] = touches[c]]
        /\ contacts' = IF misled[d] THEN contacts ELSE [contacts EXCEPT ![c] = @ + 1]
        /\ UNCHANGED <<touches, misled, faults>>
    BY <1>9 DEF InsertContact, Goto, facts, cases
  <2>2. WithinCap'
    BY <1>1, <1>6, <2>1 DEF WithinCap, TypeOK, StackTypeOK
  <2>3. ReadIsFresh'
    BY <1>1, <2>1 DEF ReadIsFresh, TypeOK, StackTypeOK
  <2>4. ~Touching(c) /\ Touching(c)' /\ c \in Case
    BY <1>4, <1>5, <2>1 DEF Touching, Holding, InTry, TypeOK, StackTypeOK
  <2>5. \A b \in Case : b # c => contacts'[b] = contacts[b] /\ (Touching(b) => Touching(b)')
    BY <2>1 DEF Touching, TypeOK, StackTypeOK, CountsTypeOK
  <2>6. /\ contacts'[c] \in {contacts[c], contacts[c] + 1}
        /\ contacts'[c] # contacts[c] => touches[c] < TouchCap
    <3>1. kind[cur[d]] = "MESSAGE" /\ (~misled[d] => touches[c] < TouchCap)
      BY <1>1, <2>1 DEF WithinCap
    <3>2. QED
      BY <2>1, <2>4, <3>1 DEF TypeOK, CountsTypeOK
  <2>7. Accounted'
    BY <1>1, <1>6, <1>7, <2>1, <2>4, <2>5, <2>6 DEF Accounted
  <2>8. QED
    BY <1>3, <2>2, <2>3, <2>7
<1>10. CASE WriteTouches(d)
  <2>1. /\ pc[d] = "touch" /\ pc'[d] \in {"next", "optOut"}
        /\ touches' = [touches EXCEPT ![CaseOf[cur[d]]] = touchRead[d] + 1]
        /\ UNCHANGED <<contacts, faults>>
        /\ \A e \in Drain \ {d} : touchRead'[e] = touchRead[e] /\ misled'[e] = misled[e]
    BY <1>10 DEF WriteTouches, Finish, Step, Goto, history, TypeOK, StackTypeOK
  <2>2. /\ touches'[CaseOf[cur[d]]] = touches[CaseOf[cur[d]]] + 1
        /\ \A c \in Case : c # CaseOf[cur[d]] => touches'[c] = touches[c]
    BY <1>1, <1>4, <2>1 DEF ReadIsFresh, Holding, InTry, TypeOK, FactsTypeOK
  <2>3. \A e \in Drain \ {d} : /\ pc'[e] = pc[e] /\ cur'[e] = cur[e]
                               /\ misled'[e] = misled[e]
                               /\ pc[e] \in Holding =>
                                    touches'[CaseOf[cur[e]]] = touches[CaseOf[cur[e]]]
    BY <1>4, <1>5, <2>1, <2>2 DEF OwnWrites
  <2>4. WithinCap'
    BY <1>1, <1>6, <2>1, <2>3 DEF WithinCap, Holding, InTry
  <2>5. ReadIsFresh'
    BY <1>1, <2>1, <2>3 DEF ReadIsFresh, Holding, InTry
  <2>6. \A c \in Case : c # CaseOf[cur[d]] => (Touching(c) => Touching(c)')
    BY <2>1, <2>3 DEF Touching
  <2>7. Accounted'
    BY <1>1, <1>6, <1>7, <2>1, <2>2, <2>6 DEF Accounted
  <2>8. QED
    BY <1>3, <2>4, <2>5, <2>7
<1>11. QED
  BY <1>8, <1>9, <1>10, QuietWork

\* A step that leaves stacks and counts alone, whatever it does to the rows,
\* and a death of any number of drains by one failure.
LEMMA RestKeepsTouches ==
  ASSUME TypeOK, TouchInv, OneProcess, UNCHANGED config,
         \/ UNCHANGED <<pc, cur, touchRead, misled, touches, contacts, faults>>
         \/ (\E S : Dead(S)) /\ faults' = faults + 1
  PROVE  CaseMutex' /\ WithinCap' /\ ReadIsFresh' /\ Accounted'
<1>1. CaseMutex /\ WithinCap /\ ReadIsFresh /\ Accounted
  BY DEF TouchInv
<1>2. CASE UNCHANGED <<pc, cur, touchRead, misled, touches, contacts, faults>>
  BY <1>1, <1>2 DEF CaseMutex, WithinCap, ReadIsFresh, Accounted, Touching, config
<1>3. CASE (\E S : Dead(S)) /\ faults' = faults + 1
  <2>1. PICK S : Dead(S)
    BY <1>3
  <2>2. /\ UNCHANGED <<kind, touches, contacts>>
        /\ \A d \in Drain : \/ /\ pc'[d] = pc[d] /\ cur'[d] = cur[d]
                               /\ touchRead'[d] = touchRead[d] /\ misled'[d] = misled[d]
                            \/ pc'[d] = "next" /\ cur'[d] = None
    BY <2>1 DEF Dead, config, cases, TypeOK, StackTypeOK
  <2>3. CaseMutex' /\ WithinCap' /\ ReadIsFresh'
    BY <1>1, <2>2 DEF CaseMutex, WithinCap, ReadIsFresh
  <2>4. \A c \in Case : touches[c] \in Nat /\ contacts[c] \in Nat /\ faults \in Nat
    BY DEF TypeOK, FactsTypeOK, CountsTypeOK
  <2>5. Accounted'
    BY <1>1, <1>3, <2>2, <2>4, ExecutorAssumption DEF Accounted, Touching
  <2>6. QED
    BY <2>3, <2>5
<1>4. QED
  BY <1>2, <1>3

\* A case receives at most TouchCap recorded messages, plus one for each
\* failure, when its drains share a process, not counting those whose gate was
\* served a count that an overlapping tick had prefetched: the mutex keeps the
\* count that any other gate reads as it is until its message is added.
THEOREM TouchesAreBudgeted == Spec => []TouchBudget
<1> USE CaseOfAssumption, ExecutorAssumption
<1>1. Init => TouchInv
  BY DEF Init, TouchInv, CaseMutex, WithinCap, ReadIsFresh, Accounted, Touching
<1>2. TypeOK /\ TypeOK' /\ ClaimExclusive /\ TouchInv /\ [Next]_vars => TouchInv'
  <2> SUFFICES ASSUME TypeOK, TypeOK', ClaimExclusive, TouchInv, [Next]_vars, OneProcess'
               PROVE  CaseMutex' /\ WithinCap' /\ ReadIsFresh' /\ Accounted'
    BY DEF TouchInv
  <2>1. UNCHANGED config /\ OneProcess
    BY ConfigStays DEF config, OneProcess
  <2>2. ASSUME NEW d \in Drain, Works(d)
        PROVE  CaseMutex' /\ WithinCap' /\ ReadIsFresh' /\ Accounted'
    BY <2>1, <2>2, WorkIsOwn, WorkKeepsTouches
  <2>3. ASSUME NEW d \in Drain, NEW a \in Action, ClaimRow(d, a)
        PROVE  CaseMutex' /\ WithinCap' /\ ReadIsFresh' /\ Accounted'
    <3>1. /\ pc[d] = "next" /\ pc' = [pc EXCEPT ![d] = "gate"]
          /\ cur' = [cur EXCEPT ![d] = a]
          /\ ~Locked(host[d], CaseOf[a])
          /\ UNCHANGED <<kind, touches, touchRead, misled, contacts, faults>>
      BY <2>3 DEF ClaimRow, TakeRow, Goto, config, facts, cases
    <3>2. \A e \in Drain : cur[e] # None => CaseOf[cur[e]] # CaseOf[a]
      BY <2>1, <3>1 DEF Locked, OneProcess
    <3>3. CaseMutex'
      BY <2>1, <3>1, <3>2 DEF TouchInv, CaseMutex, TypeOK, StackTypeOK
    <3>4. WithinCap' /\ ReadIsFresh'
      BY <2>1, <3>1 DEF TouchInv, WithinCap, ReadIsFresh, TypeOK, StackTypeOK
    <3>5. \A c \in Case : Touching(c) => Touching(c)'
      BY <3>1 DEF Touching, TypeOK, StackTypeOK
    <3>6. Accounted'
      BY <2>1, <3>1, <3>5 DEF TouchInv, Accounted
    <3>7. QED
      BY <3>3, <3>4, <3>6
  <2>4. ASSUME NEW S, Dead(S), Fault
        PROVE  CaseMutex' /\ WithinCap' /\ ReadIsFresh' /\ Accounted'
    BY <2>1, <2>4, RestKeepsTouches DEF Fault
  <2>5. ASSUME UNCHANGED <<pc, cur, touchRead, misled, touches, contacts, faults>>
        PROVE  CaseMutex' /\ WithinCap' /\ ReadIsFresh' /\ Accounted'
    BY <2>1, <2>5, RestKeepsTouches
  <2>6. ASSUME NEW p \in Process, Prefetches(p)
        PROVE  CaseMutex' /\ WithinCap' /\ ReadIsFresh' /\ Accounted'
    BY <2>5, <2>6, PrefetchesOnly DEF cases, stack, history
  <2>7. QED
    BY <2>2, <2>3, <2>4, <2>5, <2>6 DEF Next, Advance, Works, Prefetches, StartDrain,
       HaltDrain, SkipRow, TakeRow, Abort, Crash, Submit, Wait, Pay, Reply,
       ReadSwitches, vars, facts, cases, stack, history
<1>3. QED
  BY <1>1, <1>2, TypeCorrect, ClaimIsExclusive, TouchInvSuffices, PTL DEF Spec

-----------------------------------------------------------------------------
\* Attempts.  A drain that read a row before its last attempts were recorded
\* may still put it back; each drain does so at most once beyond the budget,
\* because what it reads from then on is too much.
Retriers(a) ==
  {e \in Drain : (a \in batch[e] \/ cur[e] = a) /\ seen[e][a] + 1 < MaxAttempts}

Left(a) == MaxAttempts + Cardinality(Drain) - 1 + faults - Cardinality(Retriers(a))

Open == {"ABSENT", "SCHEDULED", "IN_FLIGHT"}

OpenLeft ==
  \A a \in Action :
    Drain # {} /\ status[a] \in Open /\ attempts[a] >= MaxAttempts - 1 =>
      attempts[a] < Left(a)

\* A row marked SENT that a failure sends round again has that failure to count.
SentLeft ==
  \A d \in Drain :
    /\ pc[d] \in {"contact", "touch", "optOut", "optCancel"}
         /\ attempts[cur[d]] >= MaxAttempts
       => attempts[cur[d]] <= Left(cur[d])
    /\ pc[d] = "fail" /\ status[cur[d]] = "SENT" =>
         /\ faults > 0
         /\ attempts[cur[d]] >= MaxAttempts => attempts[cur[d]] < Left(cur[d])

TakenOnce == \A d \in Drain : cur[d] \notin batch[d]

AttemptInv == TakenOnce /\ OpenLeft /\ SentLeft /\ AttemptBudget

LEMMA RetriersFinite ==
  ASSUME NEW a
  PROVE  /\ IsFiniteSet(Retriers(a)) /\ Cardinality(Retriers(a)) \in Nat
         /\ Cardinality(Retriers(a)) <= Cardinality(Drain)
         /\ Cardinality(Drain) \in Nat
BY ExecutorAssumption, FS_Subset, FS_CardinalityType DEF Retriers

\* Fewer retriers leave more, and so does a failure.
LEMMA LeftGrows ==
  ASSUME NEW a, NEW S \in SUBSET Retriers(a)
  PROVE  /\ IsFiniteSet(S) /\ Cardinality(S) \in Nat
         /\ Cardinality(S) <= Cardinality(Retriers(a))
         /\ \A d \in Drain : d \notin S => Cardinality(S) <= Cardinality(Drain) - 1
         /\ \A d \in Retriers(a) : d \notin S => Cardinality(S) <= Cardinality(Retriers(a)) - 1
<1> USE ExecutorAssumption
<1>1. /\ IsFiniteSet(Retriers(a)) /\ Cardinality(Retriers(a)) \in Nat
      /\ Cardinality(Drain) \in Nat
  BY RetriersFinite
<1>2. IsFiniteSet(S) /\ Cardinality(S) \in Nat /\ Cardinality(S) <= Cardinality(Retriers(a))
  BY <1>1, FS_Subset, FS_CardinalityType
<1>3. ASSUME NEW d \in Drain, d \notin S PROVE Cardinality(S) <= Cardinality(Drain) - 1
  <2>1. S \subseteq Drain \ {d}
    BY <1>3 DEF Retriers
  <2>2. IsFiniteSet(Drain \ {d}) /\ Cardinality(Drain \ {d}) = Cardinality(Drain) - 1
    BY FS_RemoveElement
  <2>3. QED
    BY <2>1, <2>2, FS_Subset
<1>4. ASSUME NEW d \in Retriers(a), d \notin S
      PROVE  Cardinality(S) <= Cardinality(Retriers(a)) - 1
  <2>1. S \subseteq Retriers(a) \ {d}
    BY <1>4
  <2>2. /\ IsFiniteSet(Retriers(a) \ {d})
        /\ Cardinality(Retriers(a) \ {d}) = Cardinality(Retriers(a)) - 1
    BY <1>1, FS_RemoveElement
  <2>3. QED
    BY <2>1, <2>2, FS_Subset
<1>5. QED
  BY <1>2, <1>3, <1>4

\* What a step of execute does to who may put which row back.
LEMMA WorkRetries ==
  ASSUME TypeOK, TakenOnce, NEW d \in Drain, Works(d), OwnWrites(d),
         NEW a \in Action, a = cur[d]
  PROVE  /\ faults' \in {faults, faults + 1} /\ TakenOnce'
         /\ \A b \in Action \ {a} : /\ attempts'[b] = attempts[b]
                                         /\ Retriers(b)' = Retriers(b)
         /\ Retriers(a)' \subseteq Retriers(a)
         /\ cur'[d] = None => d \notin Retriers(a)'
<1> USE ExecutorAssumption, CaseOfAssumption
<1>1. /\ batch' = batch /\ faults' \in {faults, faults + 1}
      /\ \A e \in Drain \ {d} : seen'[e] = seen[e]
      /\ \A b \in Action \ {a} : seen'[d][b] = seen[d][b]
      /\ cur'[d] # None => seen'[d] = seen[d]
  <2>1. ASSUME Step(d, "policy") \/ Step(d, "record") \/ Step(d, "call")
               \/ Step(d, "accepted") \/ Step(d, "contact") \/ Step(d, "optOut")
               \/ Step(d, "optCancel")
        PROVE  batch' = batch /\ seen' = seen /\ faults' = faults
    BY <2>1 DEF Step, history
  <2>2. ASSUME Finish(d)
        PROVE  /\ batch' = batch /\ faults' = faults /\ cur'[d] = None
               /\ \A e \in Drain \ {d} : seen'[e] = seen[e]
               /\ \A b \in Action \ {a} : seen'[d][b] = seen[d][b]
    BY <2>2 DEF Finish, TypeOK, StackTypeOK
  <2>3. CASE LoadStop(d)
    BY <2>2, <2>3 DEF LoadStop, Verdict, Continue, history
  <2>4. QED
    BY <2>1, <2>2, <2>3 DEF Works, CancelStopped, RecordStop, LoadPolicy,
       Call, Calling, Withhold, GiveUp, CallNothing, RecordSent, InsertContact,
       WriteTouches, StoreOptOut, CancelOptedOut, HandleFailure,
       ThrowInDispatch, Fault, history
<1>2. \A b \in Action \ {a} : attempts'[b] = attempts[b]
  BY DEF OwnWrites, Works, LoadStop, Verdict, Continue, CancelStopped, RecordStop,
     LoadPolicy, Call, Calling, Withhold, GiveUp, CallNothing, RecordSent, InsertContact,
     WriteTouches, StoreOptOut, CancelOptedOut, HandleFailure, ThrowInDispatch,
     MarkSuppressed, Reschedule, CancelPendingForCase, DeadLetter, MarkSent,
     MarkRetry, rows, TypeOK, RowsTypeOK
<1>3. ASSUME NEW b \in Action \ {a} PROVE Retriers(b)' = Retriers(b)
  BY <1>1, <1>3 DEF Retriers, OwnWrites
<1>4. Retriers(a)' \subseteq Retriers(a) /\ TakenOnce'
  <2>1. ASSUME NEW e \in Drain, a \in batch'[e] \/ cur'[e] = a,
               seen'[e][a] + 1 < MaxAttempts
        PROVE  e \in Retriers(a)
    BY <1>1, <2>1 DEF Retriers, OwnWrites, TakenOnce
  <2>2. QED
    BY <1>1, <2>1 DEF Retriers, OwnWrites, TakenOnce, TypeOK, StackTypeOK
<1>5. ASSUME cur'[d] = None PROVE d \notin Retriers(a)'
  BY <1>1, <1>5 DEF Retriers, OwnWrites, TakenOnce
<1>6. QED
  BY <1>1, <1>2, <1>3, <1>4, <1>5

\* What it does to its own row: an attempt is recorded with the outcome only.
OwnAttempt(d) ==
  \/ /\ attempts'[cur[d]] = attempts[cur[d]]
     /\ status'[cur[d]] \in Open => status[cur[d]] \in Open
     /\ pc'[d] \in {"contact", "touch", "optOut", "optCancel"} =>
          pc[d] \in {"contact", "touch", "optOut", "optCancel"}
     /\ pc'[d] = "fail" /\ status'[cur[d]] = "SENT" =>
          /\ pc[d] \in {"contact", "touch", "optOut", "optCancel"}
          /\ faults' = faults + 1
  \/ /\ attempts'[cur[d]] = attempts[cur[d]] + 1
     /\ status[cur[d]] = "IN_FLIGHT" /\ status'[cur[d]] = "SENT"
     /\ pc'[d] # "fail"
  \/ /\ attempts'[cur[d]] = attempts[cur[d]] + 1
     /\ pc[d] \in {"call", "fail"} /\ pc'[d] = "next" /\ cur'[d] = None
     /\ \/ status'[cur[d]] = "DEAD_LETTER"
        \/ /\ status'[cur[d]] = "SCHEDULED"
           /\ pc[d] = "fail" /\ d \in Retriers(cur[d])

LEMMA WorkAttempts ==
  ASSUME TypeOK, ClaimExclusive, NEW d \in Drain, Works(d), OwnWrites(d)
  PROVE  OwnAttempt(d)
<1> USE ExecutorAssumption, CaseOfAssumption
<1>1. cur[d] \in Action /\ status[cur[d]] \in RowAt(pc[d]) /\ attempts[cur[d]] \in Nat
  BY DEF OwnWrites, ClaimExclusive, TypeOK, RowsTypeOK
<1>2. CASE LoadStop(d) \/ LoadPolicy(d)
  <2>1. pc[d] \in {"gate", "policy"} /\ status[cur[d]] = "IN_FLIGHT"
    BY <1>1, <1>2 DEF LoadStop, LoadPolicy, RowAt
  <2>2. attempts'[cur[d]] = attempts[cur[d]] /\ pc'[d] \in {"cancel", "next", "policy", "call"}
    BY <1>2 DEF LoadStop, Verdict, Continue, LoadPolicy, MarkSuppressed, Reschedule,
       rows, Finish, Step, Goto, TypeOK, StackTypeOK
  <2>3. QED
    BY <2>1, <2>2 DEF OwnAttempt, Open
<1>3. CASE CancelStopped(d) \/ RecordStop(d) \/ CancelOptedOut(d)
  <2>1. status[cur[d]] \in {"SENT", "SUPPRESSED"} /\ pc'[d] \in {"record", "next"}
    BY <1>1, <1>3 DEF CancelStopped, RecordStop, CancelOptedOut, RowAt, Finish,
       Step, Goto, TypeOK, StackTypeOK
  <2>2. attempts' = attempts /\ status'[cur[d]] = status[cur[d]]
    BY <1>1, <1>3, <2>1 DEF CancelStopped, RecordStop, CancelOptedOut,
       CancelPendingForCase, rows, TypeOK, RowsTypeOK
  <2>3. QED
    BY <2>1, <2>2 DEF OwnAttempt, Open
<1>4. CASE Call(d) \/ CallNothing(d) \/ InsertContact(d) \/ WriteTouches(d)
           \/ StoreOptOut(d)
  <2>1. attempts' = attempts /\ status' = status
    BY <1>4 DEF Call, Calling, CallNothing, InsertContact, WriteTouches,
       StoreOptOut, rows
  <2>2. \/ pc[d] = "call" /\ pc'[d] \in {"accepted", "fail"}
        \/ /\ pc[d] \in {"contact", "touch", "optOut"}
           /\ pc'[d] \in {"touch", "optOut", "optCancel", "next"}
    BY <1>4 DEF Call, Calling, CallNothing, InsertContact, WriteTouches,
       StoreOptOut, Finish, Step, Goto, TypeOK, StackTypeOK
  <2>3. pc[d] = "call" => status[cur[d]] = "IN_FLIGHT"
    BY <1>1 DEF RowAt
  <2>4. QED
    BY <2>1, <2>2, <2>3 DEF OwnAttempt
<1>5. CASE Withhold(d)
  BY <1>1, <1>5 DEF Withhold, MarkSuppressed, Finish, Goto, OwnAttempt, Open,
     TypeOK, RowsTypeOK, StackTypeOK
<1>6. CASE GiveUp(d)
  <2>1. /\ pc[d] = "call" /\ pc'[d] = "next" /\ cur'[d] = None
        /\ status'[cur[d]] = "DEAD_LETTER" /\ attempts'[cur[d]] = attempts[cur[d]] + 1
    BY <1>1, <1>6 DEF GiveUp, DeadLetter, Finish, Goto, TypeOK, RowsTypeOK,
       StackTypeOK
  <2>2. QED
    BY <2>1 DEF OwnAttempt
<1>7. CASE RecordSent(d)
  <2>1. /\ pc[d] = "accepted" /\ pc'[d] \in {"contact", "next"}
        /\ status'[cur[d]] = "SENT" /\ attempts'[cur[d]] = attempts[cur[d]] + 1
    BY <1>1, <1>7 DEF RecordSent, MarkSent, Finish, Step, Goto, TypeOK,
       RowsTypeOK, StackTypeOK
  <2>2. QED
    BY <1>1, <2>1 DEF OwnAttempt, RowAt
<1>8. CASE HandleFailure(d)
  <2>1. /\ pc[d] = "fail" /\ pc'[d] = "next" /\ cur'[d] = None
        /\ attempts'[cur[d]] = attempts[cur[d]] + 1
    BY <1>1, <1>8 DEF HandleFailure, DeadLetter, MarkRetry, Finish, Goto, TypeOK,
       RowsTypeOK, StackTypeOK
  <2>2. \/ status'[cur[d]] = "DEAD_LETTER"
        \/ status'[cur[d]] = "SCHEDULED" /\ ~(seen[d][cur[d]] + 1 >= MaxAttempts)
    BY <1>1, <1>8 DEF HandleFailure, DeadLetter, MarkRetry, TypeOK, RowsTypeOK
  <2>3. seen[d][cur[d]] \in Nat
    BY <1>1 DEF TypeOK, StackTypeOK
  <2>4. QED
    BY <2>1, <2>2, <2>3 DEF OwnAttempt, Retriers
<1>9. CASE ThrowInDispatch(d)
  <2>1. /\ attempts' = attempts /\ status' = status
        /\ pc[d] \in InTry /\ pc'[d] = "fail" /\ faults' = faults + 1
    BY <1>9 DEF ThrowInDispatch, Fault, rows, Goto, TypeOK, StackTypeOK
  <2>2. QED
    BY <1>1, <2>1 DEF OwnAttempt, InTry, RowAt
<1>10. QED
  BY <1>2, <1>3, <1>4, <1>5, <1>6, <1>7, <1>8, <1>9 DEF Works

LEMMA WorkKeepsAttempts ==
  ASSUME TypeOK, TypeOK', ClaimExclusive, AttemptInv,
         NEW d \in Drain, Works(d), OwnWrites(d)
  PROVE  AttemptInv'
<1> USE ExecutorAssumption
<1> DEFINE Most == MaxAttempts + Cardinality(Drain) - 1
           Count(b) == Cardinality(Retriers(b))
<1>1. PICK a \in Action : a = cur[d]
  BY DEF OwnWrites
<1>2. /\ faults' \in {faults, faults + 1} /\ TakenOnce'
      /\ \A b \in Action \ {a} : /\ attempts'[b] = attempts[b]
                                 /\ Retriers(b)' = Retriers(b)
      /\ Retriers(a)' \subseteq Retriers(a)
      /\ cur'[d] = None => d \notin Retriers(a)'
  BY <1>1, WorkRetries DEF AttemptInv
<1>3. Cardinality(Drain) \in Nat /\ Cardinality(Drain) >= 1 /\ MaxAttempts \in Nat \ {0}
  BY FS_CardinalityType, FS_EmptySet
<1>4. faults \in Nat /\ faults' \in Nat /\ Most \in Nat
  BY <1>3 DEF TypeOK, CountsTypeOK
<1>5. \A b \in Action : attempts[b] \in Nat /\ attempts'[b] \in Nat
  BY DEF TypeOK, RowsTypeOK
<1>6. \A b \in Action : Count(b) \in Nat
  BY RetriersFinite
<1>7. \A b \in Action \ {a} : Count(b)' = Count(b)
  BY <1>2
<1>8. /\ Count(a)' \in Nat /\ Count(a)' <= Count(a)
      /\ cur'[d] = None => Count(a)' <= Cardinality(Drain) - 1
      /\ cur'[d] = None /\ d \in Retriers(a) => Count(a)' <= Count(a) - 1
  BY <1>2, LeftGrows
<1> HIDE DEF Count
<1>9. \A b \in Action : /\ Left(b) = Most + faults - Count(b)
                        /\ Left(b)' = Most + faults' - Count(b)'
  BY DEF Left, Count
<1> HIDE DEF Most
<1>10. \A b \in Action \ {a} : Left(b)' >= Left(b) /\ Left(b) \in Int /\ Left(b)' \in Int
  BY <1>2, <1>4, <1>6, <1>7, <1>9
<1>11. /\ Left(a)' >= Left(a) /\ Left(a) \in Int /\ Left(a)' \in Int
       /\ faults' = faults + 1 => Left(a)' >= Left(a) + 1
       /\ cur'[d] = None => Left(a)' >= MaxAttempts + faults
       /\ cur'[d] = None /\ d \in Retriers(a) => Left(a)' >= Left(a) + 1
       /\ Left(a)' <= Most + faults' /\ Left(a) <= Most + faults
  BY <1>2, <1>3, <1>4, <1>6, <1>8, <1>9 DEF Most
<1>12. OwnAttempt(d)
  BY WorkAttempts
<1>13. ASSUME NEW b \in Action
       PROVE  /\ attempts'[b] <= Most + faults'
              /\ status'[b] \in Open /\ attempts'[b] >= MaxAttempts - 1 => attempts'[b] < Left(b)'
  <2>1. /\ attempts[b] <= Most + faults
        /\ status[b] \in Open /\ attempts[b] >= MaxAttempts - 1 => attempts[b] < Left(b)
    BY DEF AttemptInv, AttemptBudget, OpenLeft, Most
  <2>2. CASE b # a
    <3>1. status'[b] \in Open => status[b] \in Open
      BY <1>1, <2>2 DEF OwnWrites, Open
    <3>2. QED
      BY <1>2, <1>4, <1>5, <1>10, <2>1, <2>2, <3>1
  <2>3. CASE b = a
    <3>1. CASE /\ attempts'[a] = attempts[a]
               /\ status'[a] \in Open => status[a] \in Open
      BY <1>2, <1>4, <1>5, <1>11, <2>1, <2>3, <3>1
    <3>2. CASE /\ attempts'[a] = attempts[a] + 1
               /\ status[a] = "IN_FLIGHT" /\ status'[a] = "SENT"
      BY <1>2, <1>3, <1>4, <1>5, <1>11, <2>1, <2>3, <3>2 DEF Open, Most
    <3>3. CASE /\ attempts'[a] = attempts[a] + 1 /\ cur'[d] = None
               /\ pc[d] \in {"call", "fail"}
               /\ \/ status'[a] = "DEAD_LETTER"
                  \/ status'[a] = "SCHEDULED" /\ pc[d] = "fail" /\ d \in Retriers(a)
      <4>1. status[a] \in RowAt(pc[d])
        BY <1>1 DEF ClaimExclusive, OwnWrites
      <4>2. status[a] = "IN_FLIGHT" \/ (pc[d] = "fail" /\ status[a] = "SENT")
        BY <3>3, <4>1 DEF RowAt
      <4>3. CASE status[a] = "IN_FLIGHT"
        BY <1>2, <1>3, <1>4, <1>5, <1>11, <2>1, <2>3, <3>3, <4>3 DEF Open, Most
      <4>4. CASE pc[d] = "fail" /\ status[a] = "SENT"
        <5>1. faults > 0 /\ (attempts[a] >= MaxAttempts => attempts[a] < Left(a))
          BY <1>1, <4>4 DEF AttemptInv, SentLeft
        <5>2. QED
          BY <1>2, <1>3, <1>4, <1>5, <1>11, <2>3, <3>3, <5>1 DEF Open, Most
      <4>5. QED
        BY <4>2, <4>3, <4>4
    <3>4. QED
      BY <1>1, <1>12, <3>1, <3>2, <3>3 DEF OwnAttempt
  <2>4. QED
    BY <2>2, <2>3
<1>14. SentLeft'
  <2> SUFFICES ASSUME NEW e \in Drain, NEW b \in Action, b = cur'[e]
               PROVE  /\ pc'[e] \in {"contact", "touch", "optOut", "optCancel"}
                           /\ attempts'[b] >= MaxAttempts
                         => attempts'[b] <= Left(b)'
                      /\ pc'[e] = "fail" /\ status'[b] = "SENT" =>
                           /\ faults' > 0
                           /\ attempts'[b] >= MaxAttempts => attempts'[b] < Left(b)'
    <3>1. \A e \in Drain : pc'[e] \in Holding => cur'[e] \in Action
      BY DEF TypeOK, StackTypeOK
    <3>2. \A e \in Drain, b \in Action : b = cur'[e] => Left(cur[e])' = Left(b)'
      BY DEF Left, Retriers
    <3>3. QED
      BY <3>1, <3>2 DEF SentLeft, Holding, InTry
  <2>1. /\ pc[e] \in {"contact", "touch", "optOut", "optCancel"}
             /\ attempts[cur[e]] >= MaxAttempts
           => attempts[cur[e]] <= Left(cur[e])
        /\ pc[e] = "fail" /\ status[cur[e]] = "SENT" =>
             /\ faults > 0
             /\ attempts[cur[e]] >= MaxAttempts => attempts[cur[e]] < Left(cur[e])
    BY DEF AttemptInv, SentLeft
  <2>2. CASE e # d
    <3>1. pc'[e] = pc[e] /\ cur[e] = b
      BY <2>2 DEF OwnWrites
    <3>2. pc[e] \in Holding => b # a /\ status'[b] = status[b]
      BY <1>1, <2>2, <3>1 DEF OwnWrites, ClaimExclusive, RowAt
    <3>3. QED
      BY <1>2, <1>4, <1>5, <1>10, <2>1, <3>1, <3>2 DEF Holding, InTry
  <2>3. CASE e = d
    <3>1. b = a
      BY <1>1, <2>3 DEF OwnWrites
    <3>2. status[a] = "IN_FLIGHT" /\ attempts[a] >= MaxAttempts - 1 => attempts[a] < Left(a)
      BY DEF AttemptInv, OpenLeft, Open
    <3>3. cur'[d] # None
      BY <2>3, <3>1
    <3>4. QED
      BY <1>1, <1>2, <1>3, <1>4, <1>5, <1>11, <1>12, <2>1, <2>3, <3>1, <3>2, <3>3 DEF OwnAttempt
  <2>4. QED
    BY <2>2, <2>3
<1>15. QED
  BY <1>2, <1>13, <1>14 DEF AttemptInv, AttemptBudget, OpenLeft, Most

\* A step that records no attempt: drains start, claim, stop or die, rows are
\* inserted.
LEMMA RestKeepsAttempts ==
  ASSUME TypeOK, TypeOK', AttemptInv, TakenOnce', faults' \in {faults, faults + 1},
         \A b \in Action :
           /\ \/ attempts'[b] = attempts[b] /\ (status'[b] \in Open => status[b] \in Open)
              \/ attempts'[b] = 0
           /\ attempts'[b] >= MaxAttempts - 1 => Retriers(b)' \subseteq Retriers(b),
         \A e \in Drain :
           \/ /\ pc'[e] = pc[e] /\ cur'[e] = cur[e]
              /\ pc[e] \in Holding =>
                   status'[cur[e]] = status[cur[e]] /\ attempts'[cur[e]] = attempts[cur[e]]
           \/ pc'[e] \in {"next", "gate"}
  PROVE  AttemptInv'
<1> USE ExecutorAssumption
<1> DEFINE Most == MaxAttempts + Cardinality(Drain) - 1
           Count(b) == Cardinality(Retriers(b))
<1>1. /\ Cardinality(Drain) \in Nat /\ (Drain # {} => Cardinality(Drain) >= 1)
      /\ MaxAttempts \in Nat \ {0}
  BY FS_CardinalityType, FS_EmptySet
<1>2. faults \in Nat /\ faults' \in Nat /\ Most \in Nat
  BY <1>1 DEF TypeOK, CountsTypeOK
<1>3. \A b \in Action : attempts[b] \in Nat /\ attempts'[b] \in Nat
  BY DEF TypeOK, RowsTypeOK
<1>4. \A b \in Action : Count(b) \in Nat
  BY RetriersFinite
<1>5. ASSUME NEW b \in Action, attempts'[b] >= MaxAttempts - 1
      PROVE  Count(b)' \in Nat /\ Count(b)' <= Count(b)
  BY <1>5, LeftGrows
<1>6. ASSUME NEW b \in Action, MaxAttempts = 1 PROVE Count(b)' = 0
  <2>1. Retriers(b)' = {}
    BY <1>6 DEF Retriers, TypeOK, StackTypeOK
  <2>2. QED
    BY <2>1, FS_EmptySet
<1> HIDE DEF Count
<1>7. \A b \in Action : /\ Left(b) = Most + faults - Count(b)
                        /\ Left(b)' = Most + faults' - Count(b)'
  BY DEF Left, Count
<1> HIDE DEF Most
<1>8. ASSUME NEW b \in Action
      PROVE  /\ attempts'[b] <= Most + faults'
             /\ Drain # {} /\ status'[b] \in Open /\ attempts'[b] >= MaxAttempts - 1 =>
                  attempts'[b] < Left(b)'
  <2>1. /\ attempts[b] <= Most + faults
        /\ Drain # {} /\ status[b] \in Open /\ attempts[b] >= MaxAttempts - 1 =>
             attempts[b] < Left(b)
    BY DEF AttemptInv, AttemptBudget, OpenLeft, Most
  <2>2. CASE attempts'[b] = attempts[b] /\ (status'[b] \in Open => status[b] \in Open)
    BY <1>2, <1>3, <1>4, <1>5, <1>7, <2>1, <2>2
  <2>3. CASE attempts'[b] = 0
    BY <1>1, <1>2, <1>6, <1>7, <2>3 DEF Most
  <2>4. QED
    BY <2>2, <2>3
<1>9. SentLeft'
  <2> SUFFICES ASSUME NEW e \in Drain, NEW b \in Action, b = cur'[e]
               PROVE  /\ pc'[e] \in {"contact", "touch", "optOut", "optCancel"}
                           /\ attempts'[b] >= MaxAttempts
                         => attempts'[b] <= Left(b)'
                      /\ pc'[e] = "fail" /\ status'[b] = "SENT" =>
                           /\ faults' > 0
                           /\ attempts'[b] >= MaxAttempts => attempts'[b] < Left(b)'
    <3>1. \A e \in Drain : pc'[e] \in Holding => cur'[e] \in Action
      BY DEF TypeOK, StackTypeOK
    <3>2. \A e \in Drain, b \in Action : b = cur'[e] => Left(cur[e])' = Left(b)'
      BY DEF Left, Retriers
    <3>3. QED
      BY <3>1, <3>2 DEF SentLeft, Holding, InTry
  <2>1. CASE pc'[e] \notin {"contact", "touch", "optOut", "optCancel", "fail"}
    BY <2>1
  <2>2. CASE pc'[e] \in {"contact", "touch", "optOut", "optCancel", "fail"}
    <3>1. /\ pc'[e] = pc[e] /\ cur[e] = b
          /\ status'[b] = status[b] /\ attempts'[b] = attempts[b]
      BY <2>2 DEF Holding, InTry
    <3>2. /\ pc[e] \in {"contact", "touch", "optOut", "optCancel"}
               /\ attempts[b] >= MaxAttempts
             => attempts[b] <= Left(b)
          /\ pc[e] = "fail" /\ status[b] = "SENT" =>
               /\ faults > 0
               /\ attempts[b] >= MaxAttempts => attempts[b] < Left(b)
      BY <3>1 DEF AttemptInv, SentLeft
    <3>3. attempts'[b] >= MaxAttempts => Left(b)' >= Left(b) /\ Left(b) \in Int /\ Left(b)' \in Int
      BY <1>1, <1>2, <1>3, <1>4, <1>5, <1>7
    <3>4. QED
      BY <1>1, <1>2, <1>3, <3>1, <3>2, <3>3
  <2>3. QED
    BY <2>1, <2>2
<1>10. QED
  BY <1>8, <1>9 DEF AttemptInv, AttemptBudget, OpenLeft, Most

\* A row is attempted at most MaxAttempts times, once more for every further
\* drain and for every failure: a drain that judges by the count it read
\* before its claim does so once.
THEOREM AttemptsAreBudgeted == Spec => []AttemptBudget
<1> USE CaseOfAssumption, ExecutorAssumption
<1>1. Init => AttemptInv
  <2> SUFFICES ASSUME Init PROVE AttemptInv
    OBVIOUS
  <2>1. TakenOnce /\ SentLeft
    BY DEF Init, TakenOnce, SentLeft
  <2>2. faults = 0 /\ \A a \in Action : attempts[a] = 0
    BY DEF Init, RowsInit
  <2>3. MaxAttempts \in Nat \ {0} /\ Cardinality(Drain) \in Nat
    BY FS_CardinalityType
  <2>4. AttemptBudget
    <3>1. 0 <= MaxAttempts + Cardinality(Drain) - 1 + faults
      BY <2>2, <2>3
    <3>2. QED
      BY <2>2, <3>1 DEF AttemptBudget
  <2>5. ASSUME NEW a \in Action, Drain # {} PROVE attempts[a] < Left(a)
    <3>1. Retriers(a) = {}
      BY DEF Init, Retriers
    <3>2. Cardinality(Retriers(a)) = 0 /\ Cardinality(Drain) # 0
      BY <2>5, <3>1, FS_EmptySet
    <3>3. QED
      BY <2>2, <2>3, <3>2 DEF Left
  <2>6. QED
    BY <2>1, <2>4, <2>5 DEF AttemptInv, OpenLeft
<1>2. TypeOK /\ TypeOK' /\ ClaimExclusive /\ AttemptInv /\ [Next]_vars => AttemptInv'
  <2> SUFFICES ASSUME TypeOK, TypeOK', ClaimExclusive, AttemptInv, [Next]_vars
               PROVE  AttemptInv'
    OBVIOUS
  <2>1. ASSUME NEW d \in Drain, Works(d) PROVE AttemptInv'
    BY <2>1, WorkIsOwn, WorkKeepsAttempts
  <2>2. ASSUME NEW S, Dead(S), Fault PROVE AttemptInv'
    <3>1. UNCHANGED <<status, attempts>> /\ faults' = faults + 1
      BY <2>2 DEF Dead, rows, Fault
    <3>2. \A e \in Drain :
            \/ pc'[e] = pc[e] /\ cur'[e] = cur[e] /\ batch'[e] = batch[e] /\ seen'[e] = seen[e]
            \/ pc'[e] = "next" /\ cur'[e] = None /\ batch'[e] = {}
      BY <2>2 DEF Dead
    <3>3. TakenOnce' /\ \A b \in Action : Retriers(b)' \subseteq Retriers(b)
      BY <3>2 DEF AttemptInv, TakenOnce, Retriers
    <3>4. QED
      BY <3>1, <3>2, <3>3, RestKeepsAttempts
  <2>3. ASSUME NEW d \in Drain, StartDrain(d) PROVE AttemptInv'
    <3>1. /\ UNCHANGED <<status, attempts, pc, cur, faults>>
          /\ batch' = [batch EXCEPT ![d] = Due]
          /\ seen' = [seen EXCEPT ![d] = [a \in Action |-> IF a \in Due THEN attempts[a] ELSE 0]]
          /\ cur[d] = None
      BY <2>3 DEF StartDrain, rows, history, TypeOK, StackTypeOK, Holding, InTry
    <3>2. TakenOnce'
      BY <3>1 DEF AttemptInv, TakenOnce, Due, TypeOK, StackTypeOK
    <3>3. ASSUME NEW b \in Action, attempts[b] >= MaxAttempts - 1, NEW e \in Retriers(b)'
          PROVE  e \in Retriers(b)
      <4>1. CASE e # d
        BY <3>1, <3>3, <4>1 DEF Retriers, TypeOK, StackTypeOK
      <4>2. CASE e = d
        BY <3>1, <3>3, <4>2 DEF Retriers, TypeOK, StackTypeOK, RowsTypeOK
      <4>3. QED
        BY <4>1, <4>2
    <3>4. QED
      BY <3>1, <3>2, <3>3, RestKeepsAttempts
  <2>4. ASSUME NEW d \in Drain, HaltDrain(d) PROVE AttemptInv'
    <3>1. /\ UNCHANGED <<status, attempts, pc, cur, faults>>
          /\ batch' = [batch EXCEPT ![d] = {}]
          /\ seen' = [seen EXCEPT ![d] = [a \in Action |-> 0]]
          /\ cur[d] = None
      BY <2>4 DEF HaltDrain, rows, history, TypeOK, StackTypeOK, Holding, InTry
    <3>2. TakenOnce' /\ \A b \in Action : Retriers(b)' \subseteq Retriers(b)
      BY <3>1 DEF AttemptInv, TakenOnce, Retriers, TypeOK, StackTypeOK
    <3>3. QED
      BY <3>1, <3>2, RestKeepsAttempts
  <2>5. ASSUME NEW d \in Drain, NEW a \in Action, ClaimRow(d, a) PROVE AttemptInv'
    <3>1. /\ UNCHANGED <<attempts, seen, faults>>
          /\ pc[d] = "next" /\ pc' = [pc EXCEPT ![d] = "gate"]
          /\ cur' = [cur EXCEPT ![d] = a] /\ cur[d] = None
          /\ a \in batch[d] /\ batch' = [batch EXCEPT ![d] = @ \ {a}]
          /\ status[a] = "SCHEDULED" /\ status' = [status EXCEPT ![a] = "IN_FLIGHT"]
      BY <2>5 DEF ClaimRow, TakeRow, Claimable, Claim, Goto, TypeOK, StackTypeOK,
         Holding, InTry
    <3>2. TakenOnce' /\ \A b \in Action : Retriers(b)' \subseteq Retriers(b)
      BY <3>1 DEF AttemptInv, TakenOnce, Retriers, TypeOK, StackTypeOK
    <3>3. \A b \in Action : status'[b] \in Open => status[b] \in Open
      BY <3>1 DEF Open, TypeOK, RowsTypeOK
    <3>4. \A e \in Drain \ {d} : /\ pc'[e] = pc[e] /\ cur'[e] = cur[e]
                                 /\ pc[e] \in Holding => status'[cur[e]] = status[cur[e]]
      BY <3>1 DEF ClaimExclusive, RowAt, TypeOK, StackTypeOK, RowsTypeOK
    <3>5. QED
      BY <3>1, <3>2, <3>3, <3>4, RestKeepsAttempts DEF TypeOK, StackTypeOK
  <2>6. ASSUME NEW d \in Drain, NEW a \in Action, SkipRow(d, a) PROVE AttemptInv'
    <3>1. /\ UNCHANGED <<status, attempts, pc, cur, faults>> /\ cur[d] = None
          /\ batch' = [batch EXCEPT ![d] = @ \ {a}]
          /\ seen' = [seen EXCEPT ![d][a] = 0]
      BY <2>6 DEF SkipRow, TakeRow, rows, history, TypeOK, StackTypeOK, Holding, InTry
    <3>2. TakenOnce' /\ \A b \in Action : Retriers(b)' \subseteq Retriers(b)
      BY <3>1 DEF AttemptInv, TakenOnce, Retriers, TypeOK, StackTypeOK
    <3>3. QED
      BY <3>1, <3>2, RestKeepsAttempts
  <2>7. ASSUME NEW a \in Action, Submit(a) PROVE AttemptInv'
    <3>1. /\ UNCHANGED <<pc, cur, batch, seen, faults>> /\ status[a] = "ABSENT"
          /\ status' = [status EXCEPT ![a] = "SCHEDULED"]
          /\ attempts' = [attempts EXCEPT ![a] = 0]
      BY <2>7 DEF Submit, Enqueue, stack, history
    <3>2. TakenOnce' /\ \A b \in Action : Retriers(b)' \subseteq Retriers(b)
      BY <3>1 DEF AttemptInv, TakenOnce, Retriers
    <3>3. \A e \in Drain : pc[e] \in Holding => cur[e] \in Action \ {a}
      BY <3>1 DEF ClaimExclusive, RowAt, TypeOK, StackTypeOK
    <3>4. /\ attempts'[a] = 0
          /\ \A b \in Action \ {a} : attempts'[b] = attempts[b] /\ status'[b] = status[b]
      BY <3>1 DEF TypeOK, RowsTypeOK
    <3>5. QED
      BY <3>1, <3>2, <3>3, <3>4, RestKeepsAttempts
  <2>8. ASSUME UNCHANGED <<status, attempts, pc, cur, batch, seen, faults>>
        PROVE  AttemptInv'
    <3>1. TakenOnce' /\ \A b \in Action : Retriers(b)' \subseteq Retriers(b)
      BY <2>8 DEF AttemptInv, TakenOnce, Retriers
    <3>2. QED
      BY <2>8, <3>1, RestKeepsAttempts
  <2>9. QED
    BY <2>1, <2>2, <2>3, <2>4, <2>5, <2>6, <2>7, <2>8 DEF Next, Advance, Works,
       Abort, Crash, Wait, ComesDue, Pay, Reply, ReadSwitches, FetchCase,
       FetchPerson, Release, vars, rows, stack, history
<1>3. QED
  BY <1>1, <1>2, TypeCorrect, ClaimIsExclusive, PTL DEF Spec, AttemptInv

===============================================================================
