--------------------------- MODULE CaseCourseProofs ---------------------------
(***************************************************************************)
(* What a case's course adds up to, for any course, policy and sequence of *)
(* ticks, events, deferrals and crashes.                                   *)
(*                                                                         *)
(* The gates judge one row at one instant on what the context builder      *)
(* loads.  The first half says what their clearance means: what a cleared  *)
(* row is permitted, read off the rules.  The second half is about time:   *)
(* Timeline says that what is in the tables lies in the past, that what is *)
(* selected for the drain is queued, and that promises and replies have    *)
(* the dates they must have.  So what a gate was shown stays true of the   *)
(* past, and nothing comes in beneath what was judged already.  Each       *)
(* theorem is then a step: what is new was cleared over what is old.       *)
(*                                                                         *)
(* The third part is about what is put off.  That every rule defers to an  *)
(* instant ahead is a matter of the calendar: a civil date names its day,  *)
(* so the hour of a window, the next morning and the next banking day come *)
(* after the instant that asks.  From it follow the rows of the outbox,    *)
(* the date of the next decision and the types of all tables.              *)
(***************************************************************************)
EXTENDS CaseCourse, FiniteSetTheorems, WellFoundedInduction, TLAPS

-----------------------------------------------------------------------------
(* Latest and Earliest *)

LEMMA NatHasLeast ==
  ASSUME NEW S \in SUBSET Nat, S # {}
  PROVE  \E x \in S : \A y \in S : x <= y
<1>1. PICK x \in S : \A y \in S : <<y, x>> \notin OpToRel(<, Nat)
  BY NatLessThanWellFounded, WFMin
<1>2. \A y \in S : ~(y < x)
  BY <1>1, Zenon DEF OpToRel
<1> QED BY <1>2

\* Of a set of instants with an upper bound, Latest is one and none is later.
LEMMA LatestIs ==
  ASSUME NEW S \in SUBSET Int, S # {}, NEW b \in Int, \A s \in S : s <= b
  PROVE  Latest(S) \in S /\ \A s \in S : s <= Latest(S)
<1> DEFINE T == {n \in Nat : \E s \in S : n = b - s}
<1>1. T # {}
  <2>1. PICK s \in S : TRUE OBVIOUS
  <2>2. b - s \in T BY <2>1
  <2> QED BY <2>2
<1>2. PICK n \in T : \A m \in T : n <= m
  <2> HIDE DEF T
  <2>1. T \in SUBSET Nat BY DEF T
  <2> QED BY <1>1, <2>1, NatHasLeast
<1>3. PICK s \in S : n = b - s BY <1>2
<1>4. \A u \in S : u <= s
  <2> TAKE u \in S
  <2>1. b - u \in T OBVIOUS
  <2> QED BY <1>2, <1>3, <2>1
<1> QED BY <1>3, <1>4 DEF Latest

\* Of a set of instants with a lower bound, Earliest is one and none is earlier.
LEMMA EarliestIs ==
  ASSUME NEW S \in SUBSET Int, S # {}, NEW b \in Int, \A s \in S : b <= s
  PROVE  Earliest(S) \in S /\ \A s \in S : Earliest(S) <= s
<1> DEFINE T == {n \in Nat : \E s \in S : n = s - b}
<1>1. T # {}
  <2>1. PICK s \in S : TRUE OBVIOUS
  <2>2. s - b \in T BY <2>1
  <2> QED BY <2>2
<1>2. PICK n \in T : \A m \in T : n <= m
  <2> HIDE DEF T
  <2>1. T \in SUBSET Nat BY DEF T
  <2> QED BY <1>1, <2>1, NatHasLeast
<1>3. PICK s \in S : n = s - b BY <1>2
<1>4. \A u \in S : s <= u
  <2> TAKE u \in S
  <2>1. u - b \in T OBVIOUS
  <2> QED BY <1>2, <1>3, <2>1
<1> QED BY <1>3, <1>4 DEF Earliest

\* A finite set of integers has a least element.  A smallest set without one
\* would, less any of its elements, have one, and so have one itself.
LEMMA FiniteHasLeast ==
  ASSUME NEW S \in SUBSET Int, S # {}, IsFiniteSet(S)
  PROVE  \E b \in S : \A s \in S : b <= s
<1> DEFINE Least(T) == \E b \in T : \A s \in T : b <= s
           Sizes == {n \in Nat : \E T \in SUBSET Int :
                       T # {} /\ IsFiniteSet(T) /\ Cardinality(T) = n /\ ~Least(T)}
<1>1. SUFFICES ASSUME ~Least(S) PROVE FALSE
  OBVIOUS
<1>2. Cardinality(S) \in Sizes
  BY <1>1, FS_CardinalityType
<1>3. PICK n \in Sizes : \A m \in Sizes : n <= m
  <2> HIDE DEF Sizes
  <2>1. Sizes \in SUBSET Nat BY DEF Sizes
  <2> QED BY <1>2, <2>1, NatHasLeast
<1>4. PICK T \in SUBSET Int : T # {} /\ IsFiniteSet(T) /\ Cardinality(T) = n /\ ~Least(T)
  BY <1>3
<1>5. PICK x \in T : TRUE
  BY <1>4
<1>6. /\ IsFiniteSet(T \ {x}) /\ Cardinality(T \ {x}) = n - 1
      /\ Cardinality(T \ {x}) \in Nat
  <2>1. IsFiniteSet(T \ {x}) /\ Cardinality(T \ {x}) = Cardinality(T) - 1
    BY <1>4, <1>5, FS_RemoveElement
  <2> QED BY <1>4, <2>1, FS_CardinalityType
<1>7. T \ {x} # {}
  <2>1. SUFFICES ASSUME T = {x} PROVE FALSE
    BY <1>5
  <2> QED BY <1>4, <1>5, <2>1
<1>8. n - 1 \notin Sizes
  BY <1>3
<1>9. PICK b \in T \ {x} : \A s \in T \ {x} : b <= s
  BY <1>6, <1>7, <1>8
<1>10. Least(T)
  <2>1. CASE x <= b
    <3>1. \A s \in T : x <= s BY <1>5, <1>9, <2>1
    <3> QED BY <1>5, <3>1
  <2>2. CASE ~(x <= b)
    <3>1. \A s \in T : b <= s BY <1>5, <1>9, <2>2
    <3> QED BY <1>9, <3>1
  <2> QED BY <2>1, <2>2
<1> QED BY <1>4, <1>10

-----------------------------------------------------------------------------
(* What the gates let through *)

Permits(c) == \A f \in Failures(c) : on_fail(f.rule) = "MODIFY"

LEMMA ClearedPermits ==
  ASSUME NEW c, Cleared(evaluate(c))
  PROVE  Permits(c)
<1> DEFINE verdicts == {on_fail(f.rule) : f \in Failures(c)}
<1>1. VerdictOf(Failures(c)) \in {"ALLOW", "MODIFY"}
  BY DEF Cleared, evaluate, DecisionOn
<1>2. "DENY" \notin verdicts /\ "DEFER" \notin verdicts
  BY <1>1 DEF VerdictOf
<1>3. \A f \in Failures(c) : on_fail(f.rule) \in {"DENY", "DEFER", "MODIFY"}
  BY DEF on_fail
<1> QED BY <1>2, <1>3 DEF Permits

LEMMA NoHoldsPermits ==
  ASSUME NEW c, Holds(evaluate(c)) = {}
  PROVE  Permits(c)
BY DEF evaluate, DecisionOn, Holds, Permits

\* A context that is let through keeps the caps, the gap and the promise.
LEMMA FrequencyKept ==
  ASSUME NEW c, Permits(c), c.channel # None
  PROVE  /\ c.touchesCase7d < Policy.max_per_case_7d
         /\ c.touchesCustomer7d < Policy.max_per_customer_7d
         /\ c.lastTouchAt = None \/ c.at - c.lastTouchAt >= Policy.min_gap_hours * HOUR
         /\ ~c.hasActivePromise
<1>1. Frequency(c) \cup Escalation(c) \subseteq Failures(c)
  BY DEF Failures
<1>2. \A rule \in AllContact \ {"WA_SESSION_WINDOW"} :
         applies(rule, c) /\ \A until : Failure(rule, until) \notin Failures(c)
  BY DEF applies, AllContact, on_fail, Permits, Failure
<1>3. c.touchesCase7d < Policy.max_per_case_7d
  BY <1>1, <1>2 DEF Frequency, Rule, AllContact
<1>4. c.touchesCustomer7d < Policy.max_per_customer_7d
  BY <1>1, <1>2 DEF Frequency, Rule, AllContact
<1>5. c.lastTouchAt = None \/ c.at - c.lastTouchAt >= Policy.min_gap_hours * HOUR
  BY <1>1, <1>2 DEF Frequency, Rule, AllContact
<1>6. ~c.hasActivePromise
  BY <1>1, <1>2 DEF Escalation, Rule, AllContact
<1> QED BY <1>3, <1>4, <1>5, <1>6

LEMMA LadderKept ==
  ASSUME NEW c, Permits(c)
  PROVE  /\ rungIndexOf(c.action) <= c.rungReached + 1
         /\ \/ rungIndexOf(c.action) <= c.rungReached
            \/ c.lastRungChangeAt = None
            \/ c.at - c.lastRungChangeAt >= Dwell(c)
<1>1. Escalation(c) \subseteq Failures(c)
  BY DEF Failures
<1>2. \A rule \in AllActions :
         applies(rule, c) /\ \A until : Failure(rule, until) \notin Failures(c)
  BY DEF applies, AllActions, on_fail, Permits, Failure
<1>3. rungIndexOf(c.action) <= c.rungReached + 1
  BY <1>1, <1>2 DEF Escalation, Rule, Check, AllActions
<1>4. \/ rungIndexOf(c.action) <= c.rungReached
      \/ c.lastRungChangeAt = None
      \/ c.at - c.lastRungChangeAt >= Dwell(c)
  BY <1>1, <1>2 DEF Escalation, Rule, AllActions
<1> QED BY <1>3, <1>4

LEMMA NoticeKept ==
  ASSUME NEW c, Permits(c), c.action \in ChargeTypes
  PROVE  c.preDebitNoticeSentAt # None /\ c.at - c.preDebitNoticeSentAt >= NoticeSpan
<1>1. Mandate(c) \subseteq Failures(c)
  BY DEF Failures
<1>2. \A rule \in {"PRE_DEBIT_NOTICE", "MANDATE_REQUIRED"} :
         applies(rule, c) /\ \A until : Failure(rule, until) \notin Failures(c)
  <2> TAKE rule \in {"PRE_DEBIT_NOTICE", "MANDATE_REQUIRED"}
  <2>1. c.action \in AppliesTo(rule) BY DEF AppliesTo
  <2> QED BY <2>1 DEF applies, AllContact, AllActions, on_fail, Permits, Failure
<1>3. isMandateDebit(c)
  BY <1>1, <1>2 DEF Mandate, Rule, Check
<1> QED BY <1>1, <1>2, <1>3 DEF Mandate, Rule

\* A stop gate without a reason found no condition that stops.
LEMMA NoConditionStops ==
  ASSUME NEW s, Reason(s) = None
  PROVE  \A i \in DOMAIN CONDITIONS : ~Stops(s, CONDITIONS[i])
<1> DEFINE stopping == {i \in DOMAIN CONDITIONS : Stops(s, CONDITIONS[i])}
<1>1. SUFFICES ASSUME stopping # {} PROVE FALSE
  OBVIOUS
<1>2. stopping \in SUBSET Nat
  BY DEF CONDITIONS
<1>3. Earliest(stopping) \in stopping
  <2> HIDE DEF stopping
  <2>1. \A i \in stopping : 0 <= i BY <1>2
  <2>2. stopping \in SUBSET Int BY <1>2
  <2> QED BY <1>1, <2>1, <2>2, EarliestIs
<1>4. Reason(s) = CONDITIONS[Earliest(stopping)]
  BY <1>1 DEF Reason
<1> QED BY <1>3, <1>4, NoneAssumption

-----------------------------------------------------------------------------
(* What the course loads for the gates *)

LastTouch == Latest({x.sentAt : x \in Recent})

LastNotice == Latest({a.executedAt : a \in {b \in Sent : b.type = "SEND_PRE_DEBIT_NOTICE"}})

\* What a message to the customer must find.
TouchAllowed ==
  /\ Cardinality(Recent) < Policy.max_per_customer_7d
  /\ LastTouch = None \/ now - LastTouch >= Policy.min_gap_hours * HOUR

\* And what one of the case must find besides.
OwnTouchAllowed ==
  /\ Cardinality({x \in Recent : x.own}) < Policy.max_per_case_7d
  /\ activePromise(promises) = None

\* What any action must find.
ExecutionAllowed(type) ==
  /\ row.disputeOpenedAt = None
  /\ ~inboundSignals("DISTRESS") /\ ~inboundSignals("ABUSE")
  /\ type \in ChargeTypes => LastNotice # None /\ now - LastNotice >= NoticeSpan
  /\ rungIndexOf(type) <= RungReached + 1
  /\ \/ rungIndexOf(type) <= RungReached
     \/ LastRungChange = None
     \/ now - LastRungChange >= Authority.dwell[RungReached + 1] * DAY

\* The contexts of a row at the gates.
PolicyContextOf(a) == policyContext(load, a.type, a.channel, None)
StopContextOf(a) == stopContext(load, a.type, a.bestRemainingEv)

LEMMA ContextIs ==
  ASSUME NEW a
  PROVE  /\ PolicyContextOf(a).at = now
         /\ PolicyContextOf(a).action = a.type
         /\ PolicyContextOf(a).channel = a.channel
         /\ PolicyContextOf(a).touchesCase7d = Cardinality({x \in Recent : x.own})
         /\ PolicyContextOf(a).touchesCustomer7d = Cardinality(Recent)
         /\ PolicyContextOf(a).lastTouchAt = LastTouch
         /\ PolicyContextOf(a).rungReached = RungReached
         /\ PolicyContextOf(a).lastRungChangeAt = LastRungChange
         /\ PolicyContextOf(a).hasActivePromise = (activePromise(promises) # None)
         /\ PolicyContextOf(a).preDebitNoticeSentAt = LastNotice
BY DEF PolicyContextOf, policyContext, load, LastTouch, LastNotice

LEMMA StopContextIs ==
  ASSUME NEW a
  PROVE  /\ StopContextOf(a).disputeOpen = (row.disputeOpenedAt # None)
         /\ StopContextOf(a).distressSignalled = inboundSignals("DISTRESS")
         /\ StopContextOf(a).abuseSignalled = inboundSignals("ABUSE")
BY DEF StopContextOf, stopContext, load

LEMMA ClearedGates ==
  ASSUME NEW a, Cleared(Verdict(a))
  PROVE  Permits(PolicyContextOf(a)) /\ Reason(StopContextOf(a)) = None
<1> DEFINE stop == evaluateStopGate(StopContextOf(a))
<1>1. stop.verdict \in {"STOP", "DEFER", "CONTINUE"}
  BY DEF evaluateStopGate
<1>2. stop.verdict = "CONTINUE" => Reason(StopContextOf(a)) = None
  BY DEF evaluateStopGate
<1>3. stop.verdict = "CONTINUE"
  <2>1. CASE stop.verdict # "CONTINUE"
    <3>1. Verdict(a) = stop BY <2>1 DEF Verdict, StopContextOf
    <3>2. Verdict(a).verdict \in {"STOP", "DEFER"} BY <1>1, <2>1, <3>1
    <3> QED BY <3>2 DEF Cleared
  <2> QED BY <2>1
<1>4. Verdict(a) = evaluate(PolicyContextOf(a))
  BY <1>3 DEF Verdict, StopContextOf, PolicyContextOf
<1> QED BY <1>2, <1>3, <1>4, ClearedPermits

LEMMA ExecutionIsAllowed ==
  ASSUME NEW a, Cleared(Verdict(a))
  PROVE  ExecutionAllowed(a.type)
<1> DEFINE s == StopContextOf(a)
           c == PolicyContextOf(a)
<1>1. Permits(c) /\ Reason(s) = None
  BY ClearedGates
<1>2. \A i \in DOMAIN CONDITIONS : ~Stops(s, CONDITIONS[i])
  BY <1>1, NoConditionStops
<1>3. ~Stops(s, "STOP_DISPUTE") /\ ~Stops(s, "STOP_VULNERABILITY") /\ ~Stops(s, "STOP_ABUSE")
  <2>1. {3, 8, 9} \subseteq DOMAIN CONDITIONS BY DEF CONDITIONS
  <2>2. /\ CONDITIONS[3] = "STOP_DISPUTE" /\ CONDITIONS[8] = "STOP_VULNERABILITY"
        /\ CONDITIONS[9] = "STOP_ABUSE"
    BY DEF CONDITIONS
  <2> QED BY <1>2, <2>1, <2>2
<1>4. row.disputeOpenedAt = None /\ ~inboundSignals("DISTRESS") /\ ~inboundSignals("ABUSE")
  <2>1. ~s.disputeOpen /\ ~s.distressSignalled /\ ~s.abuseSignalled
    BY <1>3 DEF Stops
  <2> QED BY <2>1, StopContextIs
<1>5. /\ c.at = now /\ c.action = a.type /\ c.rungReached = RungReached
      /\ c.lastRungChangeAt = LastRungChange /\ c.preDebitNoticeSentAt = LastNotice
  BY ContextIs
<1>6. a.type \in ChargeTypes => LastNotice # None /\ now - LastNotice >= NoticeSpan
  BY <1>1, <1>5, NoticeKept
<1>7. /\ rungIndexOf(a.type) <= RungReached + 1
      /\ \/ rungIndexOf(a.type) <= RungReached
         \/ LastRungChange = None
         \/ now - LastRungChange >= Authority.dwell[RungReached + 1] * DAY
  BY <1>1, <1>5, LadderKept DEF Dwell
<1> QED BY <1>4, <1>6, <1>7 DEF ExecutionAllowed

LEMMA TouchIsAllowed ==
  ASSUME NEW a, Cleared(Verdict(a)), a.channel \in Channel
  PROVE  TouchAllowed /\ OwnTouchAllowed
<1> DEFINE c == PolicyContextOf(a)
<1>1. Permits(c)
  BY ClearedGates
<1>2. /\ c.at = now /\ c.channel = a.channel
      /\ c.touchesCase7d = Cardinality({x \in Recent : x.own})
      /\ c.touchesCustomer7d = Cardinality(Recent)
      /\ c.lastTouchAt = LastTouch
      /\ c.hasActivePromise = (activePromise(promises) # None)
  BY ContextIs
<1>3. c.channel # None
  BY <1>2, NoneAssumption
<1> QED BY <1>1, <1>2, <1>3, FrequencyKept DEF TouchAllowed, OwnTouchAllowed

\* A message of another case.
LEMMA OtherIsAllowed ==
  ASSUME NEW channel \in Channel, OtherContact(channel)
  PROVE  TouchAllowed
<1> DEFINE other == [load EXCEPT !.touchesCase7d = 0, !.rungReached = 0,
                                 !.lastRungChangeAt = None, !.hasActivePromise = FALSE,
                                 !.disputeOpen = FALSE, !.humanApproved = TRUE]
           c == policyContext(other, "SEND_PAYMENT_LINK", channel, None)
<1>1. Permits(c)
  BY NoHoldsPermits DEF OtherContact
<1>2. /\ c.at = now /\ c.channel = channel
      /\ c.touchesCustomer7d = Cardinality(Recent) /\ c.lastTouchAt = LastTouch
  BY DEF policyContext, load, LastTouch
<1> HIDE DEF c
<1>3. c.channel # None
  BY <1>2, NoneAssumption
<1> QED BY <1>1, <1>2, <1>3, FrequencyKept DEF TouchAllowed

-----------------------------------------------------------------------------
(* What a decision may plan *)

Typed(spec) == spec.action \in ActionType /\ spec.channel \in Channel \cup {None}

LEMMA SpecTypes ==
  ASSUME NEW v, v.failureClass \in FailureClass
  PROVE  /\ Typed(WAIT) /\ Typed(controlAction(v))
         /\ \A spec \in specsFor(v) \cup NoticeSpecs : Typed(spec)
<1> USE DEF Typed, ActionType, Silent, Reminders, ChargeTypes, Offers, contact, silent,
            Channel, PREFERRED_CHANNEL
<1>1. Typed(WAIT)
  BY DEF WAIT
<1>2. Typed(controlAction(v))
  BY DEF controlAction, WAIT
<1>3. \A spec \in NoticeSpecs : Typed(spec)
  BY DEF NoticeSpecs, NOTICE_CHANNELS
<1>4. \A spec \in ByClass(v) : Typed(spec)
  BY DEF ByClass, FailureClass
<1>5. \A spec \in candidatesFor(v) : Typed(spec)
  BY <1>1, <1>4 DEF candidatesFor
<1> QED BY <1>1, <1>2, <1>3, <1>5 DEF specsFor

\* A choice is one of the candidates or what the schedule has, and waits for an
\* instant that a candidate is put off to, or for none.
LEMMA ChoicesAre ==
  ASSUME NEW v, NEW choice \in Choices(v, Scored(v))
  PROVE  /\ \/ \E c \in Scored(v) : choice.spec = c.spec
            \/ choice.spec \in NoticeSpecs \cup {WAIT, controlAction(v)}
         /\ \/ choice.worthWaiting = None
            \/ \E c \in Scored(v) : choice.worthWaiting = c.decision.deferUntil
<1> DEFINE admissible == {c.spec : c \in {d \in Scored(v) : Admissible(d)}}
           scheduled == IF v.arm = "CONTROL" THEN Scheduled(v, admissible) ELSE {}
           waitable == {c.decision.deferUntil : c \in {d \in Scored(v) :
                          ~Admissible(d) /\ d.spec # WAIT}} \ {None}
           floor == IF v.arm # "CONTROL" /\ controlAction(v) \in admissible
                    THEN controlAction(v) ELSE WAIT
           fallback == {[spec |-> floor, ev |-> 0, worthWaiting |-> None]}
             \cup {[spec |-> floor, ev |-> 1, worthWaiting |-> t] : t \in waitable}
           best == {[spec |-> s, ev |-> 1, worthWaiting |-> None] : s \in admissible \ {WAIT}}
           taken == {[spec |-> s, ev |-> 1, worthWaiting |-> None] : s \in scheduled}
<1>1. choice \in taken \cup best \cup fallback
  <2>1. Choices(v, Scored(v)) = IF scheduled # {} THEN taken ELSE best \cup fallback
    BY Zenon DEF Choices
  <2> HIDE DEF scheduled, taken, best, fallback
  <2> QED BY <2>1
<1>2. \A spec \in scheduled : spec \in NoticeSpecs \cup {controlAction(v)}
  <2> HIDE DEF admissible
  <2> DEFINE open == {i \in DOMAIN NOTICE_CHANNELS :
                        contact("SEND_PRE_DEBIT_NOTICE", NOTICE_CHANNELS[i]) \in admissible}
  <2>1. open \in SUBSET Int /\ \A i \in open : 1 <= i
    BY DEF NOTICE_CHANNELS
  <2>2. open # {} => Earliest(open) \in open
    <3> HIDE DEF open
    <3> QED BY <2>1, EarliestIs
  <2>3. open # {} =>
          contact("SEND_PRE_DEBIT_NOTICE", NOTICE_CHANNELS[Earliest(open)]) \in NoticeSpecs
    BY <2>2 DEF NoticeSpecs
  <2>4. Scheduled(v, admissible) \subseteq
          {controlAction(v)} \cup
          IF open = {} THEN {}
          ELSE {contact("SEND_PRE_DEBIT_NOTICE", NOTICE_CHANNELS[Earliest(open)])}
    BY DEF Scheduled
  <2> HIDE DEF open
  <2> QED BY <2>3, <2>4
<1>3. choice \in taken => choice.spec \in scheduled /\ choice.worthWaiting = None
  <2> HIDE DEF scheduled
  <2> QED OBVIOUS
<1>4. choice \in best => choice.spec \in admissible /\ choice.worthWaiting = None
  <2> HIDE DEF admissible
  <2> QED OBVIOUS
<1>5. choice \in fallback =>
        /\ choice.spec \in {WAIT, controlAction(v)}
        /\ choice.worthWaiting \in waitable \cup {None}
  <2> HIDE DEF waitable, admissible
  <2> QED OBVIOUS
<1>6. \A s \in admissible : \E c \in Scored(v) : s = c.spec
  OBVIOUS
<1>7. \A t \in waitable : \E c \in Scored(v) : t = c.decision.deferUntil
  OBVIOUS
<1> HIDE DEF taken, best, fallback, scheduled, waitable, admissible
<1> QED BY <1>1, <1>2, <1>3, <1>4, <1>5, <1>6, <1>7

\* Whatever is decided or planned beside it is an action of the ladder, and goes
\* by a channel or by none.
LEMMA PlannedTypes ==
  ASSUME NEW v, v.failureClass \in FailureClass, NEW o \in decide(v)
  PROVE  Typed(o.spec) /\ operationalActions(v) \subseteq ActionType
<1>1. \A c \in Scored(v) : Typed(c.spec)
  <2>1. \A c \in Scored(v) : c.spec \in specsFor(v) \cup NoticeSpecs
    BY DEF Scored, WithNotice, evaluateSpec
  <2> QED BY <2>1, SpecTypes
<1>2. PICK choice \in Choices(v, Scored(v)) : o = Outcome(v, Scored(v), choice)
  BY DEF decide
<1>3. Typed(choice.spec)
  BY <1>1, ChoicesAre, SpecTypes
<1>4. Typed(o.spec)
  BY <1>2, <1>3 DEF Outcome
<1>5. operationalActions(v) \subseteq ActionType
  BY DEF operationalActions, ActionType, Silent, FailureClass
<1> QED BY <1>4, <1>5

-----------------------------------------------------------------------------
(* The invariant: what has happened lies in the past *)

\* The stages of a tick before its drain.
Early == pc \in {"inbox", "act", "decide"}

\* The fields that a row, a reply and an action of the outbox have.
RowFields ==
  row = [state |-> row.state, nextDecisionAt |-> row.nextDecisionAt,
         attemptCount |-> row.attemptCount, touchCount |-> row.touchCount,
         disputeOpenedAt |-> row.disputeOpenedAt, humanApproved |-> row.humanApproved,
         recoveredPaise |-> row.recoveredPaise]

ReplyFields(r) ==
  r = [intent |-> r.intent, days |-> r.days, sentAt |-> r.sentAt, readAt |-> r.readAt]

ActionFields(a) ==
  a = [type |-> a.type, channel |-> a.channel, createdAt |-> a.createdAt,
       scheduledFor |-> a.scheduledFor, amountPaise |-> a.amountPaise,
       bestRemainingEv |-> a.bestRemainingEv, status |-> a.status,
       executedAt |-> a.executedAt, attempts |-> a.attempts]

Clocked ==
  /\ course \in Courses /\ now \in Int /\ now \in course.ticks /\ pc \in PC
  /\ failureClass \in FailureClass
  /\ RowFields /\ row.disputeOpenedAt \in Int \cup {None}

\* Of the instant of a tick there is nothing before the stage that makes it.
InThePast(instant) == instant \in Int /\ instant <= now /\ (Early => instant < now)

ContactsPast == \A c \in contacts : InThePast(c.sentAt)

PromisesPast ==
  \A p \in promises : /\ p \in Promise /\ p.createdAt <= now
                      /\ p.status # "ACTIVE" => p.promisedDate < now

ActionsPast ==
  \A a \in actions : /\ ActionFields(a) /\ a.type \in ActionType
                     /\ a.status = "SENT" => InThePast(a.executedAt)

RepliesKnown ==
  \A r \in replies : /\ ReplyFields(r)
                     /\ r.intent = "PROMISE_TO_PAY" => r.days \in Nat

Selected ==
  /\ pc = "drain" => \A a \in todo : a.status = "SCHEDULED"
  /\ pc = "act" => \A r \in todo : r.intent = "PROMISE_TO_PAY" => r.days \in Nat

Timeline == Clocked /\ ContactsPast /\ PromisesPast /\ ActionsPast /\ RepliesKnown /\ Selected

-----------------------------------------------------------------------------
(* What a step does to each part of the state *)

\* Time stands still or goes on, and a tick does not go back to a stage before
\* its drain.
TimeGoesOn == (now' = now /\ (Early' => Early)) \/ (now' \in Int /\ now < now')

LEMMA PastStays ==
  ASSUME Clocked, TimeGoesOn, NEW instant, InThePast(instant)
  PROVE  InThePast(instant)'
BY DEF Clocked, TimeGoesOn, InThePast

LEMMA NextTick ==
  ASSUME Clocked, Pass
  PROVE  now' \in Int /\ now' \in course.ticks /\ now < now'
<1> DEFINE later == {t \in course.ticks : t > now}
<1>1. later # {} /\ later \in SUBSET Int /\ \A t \in later : now <= t
  BY CourseAssumption DEF Clocked, Pass
<1>2. Earliest(later) \in later
  <2> HIDE DEF later
  <2> QED BY <1>1, EarliestIs DEF Clocked
<1> QED BY <1>1, <1>2 DEF Pass

\* A row that was executed, and a row that was put off.
Executed(a) ==
  actions' \in {(actions \ {a}) \cup {MarkedSent(a)}, (actions \ Pending) \cup {MarkedSent(a)}}

PutOff(a) ==
  \/ \E t : actions' = (actions \ {a}) \cup {[a EXCEPT !.scheduledFor = t]}
  \/ \E t : actions' = (actions \ {a}) \cup {[a EXCEPT !.attempts = @ + 1, !.scheduledFor = t]}

InTheDrain == pc = "drain" /\ UNCHANGED <<course, now, pc, failureClass, promises>>

\* The steps of the drain on a row.
LEMMA Executions ==
  ASSUME NEW a \in todo, Execute(a)
  PROVE  /\ Turn(a) /\ InTheDrain
         /\ \/ actions' \in {actions \ {a}, actions \ Pending}
            \/ PutOff(a)
            \/ Cleared(Verdict(a)) /\ Executed(a)
         /\ \/ contacts' = contacts
            \/ Sendable(a, Verdict(a)) /\ contacts' = contacts \cup {Contact(a)}
<1>1. PICK g \in {Verdict(a)} :
        \/ StopAtExecution(a, g) \/ Hold(a, g) \/ Deny(a, g)
        \/ CompleteSilently(a, g) \/ NoSender(a, g)
        \/ Send(a, g) \/ SendAndHear(a, g) \/ SendAndOptOut(a, g) \/ FailToExecute(a, g)
  BY DEF Execute
<1>2. Turn(a) /\ pc = "drain"
  BY DEF Execute, Turn
<1>3. CASE StopAtExecution(a, g)
  BY <1>2, <1>3 DEF StopAtExecution, InTheDrain
<1>4. CASE Hold(a, g)
  BY <1>2, <1>4 DEF Hold, InTheDrain, PutOff
<1>5. CASE Deny(a, g) \/ NoSender(a, g)
  BY <1>2, <1>5 DEF Deny, NoSender, Dropped, InTheDrain
<1>6. CASE CompleteSilently(a, g)
  BY <1>1, <1>2, <1>6 DEF CompleteSilently, InTheDrain, Executed
<1>7. CASE Send(a, g) \/ SendAndHear(a, g) \/ SendAndOptOut(a, g)
  BY <1>1, <1>2, <1>7
     DEF Send, SendAndHear, SendAndOptOut, Sendable, Touched, InTheDrain, Executed
<1>8. CASE FailToExecute(a, g)
  <2>1. GivenUp(a.attempts + 1) => actions' = actions \ {a}
    BY <1>8 DEF FailToExecute
  <2>2. ~GivenUp(a.attempts + 1) => PutOff(a)
    BY <1>8 DEF FailToExecute, PutOff
  <2> QED BY <1>2, <1>8, <2>1, <2>2 DEF FailToExecute, InTheDrain
<1> QED BY <1>1, <1>3, <1>4, <1>5, <1>6, <1>7, <1>8

\* The other steps leave the contacts of the case alone, and of the actions
\* only a decision adds some.
LEMMA OtherSteps ==
  ASSUME [Next]_vars, ~(\E a \in todo : Execute(a))
  PROVE  /\ contacts' = contacts \/ \E channel \in Channel : OtherContact(channel)
         /\ \/ actions' = actions
            \/ /\ pc = "decide" /\ pc' = "drain" /\ now' = now
               /\ \E o \in decide(load) : actions' = actions \cup Planned(load, o)
<1>1. CASE Decide
  BY <1>1 DEF Decide, Withheld, Admitted, TurnedAway, EnterDrain
<1>2. CASE ~Decide
  BY <1>2 DEF Next, vars, ReadReply, ActOnReply, ExpirePromises, EnterDrain, NotDue, EndTick, Crash,
              OtherContact, Fail, Pay, Refund, Approve, CohortChange, Pass
<1> QED BY <1>1, <1>2

\* Promises are made on a reply and judged before the decision.
LEMMA WhoPromises ==
  ASSUME [Next]_vars
  PROVE  \/ promises' = promises
         \/ ExpirePromises
         \/ /\ pc = "act" /\ pc' = "inbox" /\ UNCHANGED <<now, contacts>>
            /\ \E r \in todo :
                 /\ r.intent = "PROMISE_TO_PAY"
                 /\ promises' = promises \cup {[createdAt |-> now,
                                                promisedDate |-> now + r.days * DAY,
                                                status |-> "ACTIVE"]}
<1>1. CASE ActOnReply
  BY <1>1 DEF ActOnReply, RecordPromise, OpenDispute, EscalateReply, LabelOnly
<1>2. CASE \E a \in todo : Execute(a)
  BY <1>2, Executions DEF InTheDrain
<1>3. CASE ~ActOnReply /\ ~\E a \in todo : Execute(a)
  BY <1>3 DEF Next, vars, ReadReply, Decide, Withheld, Admitted, TurnedAway, EnterDrain, NotDue,
              EndTick, Crash, OtherContact, Fail, Pay, Refund, Approve, CohortChange, Pass
<1> QED BY <1>1, <1>2, <1>3

\* Replies come with a message and are read at the start of a tick.
LEMMA WhoHears ==
  ASSUME [Next]_vars
  PROVE  \/ replies' = replies
         \/ \E r \in replies : ReadReply(r)
         \/ \E q \in Replies :
              replies' = replies \cup {[intent |-> q.intent, days |-> q.days, sentAt |-> now,
                                        readAt |-> None]}
<1>1. CASE \E a \in todo : Execute(a)
  BY <1>1 DEF Execute, StopAtExecution, Hold, Deny, Dropped, CompleteSilently, NoSender, Send,
              SendAndHear, SendAndOptOut, FailToExecute
<1>2. CASE ~\E a \in todo : Execute(a)
  BY <1>2 DEF Next, vars, ActOnReply, ExpirePromises, Decide, Withheld, Admitted, TurnedAway,
              EnterDrain, NotDue, EndTick, Crash, OtherContact, Fail, Pay, Refund, Approve,
              CohortChange, Pass
<1> QED BY <1>1, <1>2

\* A dispute is opened by a reply.
LEMMA WhoDisputes ==
  ASSUME [Next]_vars, RowFields
  PROVE  /\ RowFields'
         /\ \/ row'.disputeOpenedAt = row.disputeOpenedAt
            \/ pc = "act" /\ row'.disputeOpenedAt = now /\ UNCHANGED <<now, actions>>
<1>1. CASE ActOnReply
  BY <1>1 DEF ActOnReply, RecordPromise, OpenDispute, EscalateReply, LabelOnly, RowFields
<1>2. CASE \E a \in todo : Execute(a)
  BY <1>2 DEF Execute, StopAtExecution, Hold, Deny, Dropped, CompleteSilently, NoSender, Send,
              SendAndHear, SendAndOptOut, Touched, FailToExecute, RowFields
<1>3. CASE ~ActOnReply /\ ~\E a \in todo : Execute(a)
  BY <1>3 DEF Next, vars, ReadReply, ExpirePromises, Decide, Withheld, Admitted, TurnedAway, Written,
              EnterDrain, NotDue, EndTick, Crash, OtherContact, Fail, Pay, Refund, Settled, Approve,
              CohortChange, Pass, RowFields
<1> QED BY <1>1, <1>2, <1>3

LEMMA ClockStep ==
  ASSUME Clocked, [Next]_vars
  PROVE  /\ TimeGoesOn
         /\ course' = course /\ now' \in Int /\ now' \in course.ticks /\ pc' \in PC
         /\ failureClass' \in FailureClass
<1>1. CASE Pass
  BY <1>1, NextTick DEF Pass, TimeGoesOn, Clocked, PC
<1>2. CASE \E a \in todo : Execute(a)
  BY <1>2, Executions DEF InTheDrain, TimeGoesOn, Clocked, Early
<1>3. CASE ~Pass /\ ~\E a \in todo : Execute(a)
  <2>1. /\ UNCHANGED <<course, now>>
        /\ pc' = pc \/ pc = "inbox" \/ pc = "act" \/ pc = "decide" \/ pc' = "over"
        /\ pc' \in PC
    BY <1>3 DEF Next, vars, ReadReply, ActOnReply, ExpirePromises, Decide, Withheld, Admitted,
                TurnedAway, EnterDrain, NotDue, EndTick, Crash, OtherContact, Fail, Pay, Refund,
                Approve, CohortChange, Clocked, PC
  <2>2. failureClass' = failureClass \/ failureClass' \in Classes
    BY <1>3 DEF Next, vars, ReadReply, ActOnReply, ExpirePromises, Decide, NotDue, EndTick, Crash,
                OtherContact, Fail, Pay, Refund, Approve, CohortChange
  <2> QED BY <2>1, <2>2, CourseAssumption DEF TimeGoesOn, Clocked, Early
<1> QED BY <1>1, <1>2, <1>3

-----------------------------------------------------------------------------
(* The invariant is kept *)

LEMMA ContactsStayPast ==
  ASSUME Clocked, ContactsPast, [Next]_vars
  PROVE  ContactsPast'
<1>1. TimeGoesOn
  BY ClockStep
<1>2. \A c \in contacts : InThePast(c.sentAt)'
  BY <1>1, PastStays DEF ContactsPast
<1>3. CASE contacts' = contacts
  BY <1>2, <1>3 DEF ContactsPast
<1>4. ASSUME NEW a \in todo, InTheDrain, contacts' = contacts \cup {Contact(a)}
      PROVE  ContactsPast'
  <2>1. Contact(a).sentAt = now
    BY DEF Contact
  <2>2. now' = now /\ now \in Int /\ ~Early'
    BY <1>4 DEF InTheDrain, Early, Clocked
  <2>3. \A c \in contacts' : c \in contacts \/ c.sentAt = now
    BY <1>4, <2>1
  <2> QED BY <1>2, <2>2, <2>3 DEF ContactsPast, InThePast
<1>5. ASSUME NEW channel \in Channel, OtherContact(channel)
      PROVE  ContactsPast'
  <2>1. \A c \in contacts' : c \in contacts \/ c.sentAt = now
    BY <1>5 DEF OtherContact
  <2>2. now' = now /\ now \in Int /\ ~Early'
    BY <1>5 DEF OtherContact, Early, Clocked
  <2> QED BY <1>2, <2>1, <2>2 DEF ContactsPast, InThePast
<1> QED BY <1>3, <1>4, <1>5, Executions, OtherSteps

LEMMA PromisesStayPast ==
  ASSUME Clocked, PromisesPast, Selected, [Next]_vars
  PROVE  PromisesPast'
<1>1. now' \in Int /\ now <= now'
  BY ClockStep DEF TimeGoesOn, Clocked
<1>2. \A p \in promises : /\ p \in Promise /\ p.createdAt <= now'
                          /\ p.status # "ACTIVE" => p.promisedDate < now'
  BY <1>1 DEF PromisesPast, Promise, Clocked
<1>3. CASE promises' = promises
  BY <1>2, <1>3 DEF PromisesPast
<1>4. CASE ExpirePromises
  <2> SUFFICES ASSUME NEW q \in promises'
               PROVE  /\ q \in Promise /\ q.createdAt <= now'
                      /\ q.status # "ACTIVE" => q.promisedDate < now'
    BY DEF PromisesPast
  <2>1. now' = now
    BY <1>4 DEF ExpirePromises
  <2>2. PICK p \in promises :
          q = IF p.status = "ACTIVE" /\ p.promisedDate < now
              THEN [p EXCEPT !.status = IF Kept THEN "KEPT" ELSE "BROKEN"] ELSE p
    BY <1>4 DEF ExpirePromises
  <2>3. CASE p.status = "ACTIVE" /\ p.promisedDate < now
    <3>1. PICK status \in {"KEPT", "BROKEN"} : q = [p EXCEPT !.status = status]
      BY <2>2, <2>3
    <3>2. /\ q \in Promise /\ q.createdAt = p.createdAt /\ q.promisedDate = p.promisedDate
      BY <1>2, <3>1 DEF Promise
    <3> QED BY <1>2, <2>1, <2>3, <3>2
  <2>4. CASE ~(p.status = "ACTIVE" /\ p.promisedDate < now)
    BY <1>2, <2>2, <2>4
  <2> QED BY <2>3, <2>4
<1>5. ASSUME NEW r \in todo, pc = "act", now' = now, r.intent = "PROMISE_TO_PAY",
             promises' = promises \cup {[createdAt |-> now, promisedDate |-> now + r.days * DAY,
                                         status |-> "ACTIVE"]}
      PROVE  PromisesPast'
  <2>1. now + r.days * DAY \in Int
    BY <1>5 DEF Selected, Clocked, DAY
  <2> QED BY <1>2, <1>5, <2>1 DEF PromisesPast, Promise, Clocked
<1> QED BY <1>3, <1>4, <1>5, WhoPromises

\* What puts a row off or marks it as sent changes nothing else of it.
LEMMA RowsKeepFields ==
  ASSUME NEW a, ActionFields(a), NEW b, NEW t,
         \/ b = [a EXCEPT !.scheduledFor = t]
         \/ b = [a EXCEPT !.attempts = @ + 1, !.scheduledFor = t]
         \/ b = [a EXCEPT !.status = "SENT", !.executedAt = t]
  PROVE  ActionFields(b) /\ b.type = a.type
<1>1. CASE b = [a EXCEPT !.scheduledFor = t]
  BY <1>1 DEF ActionFields
<1>2. CASE b = [a EXCEPT !.attempts = @ + 1, !.scheduledFor = t]
  BY <1>2 DEF ActionFields
<1>3. CASE b = [a EXCEPT !.status = "SENT", !.executedAt = t]
  BY <1>3 DEF ActionFields
<1> QED BY <1>1, <1>2, <1>3

LEMMA RowsKeepStatus ==
  ASSUME NEW a, ActionFields(a), NEW b, NEW t,
         \/ b = [a EXCEPT !.scheduledFor = t]
         \/ b = [a EXCEPT !.attempts = @ + 1, !.scheduledFor = t]
  PROVE  b.status = a.status
<1>1. CASE b = [a EXCEPT !.scheduledFor = t]
  BY <1>1 DEF ActionFields
<1>2. CASE b = [a EXCEPT !.attempts = @ + 1, !.scheduledFor = t]
  BY <1>2 DEF ActionFields
<1> QED BY <1>1, <1>2

LEMMA MarkedIsSent ==
  ASSUME NEW a, ActionFields(a)
  PROVE  /\ ActionFields(MarkedSent(a)) /\ MarkedSent(a).type = a.type
         /\ MarkedSent(a).status = "SENT" /\ MarkedSent(a).executedAt = now
<1>1. ActionFields(MarkedSent(a)) /\ MarkedSent(a).type = a.type
  BY RowsKeepFields DEF MarkedSent
<1>2. MarkedSent(a).status = "SENT" /\ MarkedSent(a).executedAt = now
  BY DEF MarkedSent, ActionFields
<1> QED BY <1>1, <1>2

\* A row of the drain, whatever becomes of it.
LEMMA TurnIsScheduled ==
  ASSUME ActionsPast, Selected, NEW a, Turn(a)
  PROVE  /\ a \in actions /\ a.status = "SCHEDULED" /\ a \notin Sent
         /\ ActionFields(a) /\ a.type \in ActionType
BY DEF ActionsPast, Selected, Turn, Sent

LEMMA ExecutionsStayPast ==
  ASSUME Clocked, ActionsPast, Selected, [Next]_vars, NEW a \in todo, Execute(a)
  PROVE  ActionsPast'
<1>1. TimeGoesOn
  BY ClockStep
<1>2. \A b \in actions : b.status = "SENT" => InThePast(b.executedAt)'
  BY <1>1, PastStays DEF ActionsPast
<1>3. Turn(a) /\ InTheDrain
  BY Executions
<1>4. /\ a \in actions /\ a.status = "SCHEDULED" /\ ActionFields(a) /\ a.type \in ActionType
  BY <1>3, TurnIsScheduled
<1>5. SUFFICES ASSUME NEW b \in actions', b \notin actions
               PROVE  /\ ActionFields(b) /\ b.type \in ActionType
                      /\ b.status = "SENT" => InThePast(b.executedAt)'
  BY <1>2 DEF ActionsPast
<1>6. CASE actions' \in {actions \ {a}, actions \ Pending}
  BY <1>5, <1>6
<1>7. CASE PutOff(a)
  <2>1. PICK t : \/ b = [a EXCEPT !.scheduledFor = t]
                 \/ b = [a EXCEPT !.attempts = @ + 1, !.scheduledFor = t]
    BY <1>5, <1>7 DEF PutOff
  <2>2. ActionFields(b) /\ b.type = a.type /\ b.status = a.status
    BY <1>4, <2>1, RowsKeepFields, RowsKeepStatus
  <2> QED BY <1>4, <2>2
<1>8. CASE Executed(a)
  <2>1. b = MarkedSent(a)
    BY <1>5, <1>8 DEF Executed
  <2>2. ActionFields(b) /\ b.type = a.type /\ b.executedAt = now
    BY <1>4, <2>1, MarkedIsSent
  <2>3. now' = now /\ now \in Int /\ ~Early'
    BY <1>3 DEF InTheDrain, Early, Clocked
  <2> QED BY <1>4, <2>2, <2>3 DEF InThePast
<1> QED BY <1>6, <1>7, <1>8, Executions

\* What a decision plans.
LEMMA PlannedAre ==
  ASSUME Clocked, NEW o \in decide(load), NEW b \in Planned(load, o)
  PROVE  /\ ActionFields(b) /\ b.type \in ActionType /\ b.status = "SCHEDULED"
         /\ b.channel \in Channel \cup {None} /\ b.scheduledFor = now /\ b.attempts = 0
<1>1. load.failureClass \in FailureClass
  BY DEF load, Clocked
<1>2. Typed(o.spec) /\ operationalActions(load) \subseteq ActionType
  BY <1>1, PlannedTypes
<1>3. PICK type, channel, amount :
        /\ type \in ActionType /\ channel \in Channel \cup {None}
        /\ b = [type |-> type, channel |-> channel, createdAt |-> now, scheduledFor |-> now,
                amountPaise |-> amount, bestRemainingEv |-> o.ev, status |-> "SCHEDULED",
                executedAt |-> None, attempts |-> 0]
  BY <1>2 DEF Planned, Typed
<1> QED BY <1>3 DEF ActionFields

LEMMA ActionsStayPast ==
  ASSUME Clocked, ActionsPast, Selected, [Next]_vars
  PROVE  ActionsPast'
<1>1. TimeGoesOn
  BY ClockStep
<1>2. \A b \in actions : b.status = "SENT" => InThePast(b.executedAt)'
  BY <1>1, PastStays DEF ActionsPast
<1>3. CASE actions' = actions
  BY <1>2, <1>3 DEF ActionsPast
<1>4. ASSUME NEW o \in decide(load), actions' = actions \cup Planned(load, o)
      PROVE  ActionsPast'
  BY <1>2, <1>4, PlannedAre DEF ActionsPast
<1> QED BY <1>3, <1>4, ExecutionsStayPast, OtherSteps

LEMMA RepliesStayKnown ==
  ASSUME RepliesKnown, [Next]_vars
  PROVE  RepliesKnown'
<1>1. CASE replies' = replies
  BY <1>1 DEF RepliesKnown
<1>2. ASSUME NEW r \in replies, ReadReply(r) PROVE RepliesKnown'
  <2>1. replies' = (replies \ {r}) \cup {[r EXCEPT !.readAt = now]}
    BY <1>2 DEF ReadReply
  <2>2. ReplyFields(r) /\ (r.intent = "PROMISE_TO_PAY" => r.days \in Nat)
    BY <1>2 DEF RepliesKnown
  <2> DEFINE q == [r EXCEPT !.readAt = now]
  <2>3. ReplyFields(q) /\ q.intent = r.intent /\ q.days = r.days
    BY <2>2 DEF ReplyFields
  <2> HIDE DEF q
  <2> QED BY <2>1, <2>2, <2>3 DEF RepliesKnown, q
<1>3. ASSUME NEW q \in Replies,
             replies' = replies \cup {[intent |-> q.intent, days |-> q.days, sentAt |-> now,
                                       readAt |-> None]}
      PROVE  RepliesKnown'
  BY <1>3, CourseAssumption DEF RepliesKnown, ReplyFields
<1> QED BY <1>1, <1>2, <1>3, WhoHears

LEMMA SelectedStays ==
  ASSUME Clocked, RepliesKnown, Selected, [Next]_vars
  PROVE  Selected'
<1>1. CASE \E a \in todo : Execute(a)
  <2>1. pc = "drain" /\ pc' = "drain" /\ todo' \subseteq todo
    BY <1>1 DEF Execute, Turn, StopAtExecution, Hold, Deny, Dropped, CompleteSilently, NoSender,
                Send, SendAndHear, SendAndOptOut, Touched, FailToExecute
  <2> QED BY <2>1 DEF Selected
<1>2. CASE Decide \/ NotDue
  <2>1. PICK as : EnterDrain(as)
    BY <1>2 DEF Decide, Withheld, Admitted, TurnedAway, NotDue
  <2> QED BY <2>1 DEF EnterDrain, DueRows, Selected
<1>3. ASSUME NEW r \in replies, ReadReply(r) PROVE Selected'
  BY <1>3 DEF ReadReply, RepliesKnown, Selected
<1>4. CASE \/ UNCHANGED vars \/ ActOnReply \/ ExpirePromises \/ EndTick \/ Crash \/ Pass
           \/ \E channel \in Channel : OtherContact(channel)
           \/ \E class \in Classes : Fail(class)
           \/ \E amount \in Amount : Pay(amount) \/ Refund(amount)
           \/ Approve \/ CohortChange
  BY <1>4 DEF vars, ActOnReply, ExpirePromises, EndTick, Crash, Pass, OtherContact, World, Fail, Pay,
              Refund, Approve, CohortChange, Selected
<1> QED BY <1>1, <1>2, <1>3, <1>4 DEF Next

LEMMA TimelineStep ==
  ASSUME Timeline, [Next]_vars
  PROVE  Timeline'
<1> USE DEF Timeline
<1>1. Clocked'
  <2>1. row'.disputeOpenedAt \in Int \cup {None} /\ RowFields'
    BY WhoDisputes DEF Clocked
  <2> QED BY <2>1, ClockStep DEF Clocked
<1>2. ContactsPast' /\ PromisesPast' /\ ActionsPast'
  BY ContactsStayPast, PromisesStayPast, ActionsStayPast
<1>3. RepliesKnown' /\ Selected'
  BY RepliesStayKnown, SelectedStays
<1> QED BY <1>1, <1>2, <1>3

LEMMA TimelineInit ==
  ASSUME Init
  PROVE  Timeline
<1>1. Opened \in course.ticks /\ course.ticks \subseteq Int /\ course.class \in FailureClass
  <2> DEFINE ticks == course.ticks
  <2>1. ticks # {} /\ IsFiniteSet(ticks) /\ ticks \in SUBSET Int /\ course.class \in FailureClass
    BY CourseAssumption DEF Init
  <2> HIDE DEF ticks
  <2>2. PICK b \in ticks : \A t \in ticks : b <= t
    BY <2>1, FiniteHasLeast
  <2>3. Earliest(ticks) \in ticks
    BY <2>1, <2>2, EarliestIs
  <2> QED BY <2>1, <2>3 DEF Opened, ticks
<1> QED BY <1>1 DEF Init, Timeline, Clocked, PC, RowFields, ContactsPast, PromisesPast, ActionsPast,
                    RepliesKnown, Selected

LEMMA Chronology == Spec => []Timeline
<1>1. Init => Timeline
  BY TimelineInit
<1>2. Timeline /\ [Next]_vars => Timeline'
  BY TimelineStep
<1> QED BY <1>1, <1>2, PTL DEF Spec

-----------------------------------------------------------------------------
(* What is sent and said *)

\* The actions sent change only by one that the gates let through.
LEMMA SentGrows ==
  ASSUME Timeline, [Next]_vars
  PROVE  \/ Sent' = Sent
         \/ \E a \in actions : /\ ActionFields(a) /\ a.type \in ActionType /\ InTheDrain
                               /\ ExecutionAllowed(a.type) /\ Sent' = Sent \cup {MarkedSent(a)}
<1> USE DEF Timeline
<1>1. CASE actions' = actions
  BY <1>1 DEF Sent
<1>2. ASSUME NEW o \in decide(load), actions' = actions \cup Planned(load, o)
      PROVE  Sent' = Sent
  BY <1>2, PlannedAre DEF Sent
<1>3. ASSUME NEW a \in todo, Execute(a)
      PROVE  \/ Sent' = Sent
             \/ /\ ActionFields(a) /\ a \in actions /\ a.type \in ActionType /\ InTheDrain
                /\ ExecutionAllowed(a.type) /\ Sent' = Sent \cup {MarkedSent(a)}
  <2>1. InTheDrain /\ a \in actions /\ a.status = "SCHEDULED" /\ ActionFields(a)
        /\ a.type \in ActionType
    BY <1>3, Executions, TurnIsScheduled
  <2>2. CASE actions' \in {actions \ {a}, actions \ Pending}
    BY <2>1, <2>2 DEF Sent, Pending
  <2>3. CASE PutOff(a)
    <3>1. PICK t, b : /\ \/ b = [a EXCEPT !.scheduledFor = t]
                         \/ b = [a EXCEPT !.attempts = @ + 1, !.scheduledFor = t]
                      /\ actions' = (actions \ {a}) \cup {b}
      BY <2>3 DEF PutOff
    <3>2. b.status = "SCHEDULED"
      BY <2>1, <3>1, RowsKeepStatus
    <3> QED BY <2>1, <3>1, <3>2 DEF Sent
  <2>4. CASE Cleared(Verdict(a)) /\ Executed(a)
    <3>1. MarkedSent(a).status = "SENT"
      BY <2>1, MarkedIsSent
    <3>2. Sent' = Sent \cup {MarkedSent(a)}
      <4> DEFINE m == MarkedSent(a)
      <4>1. actions' \in {(actions \ {a}) \cup {m}, (actions \ Pending) \cup {m}}
        BY <2>4 DEF Executed
      <4> HIDE DEF m
      <4> QED BY <2>1, <3>1, <4>1 DEF Sent, Pending, m
    <3>3. ExecutionAllowed(a.type)
      BY <2>4, ExecutionIsAllowed
    <3> QED BY <2>1, <3>2, <3>3
  <2> QED BY <1>3, <2>2, <2>3, <2>4, Executions
<1> QED BY <1>1, <1>2, <1>3, OtherSteps

\* The contacts change only by a message that the gates let through, of the
\* case or of another.
LEMMA ContactsGrow ==
  ASSUME Timeline, [Next]_vars
  PROVE  \/ contacts' = contacts
         \/ \E c : /\ c.sentAt = now /\ contacts' = contacts \cup {c} /\ TouchAllowed
                   /\ c.own \in BOOLEAN
                   /\ c.own => OwnTouchAllowed
                   /\ pc = "drain" /\ UNCHANGED <<now, promises>>
<1>1. ASSUME NEW a \in todo, Execute(a), contacts' # contacts
      PROVE  /\ Contact(a).sentAt = now /\ contacts' = contacts \cup {Contact(a)} /\ TouchAllowed
             /\ Contact(a).own = TRUE /\ OwnTouchAllowed
             /\ pc = "drain" /\ UNCHANGED <<now, promises>>
  <2>1. Sendable(a, Verdict(a)) /\ contacts' = contacts \cup {Contact(a)} /\ InTheDrain
    BY <1>1, Executions
  <2>2. TouchAllowed /\ OwnTouchAllowed
    BY <2>1, TouchIsAllowed, CourseAssumption DEF Sendable
  <2> QED BY <2>1, <2>2 DEF Contact, InTheDrain
<1>2. ASSUME NEW channel \in Channel, OtherContact(channel)
      PROVE  \E c : /\ c.sentAt = now /\ contacts' = contacts \cup {c} /\ TouchAllowed
                    /\ c.own = FALSE /\ pc = "drain" /\ UNCHANGED <<now, promises>>
  <2> DEFINE c == [sentAt |-> now, channel |-> channel, own |-> FALSE,
                   key |-> <<"SEND_PAYMENT_LINK", now>>]
  <2>1. c.sentAt = now /\ c.own = FALSE
    OBVIOUS
  <2>2. contacts' = contacts \cup {c} /\ pc = "drain" /\ UNCHANGED <<now, promises>>
    BY <1>2 DEF OtherContact
  <2>3. TouchAllowed
    BY <1>2, OtherIsAllowed
  <2> HIDE DEF c
  <2> QED BY <2>1, <2>2, <2>3
<1> QED BY <1>1, <1>2, OtherSteps

-----------------------------------------------------------------------------
(* Objections *)

\* What a reply says, once read, is known from then on, and nothing is
\* executed in the tick before it is read.
LEMMA ObjectionsStep ==
  ASSUME Timeline, ObjectionsSilence, [Next]_vars
  PROVE  ObjectionsSilence'
<1> USE DEF Timeline
<1> DEFINE Objection(r) == r.intent \in {"DISTRESS", "ABUSE"} /\ r.readAt # None
<1>1. \A a \in Sent : InThePast(a.executedAt)
  BY DEF ActionsPast, Sent
<1>2. \A a \in Sent : /\ row.disputeOpenedAt # None => a.executedAt < row.disputeOpenedAt
                      /\ \A r \in replies : Objection(r) => a.executedAt < r.readAt
  BY DEF ObjectionsSilence
<1>3. \A r \in replies' : r \in replies \/ r.readAt = None \/ (pc = "inbox" /\ r.readAt = now)
  <2>1. ASSUME NEW q \in replies, ReadReply(q), NEW r \in replies', r \notin replies
        PROVE  pc = "inbox" /\ r.readAt = now
    <3>1. r = [q EXCEPT !.readAt = now] /\ pc = "inbox"
      BY <2>1 DEF ReadReply
    <3> QED BY <3>1 DEF RepliesKnown, ReplyFields
  <2> QED BY <2>1, WhoHears
<1>4. CASE Sent' = Sent
  <2> SUFFICES ASSUME NEW a \in Sent
               PROVE  /\ row'.disputeOpenedAt # None => a.executedAt < row'.disputeOpenedAt
                      /\ \A r \in replies' : Objection(r) => a.executedAt < r.readAt
    BY <1>4 DEF ObjectionsSilence
  <2>1. row'.disputeOpenedAt # None => a.executedAt < row'.disputeOpenedAt
    BY <1>1, <1>2, WhoDisputes DEF InThePast, Early, Clocked
  <2>2. ASSUME NEW r \in replies', Objection(r) PROVE a.executedAt < r.readAt
    BY <1>1, <1>2, <1>3, <2>2 DEF InThePast, Early
  <2> QED BY <2>1, <2>2
<1>5. ASSUME NEW a \in actions, InTheDrain, ExecutionAllowed(a.type), ActionFields(a),
             Sent' = Sent \cup {MarkedSent(a)}
      PROVE  ObjectionsSilence'
  <2>1. row.disputeOpenedAt = None /\ \A r \in replies : ~Objection(r)
    BY <1>5 DEF ExecutionAllowed, inboundSignals
  <2>2. row'.disputeOpenedAt = None
    BY <1>5, <2>1, WhoDisputes DEF InTheDrain, Clocked
  <2>3. \A r \in replies' : ~Objection(r)
    BY <1>3, <1>5, <2>1 DEF InTheDrain
  <2> QED BY <2>2, <2>3 DEF ObjectionsSilence
<1> QED BY <1>4, <1>5, SentGrows

\* Once a customer's distress or complaint has been read, or a dispute is open,
\* nothing is sent or charged any more.
THEOREM ObjectionsAreHeeded == Spec => []ObjectionsSilence
<1>1. Init => ObjectionsSilence
  BY DEF Init, ObjectionsSilence, Sent
<1>2. Timeline /\ ObjectionsSilence /\ [Next]_vars => ObjectionsSilence'
  BY ObjectionsStep
<1> QED BY <1>1, <1>2, Chronology, PTL DEF Spec

-----------------------------------------------------------------------------
(* The gap *)

\* The newest of the contacts of seven days.
LEMMA LastTouchIs ==
  ASSUME Timeline
  PROVE  /\ Recent = {} => LastTouch = None
         /\ Recent # {} => LastTouch \in Int /\ \A c \in Recent : c.sentAt <= LastTouch
<1> DEFINE instants == {c.sentAt : c \in Recent}
<1>1. instants \in SUBSET Int /\ now \in Int /\ \A t \in instants : t <= now
  BY DEF Timeline, Clocked, ContactsPast, InThePast, Recent
<1>2. Recent = {} => LastTouch = None
  BY DEF LastTouch, Latest
<1>3. ASSUME Recent # {}
      PROVE  LastTouch \in Int /\ \A c \in Recent : c.sentAt <= LastTouch
  <2>1. instants # {}
    BY <1>3
  <2>2. Latest(instants) \in instants /\ \A t \in instants : t <= Latest(instants)
    <3> HIDE DEF instants
    <3> QED BY <1>1, <2>1, LatestIs
  <2> QED BY <1>1, <2>2 DEF LastTouch
<1> QED BY <1>2, <1>3

LEMMA GapStep ==
  ASSUME Timeline, SpacedContacts, [Next]_vars
  PROVE  SpacedContacts'
<1> DEFINE gap == Policy.min_gap_hours * HOUR
<1>1. gap \in Int /\ gap <= 7 * DAY
  BY LimitsAssumption DEF HOUR
<1>2. now \in Int /\ \A d \in contacts : d.sentAt \in Int
  BY DEF Timeline, Clocked, ContactsPast, InThePast
<1>3. CASE contacts' = contacts
  BY <1>3 DEF SpacedContacts
<1>4. ASSUME NEW c, c.sentAt = now, contacts' = contacts \cup {c}, TouchAllowed
      PROVE  SpacedContacts'
  <2>1. ASSUME NEW d \in contacts PROVE now - d.sentAt >= gap
    <3>1. CASE d \in Recent
      <4>1. LastTouch \in Int /\ d.sentAt <= LastTouch /\ LastTouch # None
        BY <3>1, LastTouchIs, NoneAssumption
      <4>2. now - LastTouch >= gap
        BY <1>4, <4>1 DEF TouchAllowed
      <4> HIDE DEF gap
      <4> QED BY <1>1, <1>2, <4>1, <4>2
    <3>2. CASE d \notin Recent
      <4>1. ~(d.sentAt >= now - 7 * DAY)
        BY <3>2 DEF Recent
      <4> HIDE DEF gap
      <4> QED BY <1>1, <1>2, <4>1 DEF DAY
    <3> QED BY <3>1, <3>2
  <2> HIDE DEF gap
  <2> SUFFICES ASSUME NEW x \in contacts', NEW y \in contacts' \ {x}
               PROVE  x.sentAt - y.sentAt >= gap \/ y.sentAt - x.sentAt >= gap
    BY DEF SpacedContacts, gap
  <2>2. CASE x \in contacts /\ y \in contacts
    BY <2>2 DEF SpacedContacts, gap
  <2>3. CASE x = c /\ y \in contacts
    BY <1>4, <2>1, <2>3
  <2>4. CASE x \in contacts /\ y = c
    BY <1>4, <2>1, <2>4
  <2> QED BY <1>4, <2>2, <2>3, <2>4
<1> QED BY <1>3, <1>4, ContactsGrow

\* Two messages to the customer are min_gap_hours apart.
THEOREM ContactsAreSpaced == Spec => []SpacedContacts
<1>1. Init => SpacedContacts
  BY DEF Init, SpacedContacts
<1>2. Timeline /\ SpacedContacts /\ [Next]_vars => SpacedContacts'
  BY GapStep
<1> QED BY <1>1, <1>2, Chronology, PTL DEF Spec

-----------------------------------------------------------------------------
(* Promises *)

\* Without a newest active promise there is none.
LEMMA NoneActive ==
  ASSUME Timeline, activePromise(promises) = None
  PROVE  \A p \in promises : p.status # "ACTIVE"
<1> DEFINE active == {p \in promises : p.status = "ACTIVE"}
           instants == {p.createdAt : p \in active}
<1>1. SUFFICES ASSUME active # {} PROVE FALSE
  OBVIOUS
<1>2. instants \in SUBSET Int /\ now \in Int /\ \A t \in instants : t <= now
  BY DEF Timeline, Clocked, PromisesPast, Promise
<1>3. instants # {}
  BY <1>1
<1>4. Latest(instants) \in instants /\ \A t \in instants : t <= Latest(instants)
  <2> HIDE DEF instants
  <2> QED BY <1>2, <1>3, LatestIs
<1>5. PICK p \in active : \A q \in active : q.createdAt <= p.createdAt
  <2>1. PICK p \in active : p.createdAt = Latest(instants)
    <3> HIDE DEF active
    <3> QED BY <1>4
  <2>2. \A q \in active : q.createdAt \in instants
    OBVIOUS
  <2> HIDE DEF active, instants
  <2> QED BY <1>4, <2>1, <2>2
<1>6. activePromise(promises) \in active
  <2>1. activePromise(promises) = CHOOSE x \in active : \A q \in active : q.createdAt <= x.createdAt
    BY <1>1 DEF activePromise
  <2> HIDE DEF active
  <2> QED BY <1>5, <2>1
<1> QED BY <1>6, NoneAssumption DEF Timeline, PromisesPast

LEMMA PromiseStep ==
  ASSUME Timeline, PromiseRespected, [Next]_vars
  PROVE  PromiseRespected'
<1> USE DEF Timeline
<1>1. CASE contacts' = contacts /\ promises' = promises
  BY <1>1 DEF PromiseRespected
<1>2. CASE contacts' = contacts /\ ExpirePromises
  <2>1. \A q \in promises' : \E p \in promises :
          q.createdAt = p.createdAt /\ q.promisedDate = p.promisedDate
    <3> TAKE q \in promises'
    <3>1. PICK p \in promises :
            q = IF p.status = "ACTIVE" /\ p.promisedDate < now
                THEN [p EXCEPT !.status = IF Kept THEN "KEPT" ELSE "BROKEN"] ELSE p
      BY <1>2 DEF ExpirePromises
    <3>2. PICK status : q = [p EXCEPT !.status = status] \/ q = p
      BY <3>1
    <3> QED BY <3>2 DEF PromisesPast, Promise
  <2> QED BY <1>2, <2>1 DEF PromiseRespected
<1>3. ASSUME NEW r, pc = "act", contacts' = contacts,
             promises' = promises \cup {[createdAt |-> now, promisedDate |-> now + r.days * DAY,
                                         status |-> "ACTIVE"]}
      PROVE  PromiseRespected'
  <2>1. \A c \in contacts : c.sentAt < now
    BY <1>3 DEF ContactsPast, InThePast, Early
  <2> QED BY <1>3, <2>1 DEF PromiseRespected
<1>4. ASSUME NEW c, c.sentAt = now, contacts' = contacts \cup {c}, promises' = promises,
             c.own => OwnTouchAllowed
      PROVE  PromiseRespected'
  <2>1. c.own => \A p \in promises : p.promisedDate < now
    BY <1>4, NoneActive DEF OwnTouchAllowed, PromisesPast
  <2>2. now \in Int /\ \A p \in promises : p.promisedDate \in Int
    BY DEF Clocked, PromisesPast, Promise
  <2> QED BY <1>4, <2>1, <2>2 DEF PromiseRespected
<1> QED BY <1>1, <1>2, <1>3, <1>4, ContactsGrow, WhoPromises

\* From the moment a promise is recorded until its date has passed, the customer
\* hears nothing of the case.
THEOREM PromisesAreRespected == Spec => []PromiseRespected
<1>1. Init => PromiseRespected
  BY DEF Init, PromiseRespected
<1>2. Timeline /\ PromiseRespected /\ [Next]_vars => PromiseRespected'
  BY PromiseStep
<1> QED BY <1>1, <1>2, Chronology, PTL DEF Spec

-----------------------------------------------------------------------------
(* Notices *)

LEMMA SentAreInts ==
  ASSUME Timeline
  PROVE  now \in Int /\ \A a \in Sent : a.executedAt \in Int /\ a.executedAt <= now
BY DEF Timeline, Clocked, ActionsPast, InThePast, Sent

Notices == {n \in Sent : n.type = "SEND_PRE_DEBIT_NOTICE"}

LEMMA LastNoticeIs ==
  ASSUME Timeline, LastNotice # None
  PROVE  /\ LastNotice \in Int
         /\ \E n \in Notices : n.executedAt = LastNotice
         /\ \A n \in Notices : n.executedAt <= LastNotice
<1> DEFINE instants == {a.executedAt : a \in Notices}
<1>1. LastNotice = Latest(instants)
  BY DEF LastNotice, Notices
<1>2. instants \in SUBSET Int /\ now \in Int /\ \A t \in instants : t <= now
  BY SentAreInts DEF Notices
<1>3. Latest(instants) \in instants /\ \A t \in instants : t <= Latest(instants)
  <2> HIDE DEF instants
  <2>1. instants # {}
    BY <1>1 DEF Latest
  <2> QED BY <1>2, <2>1, LatestIs
<1>4. \A n \in Notices : n.executedAt \in instants
  OBVIOUS
<1>5. \E n \in Notices : n.executedAt = Latest(instants)
  BY <1>3
<1> HIDE DEF instants
<1> QED BY <1>1, <1>2, <1>3, <1>4, <1>5

LEMMA NoticeStep ==
  ASSUME Timeline, NoticeBeforeDebit, [Next]_vars
  PROVE  NoticeBeforeDebit'
<1> DEFINE Before(S, a) == {n \in S : /\ n.type = "SEND_PRE_DEBIT_NOTICE"
                                      /\ n.executedAt < a.executedAt}
           Noticed(S, a) == /\ Before(S, a) # {}
                            /\ \A n \in Before(S, a) : a.executedAt - n.executedAt >= NoticeSpan
<1>1. \A a \in Sent : a.type \in ChargeTypes => Noticed(Sent, a)
  BY DEF NoticeBeforeDebit
<1>2. NoticeSpan \in Int /\ NoticeSpan > 0
  BY LimitsAssumption DEF NoticeSpan, HOUR
<1>3. CASE Sent' = Sent
  BY <1>1, <1>3 DEF NoticeBeforeDebit
<1>4. ASSUME NEW b \in actions, ActionFields(b), ExecutionAllowed(b.type),
             Sent' = Sent \cup {MarkedSent(b)}
      PROVE  NoticeBeforeDebit'
  <2> DEFINE m == MarkedSent(b)
  <2>1. m.type = b.type /\ m.executedAt = now
    BY <1>4, MarkedIsSent
  <2>2. Sent' = Sent \cup {m}
    BY <1>4
  <2> HIDE DEF m
  <2>3. \A a \in Sent' : Before(Sent', a) = Before(Sent, a)
    BY <2>1, <2>2, SentAreInts
  <2>4. m.type \in ChargeTypes => Noticed(Sent, m)
    <3> SUFFICES ASSUME m.type \in ChargeTypes PROVE Noticed(Sent, m)
      OBVIOUS
    <3>1. LastNotice # None /\ now - LastNotice >= NoticeSpan
      BY <1>4, <2>1 DEF ExecutionAllowed
    <3>2. LastNotice \in Int /\ LastNotice < now
      BY <1>2, <3>1, LastNoticeIs, SentAreInts
    <3>3. PICK n \in Notices : n.executedAt = LastNotice
      BY <3>1, LastNoticeIs
    <3>4. n \in Before(Sent, m)
      BY <2>1, <3>2, <3>3 DEF Notices
    <3>5. \A x \in Before(Sent, m) : x.executedAt \in Int /\ x.executedAt <= LastNotice
      BY <3>1, LastNoticeIs, SentAreInts DEF Notices
    <3>6. \A x \in Before(Sent, m) : m.executedAt - x.executedAt >= NoticeSpan
      BY <1>2, <2>1, <3>1, <3>2, <3>5, SentAreInts
    <3> QED BY <3>4, <3>6
  <2>5. \A a \in Sent' : a.type \in ChargeTypes => Noticed(Sent', a)
    BY <1>1, <2>2, <2>3, <2>4
  <2> QED BY <2>5 DEF NoticeBeforeDebit
<1> QED BY <1>3, <1>4, SentGrows

\* A debit under a mandate is preceded by a notice of at least notice_hours.
THEOREM DebitsAreNoticed == Spec => []NoticeBeforeDebit
<1>1. Init => NoticeBeforeDebit
  BY DEF Init, NoticeBeforeDebit, Sent
<1>2. Timeline /\ NoticeBeforeDebit /\ [Next]_vars => NoticeBeforeDebit'
  BY NoticeStep
<1> QED BY <1>1, <1>2, Chronology, PTL DEF Spec

-----------------------------------------------------------------------------
(* The ladder *)

LEMMA RungsAre ==
  ASSUME NEW type \in ActionType
  PROVE  rungIndexOf(type) \in 0..4
BY DEF ActionType, rungIndexOf, Silent, Reminders, Offers, ChargeTypes

LEMMA SentTypes ==
  ASSUME Timeline
  PROVE  \A a \in Sent : rungIndexOf(a.type) \in 0..4
BY RungsAre DEF Timeline, ActionsPast, Sent

\* The rung reached is the highest of those of the actions sent.
LEMMA RungReachedIs ==
  ASSUME Timeline
  PROVE  /\ RungReached \in 0..4
         /\ \A a \in Sent : rungIndexOf(a.type) <= RungReached
         /\ RungReached # 0 => \E a \in Sent : rungIndexOf(a.type) = RungReached
<1> DEFINE rungs == {rungIndexOf(a.type) : a \in Sent} \cup {0}
<1>1. rungs \subseteq 0..4 /\ \A a \in Sent : rungIndexOf(a.type) \in rungs
  BY SentTypes
<1>2. Latest(rungs) \in rungs /\ \A k \in rungs : k <= Latest(rungs)
  <2>1. rungs # {}
    OBVIOUS
  <2> HIDE DEF rungs
  <2>2. rungs \in SUBSET Int
    BY <1>1
  <2>3. PICK top \in Int : \A k \in rungs : k <= top
    BY <1>1
  <2> QED BY <2>1, <2>2, <2>3, LatestIs
<1>3. Latest(rungs) # 0 => \E a \in Sent : rungIndexOf(a.type) = Latest(rungs)
  BY <1>2
<1>4. RungReached = Latest(rungs)
  BY DEF RungReached
<1> HIDE DEF rungs
<1> QED BY <1>1, <1>2, <1>3, <1>4

\* The last rung change is the newest of the actions on the rung reached.
LEMMA LastRungChangeIs ==
  ASSUME Timeline, RungReached # 0
  PROVE  /\ LastRungChange \in Int
         /\ \A b \in Sent : rungIndexOf(b.type) = RungReached => b.executedAt <= LastRungChange
<1> DEFINE top == {b \in Sent : rungIndexOf(b.type) = RungReached}
           instants == {a.executedAt : a \in top}
<1>1. instants \in SUBSET Int /\ now \in Int /\ \A t \in instants : t <= now
  BY SentAreInts
<1>2. instants # {}
  BY RungReachedIs
<1>3. Latest(instants) \in instants /\ \A t \in instants : t <= Latest(instants)
  <2> HIDE DEF instants
  <2> QED BY <1>1, <1>2, LatestIs
<1>4. \A b \in Sent : rungIndexOf(b.type) = RungReached => b.executedAt \in instants
  OBVIOUS
<1>5. LastRungChange = Latest(instants)
  BY DEF LastRungChange
<1> HIDE DEF instants
<1> QED BY <1>1, <1>3, <1>4, <1>5

LEMMA LadderStep ==
  ASSUME Timeline, LadderClimbed, [Next]_vars
  PROVE  LadderClimbed'
<1> DEFINE Rung(a) == rungIndexOf(a.type)
           Before(S, a) == {b \in S : b.executedAt < a.executedAt}
           Below(S, a) == {b \in Before(S, a) : Rung(b) = Rung(a) - 1}
           First(S, a) == Rung(a) >= 2 /\ \A b \in Before(S, a) : Rung(b) < Rung(a)
           Climbed(S, a) ==
             First(S, a) =>
               /\ Below(S, a) # {}
               /\ \A b \in Below(S, a) :
                    a.executedAt - b.executedAt >= Authority.dwell[Rung(a)] * DAY
<1>1. \A a \in Sent : Climbed(Sent, a)
  BY DEF LadderClimbed
<1>2. CASE Sent' = Sent
  BY <1>1, <1>2 DEF LadderClimbed
<1>3. ASSUME NEW b \in actions, ActionFields(b), b.type \in ActionType, ExecutionAllowed(b.type),
             Sent' = Sent \cup {MarkedSent(b)}
      PROVE  LadderClimbed'
  <2> DEFINE m == MarkedSent(b)
             k == Rung(m)
  <2>1. m.type = b.type /\ m.executedAt = now
    BY <1>3, MarkedIsSent
  <2>2. Sent' = Sent \cup {m}
    BY <1>3
  <2> HIDE DEF m
  <2>3. \A a \in Sent' : Before(Sent', a) = Before(Sent, a)
    BY <2>1, <2>2, SentAreInts
  <2>4. k \in 0..4 /\ now \in Int /\ \A a \in Sent : Rung(a) \in 0..4 /\ a.executedAt \in Int
    BY <1>3, <2>1, RungsAre, SentTypes, SentAreInts
  <2>5. /\ k <= RungReached + 1
        /\ k <= RungReached \/ LastRungChange = None
             \/ now - LastRungChange >= Authority.dwell[RungReached + 1] * DAY
    BY <1>3, <2>1 DEF ExecutionAllowed
  <2>6. Climbed(Sent, m)
    <3> SUFFICES ASSUME First(Sent, m)
                 PROVE  /\ Below(Sent, m) # {}
                        /\ \A x \in Below(Sent, m) :
                             m.executedAt - x.executedAt >= Authority.dwell[k] * DAY
      OBVIOUS
    <3>1. RungReached \in 1..4 /\ k \in 2..4
      BY <2>4, <2>5, RungReachedIs
    <3>2. PICK y \in Sent : Rung(y) = RungReached
      BY <3>1, RungReachedIs
    <3>3. CASE k = RungReached + 1
      <4>1. Authority.dwell[k] \in Nat /\ Authority.dwell[k] > 0
        BY <3>1, LimitsAssumption
      <4>2. /\ LastRungChange \in Int
            /\ \A x \in Sent : Rung(x) = RungReached => x.executedAt <= LastRungChange
        BY <3>1, LastRungChangeIs
      <4>3. now - LastRungChange >= Authority.dwell[k] * DAY
        BY <2>5, <3>1, <3>3, <4>2, NoneAssumption
      <4>4. y \in Below(Sent, m)
        BY <2>1, <2>4, <3>1, <3>2, <3>3, <4>1, <4>2, <4>3 DEF DAY
      <4>5. \A x \in Below(Sent, m) : x.executedAt \in Int /\ x.executedAt <= LastRungChange
        BY <2>4, <3>1, <3>3, <4>2
      <4>6. \A x \in Below(Sent, m) : m.executedAt - x.executedAt >= Authority.dwell[k] * DAY
        BY <2>1, <2>4, <4>1, <4>2, <4>3, <4>5 DEF DAY
      <4> QED BY <4>4, <4>6
    <3>4. CASE k <= RungReached
      <4>1. y.executedAt = now
        BY <2>1, <2>4, <3>1, <3>2, <3>4, SentAreInts
      <4>2. Before(Sent, y) = Before(Sent, m)
        BY <2>1, <4>1
      <4>3. First(Sent, y)
        BY <2>4, <3>1, <3>2, <3>4, <4>2
      <4>4. PICK x \in Before(Sent, y) : Rung(x) = Rung(y) - 1
        BY <1>1, <4>3
      <4>5. Rung(y) = k
        BY <2>4, <3>1, <3>2, <3>4, <4>2, <4>4
      <4> QED BY <1>1, <2>1, <4>1, <4>2, <4>3, <4>5
    <3> QED BY <2>4, <2>5, <3>1, <3>3, <3>4
  <2>7. \A a \in Sent' : Climbed(Sent', a)
    BY <1>1, <2>2, <2>3, <2>6
  <2> QED BY <2>7 DEF LadderClimbed
<1> QED BY <1>2, <1>3, SentGrows

\* Before the first action on a rung there was one on the rung below, and since
\* the last of those the dwell of the rung has passed.
THEOREM LadderIsClimbed == Spec => []LadderClimbed
<1>1. Init => LadderClimbed
  BY DEF Init, LadderClimbed, Sent
<1>2. Timeline /\ LadderClimbed /\ [Next]_vars => LadderClimbed'
  BY LadderStep
<1> QED BY <1>1, <1>2, Chronology, PTL DEF Spec

-----------------------------------------------------------------------------
(* The caps *)

FiniteContacts == IsFiniteSet(contacts)

LEMMA ContactsStayFinite ==
  ASSUME Timeline, FiniteContacts, [Next]_vars
  PROVE  FiniteContacts'
BY ContactsGrow, FS_AddElement DEF FiniteContacts

\* Own contacts of the seven days until now are within the cap, for they are in
\* the week of the newest of them.
LEMMA OwnWithinCap ==
  ASSUME Timeline, FiniteContacts, WeeklyCaps
  PROVE  Cardinality({c \in Recent : c.own}) <= Policy.max_per_case_7d
<1> DEFINE own == {c \in Recent : c.own}
           instants == {c.sentAt : c \in own}
<1>1. Policy.max_per_case_7d \in Nat
  BY LimitsAssumption
<1>2. CASE own = {}
  BY <1>1, <1>2, FS_EmptySet
<1>3. CASE own # {}
  <2>1. now \in Int /\ \A c \in contacts : c.sentAt \in Int /\ c.sentAt <= now
    BY DEF Timeline, Clocked, ContactsPast, InThePast
  <2>2. instants \in SUBSET Int /\ instants # {} /\ \A t \in instants : t <= now
    BY <1>3, <2>1 DEF Recent
  <2>3. Latest(instants) \in instants /\ \A t \in instants : t <= Latest(instants)
    <3> HIDE DEF instants
    <3> QED BY <2>1, <2>2, LatestIs
  <2>4. PICK w \in own : w.sentAt = Latest(instants)
    BY <2>3
  <2>5. \A c \in own : c.sentAt <= w.sentAt
    BY <2>3, <2>4
  <2> DEFINE week == {d \in contacts : d.sentAt \in w.sentAt - 7 * DAY .. w.sentAt}
             ownWeek == {d \in week : d.own}
  <2>6. own \subseteq ownWeek
    BY <2>1, <2>4, <2>5 DEF Recent, DAY
  <2>7. Cardinality(ownWeek) <= Policy.max_per_case_7d
    BY <2>4 DEF WeeklyCaps, Recent
  <2>8. IsFiniteSet(ownWeek)
    <3>1. ownWeek \in SUBSET contacts
      OBVIOUS
    <3> HIDE DEF ownWeek
    <3> QED BY <3>1, FS_Subset DEF FiniteContacts
  <2> HIDE DEF own, ownWeek, week
  <2>9. IsFiniteSet(own) /\ Cardinality(own) <= Cardinality(ownWeek)
    BY <2>6, <2>8, FS_Subset
  <2>10. Cardinality(own) \in Nat /\ Cardinality(ownWeek) \in Nat
    BY <2>8, <2>9, FS_CardinalityType
  <2>11. Cardinality(own) <= Policy.max_per_case_7d
    BY <1>1, <2>7, <2>9, <2>10
  <2> QED BY <2>11 DEF own
<1> QED BY <1>2, <1>3

LEMMA CapsStep ==
  ASSUME Timeline, FiniteContacts, WeeklyCaps, [Next]_vars
  PROVE  WeeklyCaps'
<1> DEFINE Week(S, c) == {d \in S : d.sentAt \in c.sentAt - 7 * DAY .. c.sentAt}
           Own(S) == {d \in S : d.own}
           Within(S) == /\ Cardinality(S) <= Policy.max_per_customer_7d
                        /\ Cardinality(Own(S)) <= Policy.max_per_case_7d
<1>1. \A c \in contacts : Within(Week(contacts, c))
  BY DEF WeeklyCaps
<1>2. CASE contacts' = contacts
  BY <1>1, <1>2 DEF WeeklyCaps
<1>3. ASSUME NEW c, c.sentAt = now, contacts' = contacts \cup {c}, TouchAllowed, c.own \in BOOLEAN,
             c.own => OwnTouchAllowed
      PROVE  WeeklyCaps'
  <2>1. now \in Int /\ \A d \in contacts : d.sentAt \in Int /\ d.sentAt <= now
    BY DEF Timeline, Clocked, ContactsPast, InThePast
  <2>2. Week(contacts', c) = Recent \cup {c}
    BY <1>3, <2>1 DEF Recent, DAY
  <2>3. {Policy.max_per_case_7d, Policy.max_per_customer_7d} \subseteq Nat
    BY LimitsAssumption
  <2>4. IsFiniteSet(Recent) /\ IsFiniteSet(Own(Recent))
    <3>1. Recent \in SUBSET contacts /\ Own(Recent) \in SUBSET contacts
      BY DEF Recent
    <3> HIDE DEF Own
    <3> QED BY <3>1, FS_Subset DEF FiniteContacts
  <2>5. Cardinality(Recent) \in Nat /\ Cardinality(Own(Recent)) \in Nat
    <3> HIDE DEF Own
    <3> QED BY <2>4, FS_CardinalityType
  <2>6. Cardinality(Recent \cup {c}) <= Policy.max_per_customer_7d
    <3>1. Cardinality(Recent) < Policy.max_per_customer_7d
      BY <1>3 DEF TouchAllowed
    <3>2. \/ Cardinality(Recent \cup {c}) = Cardinality(Recent)
          \/ Cardinality(Recent \cup {c}) = Cardinality(Recent) + 1
      BY <2>4, FS_AddElement
    <3> QED BY <2>3, <2>5, <3>1, <3>2
  <2>7. Cardinality(Own(Recent \cup {c})) <= Policy.max_per_case_7d
    <3>1. CASE c.own
      <4>1. Own(Recent \cup {c}) = Own(Recent) \cup {c}
        BY <3>1
      <4>2. Cardinality(Own(Recent)) < Policy.max_per_case_7d
        BY <1>3, <3>1 DEF OwnTouchAllowed
      <4> HIDE DEF Own
      <4>3. \/ Cardinality(Own(Recent) \cup {c}) = Cardinality(Own(Recent))
            \/ Cardinality(Own(Recent) \cup {c}) = Cardinality(Own(Recent)) + 1
        BY <2>4, FS_AddElement
      <4>4. Policy.max_per_case_7d \in Nat
        BY <2>3
      <4>5. Cardinality(Own(Recent) \cup {c}) <= Policy.max_per_case_7d
        BY <2>5, <4>2, <4>3, <4>4
      <4> QED BY <4>1, <4>5
    <3>2. CASE ~c.own
      <4>1. Own(Recent \cup {c}) = Own(Recent)
        BY <3>2
      <4>2. Cardinality(Own(Recent)) <= Policy.max_per_case_7d
        BY OwnWithinCap
      <4> HIDE DEF Own
      <4> QED BY <4>1, <4>2
    <3> QED BY <3>1, <3>2
  <2>8. Within(Week(contacts', c))
    <3> HIDE DEF Week, Own
    <3> QED BY <2>2, <2>6, <2>7
  <2>9. ASSUME NEW d \in contacts' PROVE Within(Week(contacts', d))
    <3>1. CASE d.sentAt = now
      <4>1. Week(contacts', d) = Week(contacts', c)
        BY <1>3, <3>1
      <4> HIDE DEF Week, Within
      <4> QED BY <2>8, <4>1
    <3>2. CASE d.sentAt # now
      <4>1. d \in contacts /\ Week(contacts', d) = Week(contacts, d)
        BY <1>3, <2>1, <3>2 DEF DAY
      <4> HIDE DEF Week, Within
      <4> QED BY <1>1, <4>1
    <3> QED BY <3>1, <3>2
  <2> QED BY <2>9 DEF WeeklyCaps
<1> QED BY <1>2, <1>3, ContactsGrow

\* In no seven days does a customer get more messages than policy allows, about
\* one case or about all.
THEOREM CapsAreKept == Spec => []WeeklyCaps
<1>1. Init => WeeklyCaps /\ FiniteContacts
  BY FS_EmptySet DEF Init, WeeklyCaps, FiniteContacts
<1>2. Timeline /\ FiniteContacts /\ WeeklyCaps /\ [Next]_vars => (WeeklyCaps /\ FiniteContacts)'
  BY CapsStep, ContactsStayFinite
<1> QED BY <1>1, <1>2, Chronology, PTL DEF Spec

-----------------------------------------------------------------------------
(* The calendar *)

\* A civil date names its day.  The quotients are spelled out: what remains
\* is linear.
LEMMA CivilDates ==
  ASSUME NEW days \in Int, NEW n \in Int
  PROVE  LET d == civilFromDays(days)
         IN  daysFromCivil(d.year, d.month, d.day + n) = days + n
<1> DEFINE era == (days + 719468) \div 146097
           doe == (days + 719468) % 146097
           yoe == yearOfEra(doe)
           doy == dayOfYear(doe, yoe)
           mp == (5 * doy + 2) \div 153
           year == yoe + era * 400
           day == doy - (153 * mp + 2) \div 5 + 1
           month == mp + (IF mp < 10 THEN 3 ELSE -9)
           d == civilOf(year, doy)
<1>1. era \in Int /\ doe \in Int /\ 0 <= doe /\ doe <= 146096 /\ days + 719468 = era * 146097 + doe
  BY SMT
<1>2. yoe \in Int /\ doy \in Int /\ 0 <= yoe /\ yoe <= 399 /\ 0 <= doy /\ doy <= 366
  <2> DEFINE a == doe \div 1460
             b == doe \div 36524
             c == doe \div 146096
             y == (doe - a + b - c) \div 365
             e == y \div 4
             f == y \div 100
  <2>1. doe \in Int /\ 0 <= doe /\ doe <= 146096
    BY <1>1
  <2> HIDE DEF doe
  <2>2. a \in Int /\ 1460 * a <= doe /\ doe < 1460 * a + 1460
    BY <2>1, SMT
  <2>3. b \in Int /\ 36524 * b <= doe /\ doe < 36524 * b + 36524
    BY <2>1, SMT
  <2>4. c \in Int /\ 146096 * c <= doe /\ doe < 146096 * c + 146096
    BY <2>1, SMT
  <2> HIDE DEF a, b, c
  <2>5. y \in Int /\ 365 * y <= doe - a + b - c /\ doe - a + b - c < 365 * y + 365
    BY <2>1, <2>2, <2>3, <2>4, SMT
  <2> HIDE DEF y
  <2>6. e \in Int /\ 4 * e <= y /\ y < 4 * e + 4
    BY <2>5, SMT
  <2>7. f \in Int /\ 100 * f <= y /\ y < 100 * f + 100
    BY <2>5, SMT
  <2> HIDE DEF e, f
  <2>8. /\ 0 <= y /\ y <= 399
        /\ 0 <= doe - (365 * y + e - f) /\ doe - (365 * y + e - f) <= 366
    BY <2>1, <2>2, <2>3, <2>4, <2>5, <2>6, <2>7, SMTT(60)
  <2>9. yoe = y /\ doy = doe - (365 * y + e - f)
    BY DEF yearOfEra, dayOfYear, a, b, c, y, e, f
  <2> HIDE DEF yoe, doy
  <2> QED BY <2>1, <2>5, <2>6, <2>7, <2>8, <2>9
<1>3. /\ d = [year |-> year + (IF month <= 2 THEN 1 ELSE 0), month |-> month, day |-> day]
      /\ civilFromDays(days) = d
  BY DEF civilFromDays, civilOf
<1>4. doe = yoe * 365 + yoe \div 4 - yoe \div 100 + doy
  <2> HIDE DEF doe, yoe
  <2>1. yoe \div 4 \in Int /\ yoe \div 100 \in Int
    BY <1>2
  <2> QED BY <1>1, <1>2, <2>1 DEF dayOfYear
<1> HIDE DEF era, doe, yoe, doy
<1>5. mp \in Int /\ 0 <= mp /\ mp <= 11
  BY <1>2, SMT
<1> DEFINE before == (153 * mp + 2) \div 5
<1>6. before \in Int
  BY <1>5, SMT
<1> HIDE DEF mp
<1>7. year \in Int /\ year \div 400 = era /\ year - era * 400 = yoe
  BY <1>1, <1>2, SMT
<1>8. month \in Int /\ (IF month > 2 THEN month - 3 ELSE month + 9) = mp
  BY <1>5
<1> DEFINE y == d.year - (IF d.month <= 2 THEN 1 ELSE 0)
<1>9. y = year /\ d.month = month /\ d.day = doy - before + 1
  BY <1>3, <1>7, <1>8
<1> HIDE DEF year, month, before, day, d
<1>10. daysFromCivil(d.year, d.month, d.day + n)
       = era * 146097 + yoe * 365 + yoe \div 4 - yoe \div 100
           + ((153 * mp + 2) \div 5 + (d.day + n) - 1) - 719468
  <2> DEFINE back == d.year - (IF d.month <= 2 THEN 1 ELSE 0)
  <2>1. back = year /\ back \div 400 = era /\ back - (back \div 400) * 400 = yoe
    BY <1>7, <1>9 
  <2>2. (IF d.month > 2 THEN d.month - 3 ELSE d.month + 9) = mp
    BY <1>8, <1>9
  <2> HIDE DEF back
  <2> QED BY <2>1, <2>2 DEF daysFromCivil, back
<1>11. yoe \div 4 \in Int /\ yoe \div 100 \in Int
  BY <1>2
<1>12. daysFromCivil(d.year, d.month, d.day + n)
       = era * 146097 + yoe * 365 + yoe \div 4 - yoe \div 100 + (before + (d.day + n) - 1) - 719468
  BY <1>10 DEF before
<1>13. daysFromCivil(d.year, d.month, d.day + n) = days + n
  BY <1>1, <1>2, <1>4, <1>6, <1>9, <1>11, <1>12
<1> QED BY <1>3, <1>13

\* An instant in its day.
LEMMA DayOf ==
  ASSUME NEW at \in Int
  PROVE  /\ istDay(at) \in Int /\ intoDay(at) \in Int
         /\ at = istDay(at) * DAY + intoDay(at) - IST_OFFSET
         /\ 0 <= intoDay(at) /\ intoDay(at) < DAY
         /\ istHour(at) \in Int /\ minute(at) \in Int /\ 0 <= minute(at) /\ minute(at) < HOUR
         /\ intoDay(at) = istHour(at) * HOUR + minute(at)
         /\ at = istDay(at) * DAY + istHour(at) * HOUR + minute(at) - IST_OFFSET
         /\ istHour(at) * HOUR + minute(at) < DAY
BY SMT DEF istDay, intoDay, istHour, minute, DAY, HOUR, IST_OFFSET

\* A time on the date of an instant, or days after.
LEMMA OnDate ==
  ASSUME NEW at \in Int, NEW n \in Int, NEW hour \in Int, NEW half \in Int
  PROVE  /\ On(toIst(at), n, hour, half)
              = (istDay(at) + n) * DAY + hour * HOUR + half - IST_OFFSET
         /\ On(toIst(at), n, hour, half) \in Int
<1>1. istDay(at) \in Int
  BY DayOf
<1>2. On(toIst(at), n, hour, half)
      = (istDay(at) + n) * DAY + hour * HOUR + half - IST_OFFSET
  BY <1>1, CivilDates DEF On, fromIst, toIst
<1> QED BY <1>1, <1>2 DEF DAY, HOUR, IST_OFFSET

LEMMA DaysLater ==
  ASSUME NEW at \in Int, NEW n \in Int
  PROVE  addIstDays(at, n) = at + n * DAY /\ istDay(addIstDays(at, n)) = istDay(at) + n
<1>1. addIstDays(at, n) = at + n * DAY
  <2>1. addIstDays(at, n)
        = (istDay(at) + n) * DAY + istHour(at) * HOUR + minute(at) - IST_OFFSET
    BY DayOf, OnDate DEF addIstDays
  <2>2. /\ istDay(at) \in Int /\ istHour(at) \in Int /\ minute(at) \in Int
        /\ at = istDay(at) * DAY + istHour(at) * HOUR + minute(at) - IST_OFFSET
    BY DayOf
  <2>3. \A D, h, m \in Int : at = D * DAY + h * HOUR + m - IST_OFFSET =>
          (D + n) * DAY + h * HOUR + m - IST_OFFSET = at + n * DAY
    BY DEF DAY, HOUR, IST_OFFSET
  <2> QED BY <2>1, <2>2, <2>3
<1>2. istDay(at + n * DAY) = istDay(at) + n
  BY SMT DEF istDay, DAY, IST_OFFSET
<1> QED BY <1>1, <1>2

\* A time of the day n days after an instant is later than the instant if n is
\* positive, or if the instant's own hour comes before it.
LEMMA TimeAhead ==
  ASSUME NEW at \in Int, NEW n \in Nat, NEW hour \in Nat,
         n > 0 \/ istHour(at) < hour
  PROVE  atIst(addIstDays(at, n), hour) \in Int /\ at < atIst(addIstDays(at, n), hour)
<1>1. /\ addIstDays(at, n) \in Int /\ istDay(addIstDays(at, n)) = istDay(at) + n
  BY DaysLater DEF DAY
<1> DEFINE later == addIstDays(at, n)
<1>2. atIst(later, hour) = (istDay(at) + n) * DAY + hour * HOUR - IST_OFFSET
  <2>1. atIst(later, hour) = (istDay(later) + 0) * DAY + hour * HOUR + 0 - IST_OFFSET
    <3> HIDE DEF later
    <3> QED BY <1>1, OnDate DEF atIst, later
  <2> QED BY <1>1, <2>1, DayOf DEF DAY, HOUR, IST_OFFSET
<1>3. /\ istDay(at) \in Int /\ istHour(at) \in Int /\ minute(at) \in Int /\ minute(at) < HOUR
      /\ at = istDay(at) * DAY + istHour(at) * HOUR + minute(at) - IST_OFFSET
      /\ istHour(at) * HOUR + minute(at) < DAY
  BY DayOf
<1> HIDE DEF later
<1>4. atIst(later, hour) \in Int /\ at < atIst(later, hour)
  <2>1. CASE n > 0
    BY <1>2, <1>3, <2>1 DEF DAY, HOUR, IST_OFFSET
  <2>2. CASE istHour(at) < hour
    BY <1>2, <1>3, <2>2 DEF DAY, HOUR, IST_OFFSET
  <2> QED BY <2>1, <2>2
<1> QED BY <1>4 DEF later

LEMMA MorningAhead ==
  ASSUME NEW at \in Int
  PROVE  nextMorning(at) \in Int /\ at < nextMorning(at)
BY TimeAhead DEF nextMorning

LEMMA WindowAhead ==
  ASSUME NEW at \in Int, NEW start \in Nat, NEW end \in Nat,
         ~isWithinIstWindow(at, start, end)
  PROVE  nextIstWindowStart(at, start, end) \in Int /\ at < nextIstWindowStart(at, start, end)
<1>1. istHour(at) \in Int
  BY DayOf
<1>2. CASE istHour(at) < start
  <2>1. addIstDays(at, 0) = at
    BY DaysLater DEF DAY
  <2> QED BY <1>2, <2>1, TimeAhead DEF nextIstWindowStart
<1>3. CASE ~(istHour(at) < start)
  BY <1>3, TimeAhead DEF nextIstWindowStart
<1> QED BY <1>2, <1>3

LEMMA NatHasFirst ==
  ASSUME NEW S \in SUBSET (1..30), S # {}
  PROVE  \E n \in S : \A m \in 1..(n - 1) : m \notin S
<1>1. S \in SUBSET Nat
  OBVIOUS
<1>2. PICK n \in S : \A m \in S : n <= m
  BY <1>1, NatHasLeast
<1> QED BY <1>1, <1>2

LEMMA BankingDayAhead ==
  ASSUME NEW at \in Int, ~NoBankingDay(at)
  PROVE  nextBankingDay(at) \in Int /\ at < nextBankingDay(at)
<1> DEFINE Open == {n \in 1..30 : isBankingDay(Midnight(at, n))}
           First(n) == /\ isBankingDay(Midnight(at, n))
                       /\ \A m \in 1..(n - 1) : ~isBankingDay(Midnight(at, m))
<1>1. \E n \in 1..30 : First(n)
  <2>1. Open # {} /\ Open \in SUBSET (1..30)
    BY DEF NoBankingDay
  <2>2. PICK n \in Open : \A m \in 1..(n - 1) : m \notin Open
    <3> HIDE DEF Open
    <3> QED BY <2>1, NatHasFirst
  <2>3. \A m \in 1..(n - 1) : m \in 1..30
    OBVIOUS
  <2> QED BY <2>2, <2>3
<1>2. PICK n \in 1..30 : nextBankingDay(at) = Midnight(at, n)
  <2> DEFINE first == CHOOSE n \in 1..30 : First(n)
  <2>1. first \in 1..30
    <3> HIDE DEF First
    <3> QED BY <1>1
  <2>2. nextBankingDay(at) = Midnight(at, first)
    BY DEF nextBankingDay
  <2> QED BY <2>1, <2>2
<1>3. Midnight(at, n) = atIst(addIstDays(at, n), 0)
  BY DEF Midnight, startOfIstDay
<1> QED BY <1>2, <1>3, TimeAhead

-----------------------------------------------------------------------------
(* What the gates put off is put off to an instant ahead *)

\* What the rules need of a context to name the instants they defer to.
Dated(c) ==
  /\ c.at \in Int /\ c.caseAge \in Int /\ c.action \in ActionType
  /\ c.lastTouchAt \in Int \cup {None}
  /\ c.preDebitNoticeSentAt \in Int \cup {None}
  /\ c.rungReached \in 0..4
  /\ c.rungReached = 0 => c.lastRungChangeAt = None
  /\ c.rungReached # 0 => c.lastRungChangeAt \in Int

\* All of these instants.
Instants(c) ==
  {nextIstWindowStart(c.at, Policy.start_hour, Policy.end_hour),
   nextIstWindowStart(c.at, Policy.call_start_hour, Policy.call_end_hour),
   nextIstWindowStart(c.at, Policy.promo_start_hour, Policy.promo_end_hour),
   c.at + Policy.grace_days * DAY - c.caseAge, nextMorning(c.at), nextBankingDay(c.at)}
  \cup {c.at + DAY, c.lastTouchAt + Policy.min_gap_hours * HOUR,
        c.lastRungChangeAt + Dwell(c),
        (IF c.preDebitNoticeSentAt = None THEN c.at ELSE c.preDebitNoticeSentAt) + NoticeSpan,
        c.at + HOUR}

LEMMA SixAreFinite ==
  ASSUME NEW a, NEW b, NEW c, NEW d, NEW e, NEW f
  PROVE  IsFiniteSet({a, b, c, d, e, f})
<1>1. IsFiniteSet({a}) BY FS_Singleton
<1>2. IsFiniteSet({a, b}) BY <1>1, FS_AddElement, {a, b} = {a} \cup {b}
<1>3. IsFiniteSet({a, b, c}) BY <1>2, FS_AddElement, {a, b, c} = {a, b} \cup {c}
<1>4. IsFiniteSet({a, b, c, d}) BY <1>3, FS_AddElement, {a, b, c, d} = {a, b, c} \cup {d}
<1>5. IsFiniteSet({a, b, c, d, e})
  BY <1>4, FS_AddElement, {a, b, c, d, e} = {a, b, c, d} \cup {e}
<1> QED BY <1>5, FS_AddElement, {a, b, c, d, e, f} = {a, b, c, d, e} \cup {f}

LEMMA InstantsAreFinite ==
  ASSUME NEW c
  PROVE  IsFiniteSet(Instants(c))
<1>1. \A x, y, z, u, v : IsFiniteSet({x, y, z, u, v})
  <2> TAKE x, y, z, u, v
  <2>1. {x, y, z, u, v} = {x, y, z, u, v, v} OBVIOUS
  <2> QED BY <2>1, SixAreFinite
<1> QED BY <1>1, SixAreFinite, FS_Union DEF Instants

\* An instant of a failure, if it has one, is one of these and lies ahead.
Ahead(c, until) ==
  until = None \/ (until \in Int /\ c.at < until /\ until \in Instants(c))

LEMMA HoursAhead ==
  ASSUME NEW c, Dated(c), NEW start \in Nat, NEW end \in Nat,
         nextIstWindowStart(c.at, start, end) \in Instants(c),
         ~isWithinIstWindow(c.at, start, end)
  PROVE  Ahead(c, nextIstWindowStart(c.at, start, end))
BY WindowAhead DEF Dated, Ahead

LEMMA TimingAhead ==
  ASSUME NEW c, Dated(c), NEW f \in Timing(c)
  PROVE  Ahead(c, f.until)
<1>1. Ahead(c, None)
  BY DEF Ahead
<1>2. ASSUME f \in Hours("QUIET_HOURS", c, FALSE, Policy.start_hour, Policy.end_hour)
      PROVE  Ahead(c, f.until)
  <2>1. ~isWithinIstWindow(c.at, Policy.start_hour, Policy.end_hour) =>
          Ahead(c, nextIstWindowStart(c.at, Policy.start_hour, Policy.end_hour))
    BY HoursAhead, LimitsAssumption DEF Instants
  <2> QED BY <1>1, <1>2, <2>1 DEF Hours, Rule, Failure
<1>3. ASSUME f \in Hours("RECOVERY_CALL_HOURS", c, FALSE,
                         Policy.call_start_hour, Policy.call_end_hour)
      PROVE  Ahead(c, f.until)
  <2>1. ~isWithinIstWindow(c.at, Policy.call_start_hour, Policy.call_end_hour) =>
          Ahead(c, nextIstWindowStart(c.at, Policy.call_start_hour, Policy.call_end_hour))
    BY HoursAhead, LimitsAssumption DEF Instants
  <2> QED BY <1>1, <1>3, <2>1 DEF Hours, Rule, Failure
<1>4. ASSUME f \in Rule("GOOD_PAYER_GRACE", c,
                        ~EarnedGrace(c) \/ c.caseAge >= Policy.grace_days * DAY,
                        c.at + Policy.grace_days * DAY - c.caseAge)
      PROVE  Ahead(c, f.until)
  <2>1. ~(c.caseAge >= Policy.grace_days * DAY) =>
          Ahead(c, c.at + Policy.grace_days * DAY - c.caseAge)
    <3>1. Policy.grace_days * DAY \in Int
      BY LimitsAssumption DEF DAY
    <3>2. c.at + Policy.grace_days * DAY - c.caseAge \in Instants(c)
      BY DEF Instants
    <3> QED BY <3>1, <3>2 DEF Dated, Ahead
  <2> QED BY <1>1, <1>4, <2>1 DEF Rule, Failure
<1>5. ASSUME f \in Rule("NO_HOLIDAY_DUNNING", c, ~c.isFestival, nextMorning(c.at))
      PROVE  Ahead(c, f.until)
  <2>1. Ahead(c, nextMorning(c.at))
    BY MorningAhead DEF Dated, Ahead, Instants
  <2> QED BY <1>1, <1>5, <2>1 DEF Rule, Failure
<1>6. ASSUME f \in Rule("BANK_HOLIDAY_MANDATE", c, isBankingDay(c.at),
                        IF NoBankingDay(c.at) THEN None ELSE nextBankingDay(c.at))
      PROVE  Ahead(c, f.until)
  <2>1. ~NoBankingDay(c.at) => Ahead(c, nextBankingDay(c.at))
    BY BankingDayAhead DEF Dated, Ahead, Instants
  <2> QED BY <1>1, <1>6, <2>1 DEF Rule, Failure
<1> QED BY <1>2, <1>3, <1>4, <1>5, <1>6 DEF Timing

LEMMA CheckAhead ==
  ASSUME NEW c, Dated(c), NEW f \in Consent(c) \cup Content(c) \cup DataProtection(c)
  PROVE  Ahead(c, f.until)
<1>1. Ahead(c, None)
  BY DEF Ahead
<1>2. CASE f.until = None
  BY <1>1, <1>2
<1>3. f \in Content(c) \cup DataProtection(c) => f.until = None
  BY DEF Content, DataProtection, Check, Rule, Failure
<1>4. f \in Consent(c) =>
        \/ f.until = None
        \/ f \in Hours("PROMO_RECLASSIFY", c, c.content = None \/ ~c.content.includesOffer,
                       Policy.promo_start_hour, Policy.promo_end_hour)
  BY DEF Consent, Check, Rule, Failure
<1>5. ASSUME f \in Hours("PROMO_RECLASSIFY", c, c.content = None \/ ~c.content.includesOffer,
                         Policy.promo_start_hour, Policy.promo_end_hour)
      PROVE  Ahead(c, f.until)
  <2>1. ~isWithinIstWindow(c.at, Policy.promo_start_hour, Policy.promo_end_hour) =>
          Ahead(c, nextIstWindowStart(c.at, Policy.promo_start_hour, Policy.promo_end_hour))
    BY HoursAhead, LimitsAssumption DEF Instants
  <2> QED BY <1>1, <1>5, <2>1 DEF Hours, Rule, Failure
<1> QED BY <1>2, <1>3, <1>4, <1>5

LEMMA FrequencyAhead ==
  ASSUME NEW c, Dated(c), NEW f \in Frequency(c)
  PROVE  Ahead(c, f.until)
<1>1. Ahead(c, None)
  BY DEF Ahead
<1>2. Ahead(c, c.at + DAY)
  BY DEF Dated, Ahead, Instants, DAY
<1>3. ASSUME c.lastTouchAt # None,
             ~(c.at - c.lastTouchAt >= Policy.min_gap_hours * HOUR)
      PROVE  Ahead(c, c.lastTouchAt + Policy.min_gap_hours * HOUR)
  <2>1. Policy.min_gap_hours * HOUR \in Int
    BY LimitsAssumption DEF HOUR
  <2>2. c.lastTouchAt + Policy.min_gap_hours * HOUR \in Instants(c)
    BY DEF Instants
  <2> QED BY <1>3, <2>1, <2>2 DEF Dated, Ahead
<1> QED BY <1>1, <1>2, <1>3 DEF Frequency, Rule, Failure

LEMMA EscalationAhead ==
  ASSUME NEW c, Dated(c), NEW f \in Escalation(c)
  PROVE  Ahead(c, f.until)
<1>1. Ahead(c, None)
  BY DEF Ahead
<1>2. Ahead(c, c.at + DAY)
  BY DEF Dated, Ahead, Instants, DAY
<1>3. ASSUME ~(rungIndexOf(c.action) <= c.rungReached), c.lastRungChangeAt # None,
             ~(c.at - c.lastRungChangeAt >= Dwell(c))
      PROVE  Ahead(c, c.lastRungChangeAt + Dwell(c))
  <2>1. c.rungReached \in 1..3 /\ c.lastRungChangeAt \in Int
    <3>1. rungIndexOf(c.action) \in 0..4
      BY RungsAre DEF Dated
    <3> QED BY <1>3, <3>1 DEF Dated
  <2>2. Dwell(c) \in Int
    <3>1. Authority.dwell[c.rungReached + 1] \in Nat
      BY <2>1, LimitsAssumption
    <3> QED BY <3>1 DEF Dwell, DAY
  <2>3. c.lastRungChangeAt + Dwell(c) \in Instants(c)
    BY DEF Instants
  <2> QED BY <1>3, <2>1, <2>2, <2>3 DEF Dated, Ahead
<1>4. \/ f.until = None \/ f.until = c.at + DAY
      \/ f \in Rule("ESCALATION_COOLDOWN", c,
              \/ rungIndexOf(c.action) <= c.rungReached
              \/ c.lastRungChangeAt = None
              \/ c.at - c.lastRungChangeAt >= Dwell(c),
              c.lastRungChangeAt + Dwell(c))
  BY DEF Escalation, Check, Rule, Failure
<1>5. ASSUME f \in Rule("ESCALATION_COOLDOWN", c,
              \/ rungIndexOf(c.action) <= c.rungReached
              \/ c.lastRungChangeAt = None
              \/ c.at - c.lastRungChangeAt >= Dwell(c),
              c.lastRungChangeAt + Dwell(c))
      PROVE  Ahead(c, f.until)
  BY <1>1, <1>3, <1>5 DEF Rule, Failure
<1> QED BY <1>1, <1>2, <1>4, <1>5

LEMMA MandateAhead ==
  ASSUME NEW c, Dated(c), NEW f \in Mandate(c)
  PROVE  Ahead(c, f.until)
<1> DEFINE sent == c.preDebitNoticeSentAt
           from == IF sent = None THEN c.at ELSE sent
<1>1. Ahead(c, None)
  BY DEF Ahead
<1>2. ASSUME ~(sent # None /\ c.at - sent >= NoticeSpan)
      PROVE  Ahead(c, from + NoticeSpan)
  <2>1. NoticeSpan \in Int /\ NoticeSpan > 0
    BY LimitsAssumption DEF NoticeSpan, HOUR
  <2>2. from + NoticeSpan \in Instants(c)
    BY DEF Instants
  <2> QED BY <1>2, <2>1, <2>2 DEF Dated, Ahead
<1>3. f.until = None \/ (~(sent # None /\ c.at - sent >= NoticeSpan) /\ f.until = from + NoticeSpan)
  BY DEF Mandate, Check, Rule, Failure
<1> QED BY <1>1, <1>2, <1>3

LEMMA AuthorisedAhead ==
  ASSUME NEW c, Dated(c), NEW f \in Authorised(c)
  PROVE  Ahead(c, f.until)
<1>1. Ahead(c, None)
  BY DEF Ahead
<1>2. Ahead(c, c.at + HOUR)
  BY DEF Dated, Ahead, Instants, HOUR
<1>3. f.until = None \/ f.until = c.at + HOUR
  BY DEF Authorised, Check, Rule, Failure
<1> QED BY <1>1, <1>2, <1>3

\* Of a finite set of instants there is a latest one, like all of them ahead.
LEMMA FiniteHasLatest ==
  ASSUME NEW S \in SUBSET Int, S # {}, IsFiniteSet(S)
  PROVE  Latest(S) \in S /\ \A s \in S : s <= Latest(S)
<1> DEFINE T == {0 - s : s \in S}
<1>1. T \in SUBSET Int /\ T # {} /\ IsFiniteSet(T)
  <2>1. IsFiniteSet(T)
    <3> DEFINE f == [s \in S |-> 0 - s]
    <3>1. f \in Surjection(S, T)
      BY DEF Surjection
    <3> HIDE DEF f
    <3> QED BY <3>1, FS_Surjection
  <2>2. \A s \in S : 0 - s \in Int
    OBVIOUS
  <2>3. T # {} /\ \A t \in T : t \in Int
    BY <2>2
  <2> HIDE DEF T
  <2> QED BY <2>1, <2>3
<1>2. PICK b \in T : \A t \in T : b <= t
  <2> HIDE DEF T
  <2> QED BY <1>1, FiniteHasLeast
<1>3. 0 - b \in Int /\ \A s \in S : s <= 0 - b
  <2>1. \A s \in S : 0 - s \in T
    OBVIOUS
  <2> HIDE DEF T
  <2> QED BY <1>1, <1>2, <2>1
<1> QED BY <1>3, LatestIs

\* The policy gate defers to an instant ahead, if to any.
LEMMA EvaluatesAhead ==
  ASSUME NEW c, Dated(c)
  PROVE  LET until == evaluate(c).deferUntil
         IN  until = None \/ (until \in Int /\ c.at < until)
<1> DEFINE untils == {f.until : f \in Failures(c)} \ {None}
<1>1. \A f \in Failures(c) : Ahead(c, f.until)
  BY TimingAhead, CheckAhead, FrequencyAhead, EscalationAhead, MandateAhead, AuthorisedAhead
     DEF Failures
<1>2. \A t \in untils : t \in Int /\ c.at < t /\ t \in Instants(c)
  BY <1>1 DEF Ahead
<1>3. evaluate(c).deferUntil \in {None, Latest(untils)}
  BY DEF evaluate, DecisionOn
<1> HIDE DEF untils
<1>4. CASE untils = {}
  BY <1>3, <1>4 DEF Latest
<1>5. CASE untils # {}
  <2>1. untils \in SUBSET Int /\ untils \in SUBSET Instants(c)
    BY <1>2
  <2>2. IsFiniteSet(untils)
    BY <2>1, InstantsAreFinite, FS_Subset
  <2>3. Latest(untils) \in untils
    BY <1>5, <2>1, <2>2, FiniteHasLatest
  <2> QED BY <1>2, <1>3, <2>3
<1> QED BY <1>4, <1>5

-----------------------------------------------------------------------------
(* What is loaded has its dates *)

LEMMA OpeningIs ==
  ASSUME course \in Courses
  PROVE  Opened \in course.ticks /\ Opened \in Int
<1> DEFINE ticks == course.ticks
<1>1. ticks # {} /\ IsFiniteSet(ticks) /\ ticks \in SUBSET Int
  BY CourseAssumption
<1> HIDE DEF ticks
<1>2. PICK b \in ticks : \A t \in ticks : b <= t
  BY <1>1, FiniteHasLeast
<1>3. Earliest(ticks) \in ticks
  BY <1>1, <1>2, EarliestIs
<1> QED BY <1>1, <1>3 DEF Opened, ticks

LEMMA LoadIsDated ==
  ASSUME Timeline, NEW action \in ActionType, NEW channel, NEW content
  PROVE  LET c == policyContext(load, action, channel, content) IN Dated(c) /\ c.at = now
<1> DEFINE c == policyContext(load, action, channel, content)
<1>1. /\ c.at = now /\ c.caseAge = now - Opened /\ c.action = action
      /\ c.lastTouchAt = LastTouch /\ c.preDebitNoticeSentAt = LastNotice
      /\ c.rungReached = RungReached /\ c.lastRungChangeAt = LastRungChange
  BY DEF policyContext, load, LastTouch, LastNotice
<1> HIDE DEF c
<1>2. now \in Int /\ Opened \in Int
  BY OpeningIs DEF Timeline, Clocked
<1>3. LastTouch \in Int \cup {None} /\ LastNotice \in Int \cup {None}
  BY LastTouchIs, LastNoticeIs
<1>4. /\ RungReached \in 0..4
      /\ RungReached = 0 => LastRungChange = None
      /\ RungReached # 0 => LastRungChange \in Int
  BY RungReachedIs, LastRungChangeIs DEF LastRungChange
<1>5. Dated(c)
  BY <1>1, <1>2, <1>3, <1>4 DEF Dated
<1> QED BY <1>1, <1>5 DEF c

\* A promise that is still active after the tick has judged the promises is
\* for an instant to come, or for this one.
PromisesAhead ==
  pc \in {"decide", "drain"} => \A p \in Active : p.promisedDate >= now

LEMMA ActivePromiseIs ==
  ASSUME Timeline, activePromise(promises) # None
  PROVE  activePromise(promises) \in Active
<1> DEFINE instants == {p.createdAt : p \in Active}
           Newest(p) == \A q \in Active : q.createdAt <= p.createdAt
<1>1. \A p \in Active : p.createdAt \in Int /\ p.createdAt <= now
  BY DEF Active, Timeline, PromisesPast, Promise
<1>2. Active # {} /\ activePromise(promises) = CHOOSE p \in Active : Newest(p)
  BY DEF activePromise, Active
<1>3. \E p \in Active : Newest(p)
  <2>1. instants \in SUBSET Int /\ instants # {} /\ now \in Int /\ \A t \in instants : t <= now
    BY <1>1, <1>2 DEF Timeline, Clocked
  <2>2. Latest(instants) \in instants /\ \A t \in instants : t <= Latest(instants)
    <3> HIDE DEF instants
    <3> QED BY <2>1, LatestIs
  <2> QED BY <2>2
<1> HIDE DEF Newest
<1> QED BY <1>2, <1>3

\* The stop gate defers to an instant ahead.
LEMMA StopDefersAhead ==
  ASSUME Timeline, PromisesAhead, pc \in {"decide", "drain"}, NEW action, NEW ev
  PROVE  LET until == evaluateStopGate(stopContext(load, action, ev)).deferUntil
         IN  until = None \/ (until \in Int /\ now < until)
<1> DEFINE s == stopContext(load, action, ev)
           instants == DeferInstants(s)
<1>1. now \in Int
  BY DEF Timeline, Clocked
<1>2. /\ s.at = now
      /\ s.promiseDueAt = IF activePromise(promises) = None THEN None
                          ELSE activePromise(promises).promisedDate
  BY DEF stopContext, load
<1>3. s.promiseDueAt # None => s.promiseDueAt \in Int /\ now <= s.promiseDueAt
  BY <1>1, <1>2, ActivePromiseIs DEF PromisesAhead, Active, Timeline, PromisesPast, Promise
<1> HIDE DEF s
<1> DEFINE due == s.promiseDueAt + Authority.grace_hours * HOUR
<1>4. s.promiseDueAt # None => due \in Int /\ now < due
  <2>1. Authority.grace_hours * HOUR \in Int /\ Authority.grace_hours * HOUR > 0
    BY LimitsAssumption DEF HOUR
  <2> QED BY <1>1, <1>3, <2>1
<1>5. now + HOUR \in Int /\ now < now + HOUR
  BY <1>1 DEF HOUR
<1>6. instants \subseteq {now + HOUR, due} /\ \A t \in instants : t \in Int /\ now < t
  <2> HIDE DEF due
  <2>1. instants \subseteq IF s.promiseDueAt = None THEN {now + HOUR} ELSE {now + HOUR, due}
    BY <1>2 DEF DeferInstants, due
  <2> QED BY <1>4, <1>5, <2>1
<1>7. IsFiniteSet(instants)
  <2> HIDE DEF instants, due
  <2>1. \A t, u : IsFiniteSet({t, u})
    <3> TAKE t, u
    <3>1. {t, u} = {t, u, u, u, u, u} OBVIOUS
    <3> QED BY <3>1, SixAreFinite
  <2> QED BY <1>6, <2>1, FS_Subset
<1>8. evaluateStopGate(s).deferUntil \in {None, Latest(instants)}
  BY DEF evaluateStopGate
<1>9. instants = {} => Latest(instants) = None
  BY DEF Latest
<1> HIDE DEF instants
<1>10. instants # {} => Latest(instants) \in instants
  BY <1>6, <1>7, FiniteHasLatest
<1> QED BY <1>6, <1>8, <1>9, <1>10 DEF s

LEMMA VerdictDefersAhead ==
  ASSUME Timeline, PromisesAhead, pc = "drain", NEW a, a.type \in ActionType
  PROVE  \/ Verdict(a).deferUntil = None
         \/ Verdict(a).deferUntil \in Int /\ now < Verdict(a).deferUntil
<1>1. \/ Verdict(a) = evaluateStopGate(stopContext(load, a.type, a.bestRemainingEv))
      \/ Verdict(a) = evaluate(PolicyContextOf(a))
  BY DEF Verdict, PolicyContextOf
<1>2. CASE Verdict(a) = evaluateStopGate(stopContext(load, a.type, a.bestRemainingEv))
  BY <1>2, StopDefersAhead
<1>3. CASE Verdict(a) = evaluate(PolicyContextOf(a))
  <2>1. Dated(PolicyContextOf(a)) /\ PolicyContextOf(a).at = now
    BY LoadIsDated DEF PolicyContextOf
  <2> QED BY <1>3, <2>1, EvaluatesAhead
<1> QED BY <1>1, <1>2, <1>3

LEMMA PromisesStayAhead ==
  ASSUME Timeline, PromisesAhead, [Next]_vars
  PROVE  PromisesAhead'
<1>1. CASE ExpirePromises
  <2> SUFFICES ASSUME NEW q \in Active' PROVE q.promisedDate >= now'
    BY DEF PromisesAhead
  <2>1. PICK p \in promises :
          q = IF p.status = "ACTIVE" /\ p.promisedDate < now
              THEN [p EXCEPT !.status = IF Kept THEN "KEPT" ELSE "BROKEN"] ELSE p
    BY <1>1 DEF ExpirePromises, Active
  <2>2. p \in Promise /\ now \in Int /\ now' = now /\ q.status = "ACTIVE"
    BY <1>1 DEF Timeline, PromisesPast, Clocked, ExpirePromises, Active
  <2>3. ~(p.status = "ACTIVE" /\ p.promisedDate < now)
    BY <2>1, <2>2 DEF Promise
  <2>4. q = p
    BY <2>1, <2>3
  <2> QED BY <2>2, <2>3, <2>4 DEF Promise
<1>2. CASE ~ExpirePromises /\ promises' = promises
  <2>1. CASE pc' \in {"decide", "drain"}
    <3>1. now' = now /\ pc \in {"decide", "drain"}
      BY <1>2, <2>1 DEF Next, vars, ReadReply, ActOnReply, Decide, NotDue, Execute, Turn,
             StopAtExecution, Hold, Deny, Dropped, CompleteSilently, NoSender, Send, SendAndHear,
             SendAndOptOut, Touched, FailToExecute, EndTick, Crash, OtherContact, World, Fail,
             Pay, Refund, Approve, CohortChange, Pass
    <3> QED BY <1>2, <3>1 DEF PromisesAhead, Active
  <2> QED BY <2>1 DEF PromisesAhead
<1>3. CASE pc' = "inbox"
  BY <1>3 DEF PromisesAhead
<1> QED BY <1>1, <1>2, <1>3, WhoPromises

-----------------------------------------------------------------------------
(* The rows of the outbox *)

RowOK(a) ==
  /\ a.status \in {"SCHEDULED", "SENT"} /\ a.channel \in Channel \cup {None}
  /\ a.attempts \in Nat /\ a.attempts < MAX_ATTEMPTS /\ a.scheduledFor \in Int

RowsOK == \A a \in actions : RowOK(a)

\* What is done with a row is done: it is not there any more, is sent, or is
\* put off to an instant ahead.
Done(b) == RowOK(b) /\ (b.status = "SENT" \/ b.scheduledFor > now)

LEMMA PutOffIsDone ==
  ASSUME now \in Int, NEW a, ActionFields(a), RowOK(a), NEW t \in Int, now < t, NEW b,
         \/ b = [a EXCEPT !.scheduledFor = t]
         \/ /\ ~GivenUp(a.attempts + 1)
            /\ b = [a EXCEPT !.attempts = @ + 1, !.scheduledFor = t]
  PROVE  Done(b)
<1>1. CASE b = [a EXCEPT !.scheduledFor = t]
  BY <1>1 DEF ActionFields, RowOK, Done
<1>2. CASE /\ ~GivenUp(a.attempts + 1)
           /\ b = [a EXCEPT !.attempts = @ + 1, !.scheduledFor = t]
  <2>1. /\ b.status = a.status /\ b.channel = a.channel /\ b.attempts = a.attempts + 1
        /\ b.scheduledFor = t
    BY <1>2 DEF ActionFields
  <2>2. a.attempts + 1 < MAX_ATTEMPTS
    BY <1>2, CourseAssumption DEF GivenUp, RowOK
  <2> QED BY <2>1, <2>2 DEF RowOK, Done
<1> QED BY <1>1, <1>2

LEMMA MarkedIsDone ==
  ASSUME NEW a, ActionFields(a), RowOK(a)
  PROVE  Done(MarkedSent(a))
<1>1. /\ MarkedSent(a).status = "SENT" /\ MarkedSent(a).channel = a.channel
      /\ MarkedSent(a).attempts = a.attempts /\ MarkedSent(a).scheduledFor = a.scheduledFor
  BY DEF ActionFields, MarkedSent
<1> QED BY <1>1 DEF RowOK, Done

\* A row's turn in the drain.
LEMMA TurnsAreDone ==
  ASSUME Timeline, PromisesAhead, RowsOK, NEW a \in todo, Execute(a)
  PROVE  /\ InTheDrain /\ todo' = todo \ {a}
         /\ \A b \in actions' : (b \in actions /\ b # a) \/ Done(b)
<1>1. PICK g \in {Verdict(a)} :
        \/ StopAtExecution(a, g) \/ Hold(a, g) \/ Deny(a, g)
        \/ CompleteSilently(a, g) \/ NoSender(a, g)
        \/ Send(a, g) \/ SendAndHear(a, g) \/ SendAndOptOut(a, g) \/ FailToExecute(a, g)
  BY DEF Execute
<1>2. /\ a \in actions /\ a.status = "SCHEDULED" /\ ActionFields(a) /\ a.type \in ActionType
      /\ InTheDrain /\ RowOK(a) /\ now \in Int
  BY Executions, TurnIsScheduled DEF Timeline, Clocked, RowsOK
<1>3. todo' = todo \ {a}
  BY <1>1 DEF StopAtExecution, Hold, Deny, Dropped, CompleteSilently, NoSender, Send, SendAndHear,
              SendAndOptOut, Touched, FailToExecute
<1>4. CASE StopAtExecution(a, g)
  BY <1>2, <1>3, <1>4 DEF StopAtExecution, Pending
<1>5. CASE Hold(a, g)
  <2>1. PICK t \in Int : now < t /\ actions' = (actions \ {a}) \cup {[a EXCEPT !.scheduledFor = t]}
    <3>1. g.deferUntil = None \/ (g.deferUntil \in Int /\ now < g.deferUntil)
      BY <1>2, VerdictDefersAhead DEF InTheDrain
    <3>2. now + HOUR \in Int /\ now < now + HOUR
      BY <1>2 DEF HOUR
    <3> QED BY <1>5, <3>1, <3>2, Zenon DEF Hold
  <2>2. Done([a EXCEPT !.scheduledFor = t])
    BY <1>2, <2>1, PutOffIsDone
  <2> QED BY <1>2, <1>3, <2>1, <2>2
<1>6. CASE Deny(a, g) \/ NoSender(a, g)
  BY <1>2, <1>3, <1>6 DEF Deny, NoSender, Dropped
<1>7. CASE CompleteSilently(a, g) \/ Send(a, g) \/ SendAndHear(a, g) \/ SendAndOptOut(a, g)
  <2>1. Done(MarkedSent(a))
    BY <1>2, MarkedIsDone
  <2>2. Executed(a)
    BY <1>7 DEF CompleteSilently, Send, SendAndHear, SendAndOptOut, Executed
  <2>3. a \in Pending
    BY <1>2 DEF Pending
  <2> QED BY <1>2, <1>3, <2>1, <2>2, <2>3 DEF Executed
<1>8. CASE FailToExecute(a, g)
  <2>1. GivenUp(a.attempts + 1) => actions' = actions \ {a}
    BY <1>8 DEF FailToExecute
  <2> DEFINE b == [a EXCEPT !.attempts = @ + 1, !.scheduledFor = now + 1]
  <2>2. ~GivenUp(a.attempts + 1) => actions' = (actions \ {a}) \cup {b}
    BY <1>8 DEF FailToExecute
  <2>3. ~GivenUp(a.attempts + 1) => Done(b)
    <3>1. now + 1 \in Int /\ now < now + 1
      BY <1>2
    <3> DEFINE t == now + 1
    <3> HIDE DEF t
    <3>2. ASSUME ~GivenUp(a.attempts + 1), NEW d,
                 d = [a EXCEPT !.attempts = @ + 1, !.scheduledFor = t]
          PROVE  Done(d)
      BY <1>2, <3>1, <3>2, PutOffIsDone DEF t
    <3> QED BY <3>2 DEF t
  <2> HIDE DEF b
  <2> QED BY <1>2, <1>3, <2>1, <2>2, <2>3
<1> QED BY <1>1, <1>4, <1>5, <1>6, <1>7, <1>8

LEMMA RowsStayOK ==
  ASSUME Timeline, PromisesAhead, RowsOK, [Next]_vars
  PROVE  RowsOK'
<1>1. CASE \E a \in todo : Execute(a)
  BY <1>1, TurnsAreDone DEF RowsOK, RowOK, Done
<1>2. CASE actions' = actions
  BY <1>2 DEF RowsOK, RowOK
<1>3. ASSUME NEW o \in decide(load), actions' = actions \cup Planned(load, o)
      PROVE  RowsOK'
  <2>1. Clocked /\ now \in Int
    BY DEF Timeline, Clocked
  <2>2. \A b \in Planned(load, o) : RowOK(b)
    BY <2>1, PlannedAre, CourseAssumption DEF RowOK
  <2> QED BY <1>3, <2>2 DEF RowsOK, RowOK
<1> QED BY <1>1, <1>2, <1>3, OtherSteps

LEMMA DeferredStep ==
  ASSUME Timeline, PromisesAhead, RowsOK, DeferredAhead, [Next]_vars
  PROVE  DeferredAhead'
<1>1. CASE \E a \in todo : Execute(a)
  <2>1. PICK a \in todo : Execute(a)
    BY <1>1
  <2>2. /\ InTheDrain /\ todo' = todo \ {a}
        /\ \A b \in actions' : (b \in actions /\ b # a) \/ Done(b)
    BY <2>1, TurnsAreDone
  <2>3. pc = "drain"
    BY <2>2 DEF InTheDrain
  <2> QED BY <2>2, <2>3 DEF DeferredAhead, InTheDrain, Pending, Done
<1>2. CASE Decide \/ NotDue
  <2>1. PICK as : EnterDrain(as)
    BY <1>2 DEF Decide, Withheld, Admitted, TurnedAway, NotDue
  <2>2. now' = now /\ now \in Int
    BY <1>2 DEF Decide, NotDue, Timeline, Clocked
  <2>3. \A a \in actions' : RowOK(a)
    BY RowsStayOK DEF RowsOK, RowOK
  <2>4. SUFFICES ASSUME NEW a \in actions', a.status = "SCHEDULED", a \notin DueRows(as)
                 PROVE  a.scheduledFor > now
    BY <2>1, <2>2 DEF EnterDrain, DeferredAhead, Pending
  <2>5. a.scheduledFor \in Int /\ a \in as
    BY <2>1, <2>3, <2>4 DEF EnterDrain, RowOK
  <2>6. ~(a.scheduledFor <= now)
    BY <2>4, <2>5 DEF DueRows
  <2> QED BY <2>2, <2>5, <2>6
<1>3. CASE pc' # "drain"
  BY <1>3 DEF DeferredAhead
<1>4. CASE UNCHANGED <<pc, now, todo, actions>>
  BY <1>4 DEF DeferredAhead, Pending
<1>5. CASE ~(\E a \in todo : Execute(a)) /\ ~Decide /\ ~NotDue
  <2>1. pc' # "drain" \/ UNCHANGED <<pc, now, todo, actions>>
    BY <1>5 DEF Next, vars, ReadReply, ActOnReply, ExpirePromises, EndTick, Crash, OtherContact, Fail,
                World, Pay, Refund, Approve, CohortChange, Pass
  <2> QED BY <1>3, <1>4, <2>1
<1> QED BY <1>1, <1>2, <1>5

\* Whatever a row of the outbox is put off to, by a gate or after a failure, is
\* ahead: when a drain is over nothing that is due is left, and no drain takes
\* the same row twice.
THEOREM DeferralsLieAhead == Spec => []DeferredAhead
<1>1. Init => PromisesAhead /\ RowsOK /\ DeferredAhead
  BY DEF Init, PromisesAhead, RowsOK, DeferredAhead
<1>2. /\ Timeline /\ PromisesAhead /\ RowsOK /\ DeferredAhead /\ [Next]_vars
      => (PromisesAhead /\ RowsOK /\ DeferredAhead)'
  BY PromisesStayAhead, RowsStayOK, DeferredStep
<1> QED BY <1>1, <1>2, Chronology, PTL DEF Spec

-----------------------------------------------------------------------------
(* The date of the next decision *)

LEMMA ScoredAhead ==
  ASSUME Timeline, NEW c \in Scored(load)
  PROVE  LET until == c.decision.deferUntil
         IN  until = None \/ (until \in Int /\ now < until)
<1>1. PICK spec \in specsFor(load) \cup NoticeSpecs : c = evaluateSpec(load, spec)
  BY DEF Scored, WithNotice
<1>2. spec.action \in ActionType
  <2>1. load.failureClass \in FailureClass
    BY DEF load, Timeline, Clocked
  <2> QED BY <2>1, SpecTypes DEF Typed
<1> DEFINE context == policyContext(load, spec.action, spec.channel, draftFor(load, spec.action))
<1>3. Dated(context) /\ context.at = now
  BY <1>2, LoadIsDated
<1>4. c.decision = evaluate(context)
  BY <1>1 DEF evaluateSpec
<1> HIDE DEF context
<1> QED BY <1>3, <1>4, EvaluatesAhead

LEMMA LatestOfThree ==
  ASSUME NEW x \in Int \cup {None}, NEW y \in Int \cup {None}, NEW z \in Int \cup {None}
  PROVE  Latest({x, y, z} \ {None}) \in Int \cup {None}
<1> DEFINE S == {x, y, z} \ {None}
<1>1. S \in SUBSET Int
  OBVIOUS
<1>2. IsFiniteSet(S)
  <2>1. {x, y, z} = {x, y, z, z, z, z}
    OBVIOUS
  <2>2. IsFiniteSet({x, y, z}) /\ S \subseteq {x, y, z}
    BY <2>1, SixAreFinite
  <2> HIDE DEF S
  <2> QED BY <2>2, FS_Subset
<1> HIDE DEF S
<1>3. Latest({}) = None
  BY DEF Latest
<1>4. S # {} => Latest(S) \in Int
  BY <1>1, <1>2, FiniteHasLatest
<1>5. Latest(S) \in Int \cup {None}
  BY <1>3, <1>4
<1> QED BY <1>5 DEF S

LEMMA OutcomesAreDated ==
  ASSUME Timeline, PromisesAhead, pc = "decide", NEW o \in decide(load)
  PROVE  o.deferUntil \in Int \cup {None}
<1> DEFINE scored == Scored(load)
           untils == {c.decision.deferUntil : c \in scored} \ {None}
           earliestDefer == Earliest(untils)
<1>1. now \in Int /\ load.at = now
  BY DEF load, Timeline, Clocked
<1>2. PICK choice \in Choices(load, scored) : o = Outcome(load, scored, choice)
  BY DEF decide
<1> DEFINE stop == evaluateStopGate(stopContext(load, choice.spec.action, choice.ev))
           wakeAt == IF choice.spec = WAIT THEN choice.worthWaiting ELSE None
<1>3. stop.deferUntil \in Int \cup {None}
  BY StopDefersAhead
<1>4. wakeAt \in Int \cup {None}
  BY ChoicesAre, ScoredAhead
<1>5. earliestDefer \in Int \cup {None}
  <2>1. untils \in SUBSET Int /\ \A t \in untils : now <= t
    BY <1>1, ScoredAhead
  <2> HIDE DEF untils
  <2>2. untils = {} => Earliest(untils) = None
    BY DEF Earliest
  <2>3. untils # {} => Earliest(untils) \in untils
    BY <1>1, <2>1, EarliestIs
  <2> QED BY <2>1, <2>2, <2>3
<1>6. o.deferUntil \in {Latest({stop.deferUntil, load.at, earliestDefer} \ {None}),
                        wakeAt, earliestDefer}
  <2>1. o.deferUntil = IF stop.verdict = "DEFER"
                       THEN Latest({stop.deferUntil, load.at, earliestDefer} \ {None})
                       ELSE IF ChosenAdmissible(scored, choice.spec) THEN wakeAt
                       ELSE earliestDefer
    BY <1>2, Zenon DEF Outcome
  <2> HIDE DEF stop, earliestDefer, wakeAt
  <2> QED BY <2>1
<1> HIDE DEF stop, earliestDefer, wakeAt
<1>7. Latest({stop.deferUntil, load.at, earliestDefer} \ {None}) \in Int \cup {None}
  BY <1>1, <1>3, <1>5, LatestOfThree
<1> QED BY <1>4, <1>5, <1>6, <1>7

LEMMA NextDecisionIs ==
  ASSUME Timeline, PromisesAhead, pc = "decide", NEW o \in decide(load)
  PROVE  nextDecisionFor(load, o) \in Int
<1>1. now \in Int /\ load.at = now
  BY DEF load, Timeline, Clocked
<1>2. {now + Authority.after_execute_hours * HOUR, now + Authority.after_wait_hours * HOUR}
        \subseteq Int
  BY <1>1, LimitsAssumption DEF HOUR
<1>3. o.deferUntil # None => Latest({o.deferUntil, now + HOUR}) \in Int
  <2>1. SUFFICES ASSUME o.deferUntil # None
                 PROVE  Latest({o.deferUntil, now + HOUR}) \in Int
    OBVIOUS
  <2>2. o.deferUntil \in Int /\ now + HOUR \in Int
    BY <1>1, <2>1, OutcomesAreDated DEF HOUR
  <2> DEFINE S == {o.deferUntil, now + HOUR}
  <2>3. S \in SUBSET Int /\ S # {}
    BY <2>2
  <2>4. IsFiniteSet(S)
    <3> DEFINE x == o.deferUntil
               y == now + HOUR
    <3>1. S = {x, y, y, y, y, y}
      OBVIOUS
    <3> HIDE DEF S, x, y
    <3> QED BY <3>1, SixAreFinite
  <2> HIDE DEF S
  <2>5. Latest(S) \in S
    BY <2>3, <2>4, FiniteHasLatest
  <2> QED BY <2>3, <2>5 DEF S
<1> QED BY <1>1, <1>2, <1>3 DEF nextDecisionFor

-----------------------------------------------------------------------------
(* Types *)

RowTyped ==
  /\ row.state \in CaseState /\ row.nextDecisionAt \in Int
  /\ {row.attemptCount, row.touchCount, row.recoveredPaise, paid, refunded} \subseteq Nat
  /\ row.humanApproved \in BOOLEAN

Disputed == row.disputeOpenedAt = None \/ row.disputeOpenedAt <= now

\* A case is not promised for a day before the promise.
PromisesFollow == \A p \in promises : p.promisedDate >= p.createdAt

ContactsTyped == \A c \in contacts : c.channel \in Channel

RepliesTyped == \A r \in replies : r.intent \in Intent

Switches == {optedOut, paused} \subseteq BOOLEAN /\ events \in 0..course.events

LEMMA DisputedStays ==
  ASSUME Clocked, Disputed, [Next]_vars
  PROVE  Disputed'
<1>1. now \in Int /\ now' \in Int /\ now <= now'
  BY ClockStep DEF TimeGoesOn, Clocked
<1>2. \/ row'.disputeOpenedAt = row.disputeOpenedAt
      \/ row'.disputeOpenedAt = now
  BY WhoDisputes DEF Clocked
<1> QED BY <1>1, <1>2 DEF Clocked, Disputed

LEMMA PromisesStayBehind ==
  ASSUME Timeline, PromisesFollow, [Next]_vars
  PROVE  PromisesFollow'
<1> USE DEF Timeline
<1>1. CASE promises' = promises
  BY <1>1 DEF PromisesFollow
<1>2. CASE ExpirePromises
  <2> SUFFICES ASSUME NEW q \in promises' PROVE q.promisedDate >= q.createdAt
    BY DEF PromisesFollow
  <2>1. PICK p \in promises :
          q = IF p.status = "ACTIVE" /\ p.promisedDate < now
              THEN [p EXCEPT !.status = IF Kept THEN "KEPT" ELSE "BROKEN"] ELSE p
    BY <1>2 DEF ExpirePromises
  <2>2. PICK status : q = [p EXCEPT !.status = status] \/ q = p
    BY <2>1
  <2>3. q.promisedDate = p.promisedDate /\ q.createdAt = p.createdAt
    BY <2>2 DEF PromisesPast, Promise
  <2> QED BY <2>3 DEF PromisesFollow
<1>3. ASSUME NEW r \in todo, pc = "act", r.intent = "PROMISE_TO_PAY",
             promises' = promises \cup {[createdAt |-> now, promisedDate |-> now + r.days * DAY,
                                         status |-> "ACTIVE"]}
      PROVE  PromisesFollow'
  <2>1. now \in Int /\ now + r.days * DAY >= now
    BY <1>3 DEF Selected, Clocked, DAY
  <2> QED BY <1>3, <2>1 DEF PromisesFollow
<1> QED BY <1>1, <1>2, <1>3, WhoPromises

LEMMA ContactsStayTyped ==
  ASSUME Timeline, ContactsTyped, [Next]_vars
  PROVE  ContactsTyped'
<1>1. CASE contacts' = contacts
  BY <1>1 DEF ContactsTyped
<1>2. ASSUME NEW a \in todo, Sendable(a, Verdict(a)), contacts' = contacts \cup {Contact(a)}
      PROVE  ContactsTyped'
  BY <1>2, CourseAssumption DEF Sendable, Contact, ContactsTyped
<1>3. ASSUME NEW channel \in Channel, OtherContact(channel)
      PROVE  ContactsTyped'
  BY <1>3 DEF OtherContact, ContactsTyped
<1> QED BY <1>1, <1>2, <1>3, Executions, OtherSteps

LEMMA RepliesStayTyped ==
  ASSUME Timeline, RepliesTyped, [Next]_vars
  PROVE  RepliesTyped'
<1>1. CASE replies' = replies
  BY <1>1 DEF RepliesTyped
<1>2. ASSUME NEW r \in replies, ReadReply(r)
      PROVE  RepliesTyped'
  <2> DEFINE q == [r EXCEPT !.readAt = now]
  <2>1. q.intent = r.intent
    BY DEF Timeline, RepliesKnown, ReplyFields
  <2>2. replies' = (replies \ {r}) \cup {q}
    BY <1>2 DEF ReadReply
  <2> HIDE DEF q
  <2> QED BY <2>1, <2>2 DEF RepliesTyped
<1>3. ASSUME NEW q \in Replies,
             replies' = replies \cup {[intent |-> q.intent, days |-> q.days, sentAt |-> now,
                                       readAt |-> None]}
      PROVE  RepliesTyped'
  BY <1>3, CourseAssumption DEF RepliesTyped
<1> QED BY <1>1, <1>2, <1>3, WhoHears

LEMMA SwitchesStayTyped ==
  ASSUME Clocked, Switches, [Next]_vars
  PROVE  Switches'
<1>1. course.events \in Nat /\ course' = course
  BY ClockStep, CourseAssumption DEF Clocked
<1>2. events' \in {events, events + 1} /\ (events' = events + 1 => events < course.events)
  <2>1. CASE \E a \in todo : Execute(a)
    BY <2>1 DEF Execute, StopAtExecution, Hold, Deny, Dropped, CompleteSilently, NoSender, Send,
                SendAndHear, SendAndOptOut, FailToExecute, Event, Switches
  <2>2. CASE Decide
    BY <2>2 DEF Decide, Withheld, Admitted, TurnedAway, Event, Switches
  <2>3. CASE ~Decide /\ ~\E a \in todo : Execute(a)
    <3>1. events' = events \/ Event
      BY <2>3 DEF Next, vars, ReadReply, ActOnReply, ExpirePromises, NotDue, EndTick, Crash,
                  OtherContact, World, Fail, Pay, Refund, Approve, CohortChange, Pass
    <3> QED BY <3>1 DEF Event, Switches
  <2> QED BY <2>1, <2>2, <2>3
<1>3. optedOut' \in {optedOut, TRUE} /\ paused' \in {paused, ~paused}
  <2>1. CASE \E a \in todo : Execute(a)
    BY <2>1 DEF Execute, StopAtExecution, Hold, Deny, Dropped, CompleteSilently, NoSender, Send,
                SendAndHear, SendAndOptOut, Touched, FailToExecute
  <2>2. CASE ~\E a \in todo : Execute(a)
    BY <2>2 DEF Next, vars, ReadReply, ActOnReply, ExpirePromises, Decide, NotDue, EndTick, Crash,
                OtherContact, Fail, Pay, Refund, Approve, CohortChange, Pass
  <2> QED BY <2>1, <2>2
<1>4. events' \in 0..course'.events
  BY <1>1, <1>2 DEF Switches
<1>5. {optedOut', paused'} \subseteq BOOLEAN
  BY <1>3, Zenon DEF Switches
<1> QED BY <1>4, <1>5 DEF Switches

LEMMA RowStaysTyped ==
  ASSUME Timeline, PromisesAhead, RowTyped, [Next]_vars
  PROVE  RowTyped'
<1>1. RowFields /\ RowFields' /\ now \in Int /\ now' \in Int
  BY WhoDisputes, ClockStep DEF Timeline, Clocked
<1>2. CASE UNCHANGED <<row, paid, refunded>>
  BY <1>2 DEF RowTyped
<1>3. CASE ActOnReply
  <2>1. row' = row \/ row' = [row EXCEPT !.state = "AWAITING_HUMAN"]
        \/ \E t : row' = [row EXCEPT !.disputeOpenedAt = t]
    BY <1>3 DEF ActOnReply, RecordPromise, OpenDispute, EscalateReply, LabelOnly
  <2>2. UNCHANGED <<paid, refunded>>
    BY <1>3 DEF ActOnReply
  <2> QED BY <1>1, <2>1, <2>2 DEF RowTyped, RowFields, CaseState
<1>4. CASE Decide
  <2>1. PICK next \in Int : row' = Written(next)
    <3>1. pc = "decide" /\ now + HOUR \in Int
      BY <1>1, <1>4 DEF Decide, HOUR
    <3>2. \E next : row' = Written(next) /\
            (next = now + HOUR \/ \E o \in decide(load) : next = nextDecisionFor(load, o))
      BY <1>4 DEF Decide, Withheld, Admitted, TurnedAway
    <3> QED BY <3>1, <3>2, NextDecisionIs
  <2>2. UNCHANGED <<paid, refunded>>
    BY <1>4 DEF Decide
  <2>3. /\ row'.nextDecisionAt = next /\ row'.state \in {row.state, "IN_PROGRESS"}
        /\ row'.attemptCount = row.attemptCount /\ row'.touchCount = row.touchCount
        /\ row'.recoveredPaise = row.recoveredPaise /\ row'.humanApproved = row.humanApproved
    BY <1>1, <2>1 DEF Written, RowFields
  <2> QED BY <2>2, <2>3 DEF RowTyped, CaseState
<1>5. CASE \E a \in todo : Execute(a)
  <2>1. UNCHANGED <<paid, refunded>>
    BY <1>5 DEF Execute, StopAtExecution, Hold, Deny, Dropped, CompleteSilently, NoSender, Send,
                SendAndHear, SendAndOptOut, Touched, FailToExecute
  <2>2. \/ row' = row \/ row' = [row EXCEPT !.touchCount = @ + 1]
        \/ \E state \in {"RECOVERED", "STOPPED"} : row' = [row EXCEPT !.state = state]
    BY <1>5 DEF Execute, StopAtExecution, Hold, Deny, Dropped, CompleteSilently, NoSender, Send,
                SendAndHear, SendAndOptOut, Touched, FailToExecute
  <2> QED BY <1>1, <2>1, <2>2 DEF RowTyped, RowFields, CaseState
<1>6. ASSUME NEW class \in Classes, Fail(class) PROVE RowTyped'
  <2>1. row' = [row EXCEPT !.attemptCount = @ + Counts(class)] /\ UNCHANGED <<paid, refunded>>
    BY <1>6 DEF Fail
  <2>2. Counts(class) \in Nat
    BY DEF Counts
  <2> QED BY <1>1, <2>1, <2>2 DEF RowTyped, RowFields
<1>7. ASSUME NEW amount \in Amount, Pay(amount) \/ Refund(amount) PROVE RowTyped'
  <2>1. amount \in Nat /\ BILLED \in Nat
    BY CourseAssumption DEF Amount, BILLED, Timeline, Clocked
  <2>2. {paid', refunded'} \subseteq Nat
    BY <1>7, <2>1 DEF Pay, Refund, RowTyped
  <2>3. PICK owed, received : received \in Nat /\ row' = Settled(owed, received)
    BY <1>7, <2>1 DEF Pay, Refund, RowTyped
  <2>4. \/ row' = row \/ row' = [row EXCEPT !.state = "IN_PROGRESS"]
        \/ row' = [row EXCEPT !.state = "RECOVERED", !.recoveredPaise = received]
    BY <2>3 DEF Settled
  <2>5. /\ row'.state \in CaseState /\ row'.recoveredPaise \in Nat
        /\ row'.nextDecisionAt = row.nextDecisionAt /\ row'.attemptCount = row.attemptCount
        /\ row'.touchCount = row.touchCount /\ row'.humanApproved = row.humanApproved
    <3>1. CASE row' = row \/ row' = [row EXCEPT !.state = "IN_PROGRESS"]
      BY <1>1, <3>1 DEF RowTyped, RowFields, CaseState
    <3>2. CASE row' = [row EXCEPT !.state = "RECOVERED", !.recoveredPaise = received]
      BY <1>1, <2>3, <3>2 DEF RowFields, CaseState
    <3> QED BY <2>4, <3>1, <3>2
  <2> QED BY <2>2, <2>5 DEF RowTyped
<1>8. CASE Approve
  <2>1. /\ row' = [row EXCEPT !.humanApproved = TRUE, !.nextDecisionAt = now]
        /\ UNCHANGED <<paid, refunded>>
    BY <1>8 DEF Approve
  <2> QED BY <1>1, <2>1 DEF RowTyped, RowFields
<1>9. CASE \/ UNCHANGED vars \/ ExpirePromises \/ NotDue \/ EndTick \/ Crash \/ CohortChange \/ Pass
           \/ \E r \in replies : ReadReply(r)
           \/ \E channel \in Channel : OtherContact(channel)
  BY <1>2, <1>9 DEF vars, ExpirePromises, NotDue, EndTick, Crash, CohortChange, Pass, ReadReply,
                    OtherContact
<1> QED BY <1>3, <1>4, <1>5, <1>6, <1>7, <1>8, <1>9 DEF Next

\* Every table keeps the types of its columns: amounts and counts are never
\* negative, a date is an instant whatever was decided, no dispute is opened and
\* nothing is sent in the future, and no row is tried MAX_ATTEMPTS times and
\* still queued.
THEOREM TypeCorrect == Spec => []TypeOK
<1> DEFINE Typing == /\ PromisesAhead /\ RowsOK /\ Disputed /\ PromisesFollow /\ ContactsTyped
                     /\ RepliesTyped /\ Switches /\ RowTyped
<1>1. Init => Typing
  <2> SUFFICES ASSUME Init PROVE Typing
    OBVIOUS
  <2>1. course \in Courses /\ course.failures \in Nat /\ course.events \in Nat /\ Opened \in Int
    BY OpeningIs, CourseAssumption DEF Init
  <2>2. PromisesAhead /\ RowsOK /\ PromisesFollow /\ ContactsTyped /\ RepliesTyped
    BY DEF Init, PromisesAhead, RowsOK, PromisesFollow, ContactsTyped, RepliesTyped
  <2>3. Disputed /\ Switches
    <3>1. {optedOut, paused} \subseteq BOOLEAN
      BY Zenon DEF Init
    <3>2. events \in 0..course.events /\ row.disputeOpenedAt = None
      BY <2>1 DEF Init
    <3> QED BY <3>1, <3>2 DEF Disputed, Switches
  <2>4. RowTyped
    BY <2>1 DEF Init, RowTyped, CaseState
  <2> QED BY <2>2, <2>3, <2>4
<1>2. Timeline /\ Typing /\ [Next]_vars => Typing'
  BY PromisesStayAhead, RowsStayOK, DisputedStays, PromisesStayBehind, ContactsStayTyped,
     RepliesStayTyped, SwitchesStayTyped, RowStaysTyped DEF Timeline
<1>3. Timeline /\ Typing => TypeOK
  BY DEF TypeOK, Timeline, Clocked, Disputed, PromisesPast, Promise, PromisesFollow, ActionsPast,
         RowsOK, RowOK, ContactsPast, InThePast, ContactsTyped, RepliesTyped, Switches, RowTyped
<1> QED BY <1>1, <1>2, <1>3, Chronology, PTL DEF Spec

=============================================================================
