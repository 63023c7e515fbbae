---------------------------- MODULE TickLeaseProofs ----------------------------
(***************************************************************************)
(* As long as no tick outlives its lease the ticks of a merchant exclude   *)
(* each other and heed a pause, for any number of callers and processes    *)
(* and any length of the lease.                                            *)
(***************************************************************************)
EXTENDS TickLease, TLAPS

USE LeaseAssumption DEF MaxAge

\* What makes OneTick inductive: the lease in force is that of the tick that
\* runs, and it has not run out.
LeaseHeld ==
  ~overran => \A t \in Ticker : pc[t] \in Running =>
    leased /\ left = TICK_LEASE - age[t] /\ age[t] <= TICK_LEASE

\* What makes HaltHonoured inductive: the pause is on its way from the row to
\* the facts.
Known(t) ==
  /\ pc[t] \in {"select", "assign", "cycle", "drain"} =>
       (killSwitch[host[t]] => facts[host[t]].killSwitchEngaged)
  /\ pc[t] = "assign" => (heldSince[t] => pauseRead[t])
  /\ pc[t] \in {"cycle", "drain"} => (heldSince[t] => facts[host[t]].merchantPaused)
  /\ pc[t] = "drain" => ~heldSince[t] /\ ~killSwitch[host[t]]

PauseKnown ==
  \A t \in Ticker : (heldSince[t] => paused) /\ (~overran => Known(t))

LEMMA Constants ==
  /\ TICK_LEASE \in Nat /\ TICK_LEASE > 0
  /\ Delay \in Nat /\ Delay < TICK_LEASE
OBVIOUS

LEMMA OneMore == ASSUME NEW a \in Nat, a < Delay PROVE a + 1 <= Delay
BY Constants

LEMMA OneOlder ==
  ASSUME NEW a \in 0..MaxAge, a # MaxAge PROVE a + 1 \in 0..MaxAge
BY Constants

-----------------------------------------------------------------------------
\* Every variable keeps its type: a lease is never longer than TICK_LEASE and
\* a call that has returned holds nothing.
THEOREM TypeCorrect == Spec => []TypeOK
<1>1. Init => TypeOK
  <2> SUFFICES ASSUME Init PROVE TypeOK
    OBVIOUS
  <2>1. 0 \in (-(Delay + 1))..TICK_LEASE /\ 0 \in 0..MaxAge /\ 0 \in 0..MaxCrashes /\ 0 <= Delay
    BY Constants
  <2>2. age \in [Ticker -> 0..MaxAge] /\ \A t \in Ticker : age[t] = 0
    BY <2>1 DEF Init
  <2>3. facts \in [Process -> [killSwitchEngaged : BOOLEAN, merchantPaused : BOOLEAN]]
    BY DEF Init
  <2>4. QED
    BY <2>1, <2>2, <2>3 DEF Init, TypeOK, PC, Running
<1>2. TypeOK /\ [Next]_vars => TypeOK'
  <2> SUFFICES ASSUME TypeOK, [Next]_vars PROVE TypeOK'
    OBVIOUS
  <2> USE Constants DEF TypeOK
  <2>1. CASE UNCHANGED vars
    BY <2>1 DEF vars, config, lease, stack, history
  <2>2. ASSUME NEW t \in Ticker, Begin(t) PROVE TypeOK'
    BY <2>2 DEF Begin, Goto, Leave, config, lease, stack, history, PC, Running
  <2>3. ASSUME NEW t \in Ticker, Claim(t) PROVE TypeOK'
    BY <2>3 DEF Claim, Goto, Leave, config, lease, stack, history, PC, Running
  <2>4. ASSUME NEW t \in Ticker, Busy(t) PROVE TypeOK'
    BY <2>4 DEF Busy, Goto, Leave, config, lease, stack, history, PC, Running
  <2>5. ASSUME NEW t \in Ticker, ReadSwitches(t) PROVE TypeOK'
    BY <2>5 DEF ReadSwitches, Goto, Leave, config, lease, stack, history, PC, Running
  <2>6. ASSUME NEW t \in Ticker, SelectPause(t) PROVE TypeOK'
    BY <2>6 DEF SelectPause, Goto, Leave, config, lease, stack, history, PC, Running
  <2>7. ASSUME NEW t \in Ticker, AssignPause(t) PROVE TypeOK'
    BY <2>7 DEF AssignPause, Goto, Leave, config, lease, stack, history, PC, Running
  <2>8. ASSUME NEW t \in Ticker, Cycle(t) PROVE TypeOK'
    BY <2>8 DEF Cycle, Goto, Leave, config, lease, stack, history, PC, Running
  <2>9. ASSUME NEW t \in Ticker, Drain(t) PROVE TypeOK'
    BY <2>9 DEF Drain, Goto, Leave, config, lease, stack, history, PC, Running
  <2>10. ASSUME NEW t \in Ticker, Throw(t) PROVE TypeOK'
    BY <2>10 DEF Throw, Goto, Leave, config, lease, stack, history, PC, Running
  <2>11. ASSUME NEW t \in Ticker, Release(t) PROVE TypeOK'
    <3>1. /\ leased' \in BOOLEAN /\ left' \in (-(Delay + 1))..TICK_LEASE
          /\ ~leased' => left' = 0
      <4>1. CASE leased' = FALSE /\ left' = 0
        <5>1. 0 \in (-(Delay + 1))..TICK_LEASE
          OBVIOUS
        <5>2. QED
          BY <4>1, <5>1
      <4>2. CASE UNCHANGED lease
        BY <4>2 DEF lease
      <4>3. QED
        BY <2>11, <4>1, <4>2 DEF Release
    <3>2. 0 \in 0..MaxAge
      OBVIOUS
    <3>3. age' \in [Ticker -> 0..MaxAge] /\ pc' \in [Ticker -> PC]
      BY <2>11, <3>2 DEF Release, Leave, Goto, PC
    <3>4. \A u \in Ticker : (pc'[u] = "idle" => age'[u] = 0)
                          /\ (pc'[u] = "claim" => age'[u] <= Delay)
      BY <2>11 DEF Release, Leave, Goto
    <3>5. QED
      BY <2>11, <3>1, <3>3, <3>4 DEF Release, Leave, config, history
  <2>12. ASSUME NEW p \in Process, Crash(p) PROVE TypeOK'
    BY <2>12 DEF Crash, config, lease, PC
  <2>13. CASE Pause
    BY <2>13 DEF Pause, config, lease, history
  <2>14. CASE Pass
    <3>1. left' \in (-(Delay + 1))..TICK_LEASE /\ (~leased' => left' = 0)
      BY <2>14 DEF Pass
    <3>2. \A t \in Ticker : Later(t) \in 0..MaxAge /\ (pc[t] = "idle" => Later(t) = age[t])
                          /\ (pc[t] = "claim" => Later(t) <= Delay)
      <4> SUFFICES ASSUME NEW t \in Ticker
                   PROVE  Later(t) \in 0..MaxAge /\ (pc[t] = "idle" => Later(t) = age[t])
                          /\ (pc[t] = "claim" => Later(t) <= Delay)
        OBVIOUS
      <4>1. age[t] \in 0..MaxAge /\ (pc[t] = "claim" => age[t] < Delay)
        BY <2>14 DEF Pass
      <4>2. CASE pc[t] = "idle" \/ age[t] = MaxAge
        BY <4>1, <4>2 DEF Later
      <4>3. CASE pc[t] # "idle" /\ age[t] # MaxAge
        <5>1. Later(t) = age[t] + 1
          BY <4>3 DEF Later
        <5>2. age[t] + 1 \in 0..MaxAge
          BY <4>1, <4>3, OneOlder
        <5>3. pc[t] = "claim" => age[t] + 1 <= Delay
          <6> SUFFICES ASSUME pc[t] = "claim" PROVE age[t] + 1 <= Delay
            OBVIOUS
          <6>1. age[t] \in Nat /\ age[t] < Delay
            BY <4>1
          <6>2. QED
            BY <6>1, OneMore
        <5>4. QED
          BY <4>3, <5>1, <5>2, <5>3
      <4>4. QED
        BY <4>2, <4>3
    <3>3. /\ age' \in [Ticker -> 0..MaxAge]
          /\ \A t \in Ticker : age'[t] = Later(t)
      BY <2>14, <3>2 DEF Pass
    <3>4. QED
      BY <2>14, <3>1, <3>2, <3>3 DEF Pass, config
  <2>15. QED
    BY <2>1, <2>2, <2>3, <2>4, <2>5, <2>6, <2>7, <2>8, <2>9, <2>10, <2>11, <2>12, <2>13, <2>14
    DEF Next
<1>3. QED
  BY <1>1, <1>2, PTL DEF Spec

-----------------------------------------------------------------------------
\* The inductive form of OneTick.
Exclusion == TypeOK /\ LeaseHeld /\ OneTick

\* The claim's compare-and-set excludes: a call finds the lease of a running
\* tick in force, and only the tick that runs can give it up.
LEMMA Excluded == Spec => []Exclusion
<1>1. Init => LeaseHeld /\ OneTick
  BY DEF Init, LeaseHeld, OneTick, Running
<1>2. TypeOK /\ LeaseHeld /\ OneTick /\ [Next]_vars => LeaseHeld' /\ OneTick'
  <2> SUFFICES ASSUME TypeOK, LeaseHeld, OneTick, [Next]_vars, ~overran'
               PROVE  LeaseHeld' /\ OneTick'
    BY DEF LeaseHeld, OneTick
  <2>0. ~overran
    BY DEF Next, vars, history, Begin, Claim, Busy, ReadSwitches, SelectPause,
      AssignPause, Cycle, Drain, Throw, Release, Crash, Pause, Pass, TypeOK
  <2>1. CASE UNCHANGED <<pc, age, lease>>
    BY <2>0, <2>1 DEF LeaseHeld, OneTick, lease
  <2>2. ASSUME NEW t \in Ticker, Begin(t) PROVE LeaseHeld' /\ OneTick'
    BY <2>0, <2>2 DEF Begin, Goto, lease, TypeOK, LeaseHeld, OneTick, Running
  <2>3. ASSUME NEW t \in Ticker, Claim(t) PROVE LeaseHeld' /\ OneTick'
    <3>1. ASSUME NEW u \in Ticker, pc[u] \in Running PROVE FALSE
      <4>1. leased /\ left = TICK_LEASE - age[u] /\ age[u] <= TICK_LEASE
        BY <2>0, <3>1 DEF LeaseHeld
      <4>2. left + age[t] < 0
        BY <2>3, <4>1 DEF Claim, Free
      <4>3. age[u] \in Nat /\ age[t] \in Nat
        BY DEF TypeOK
      <4>4. QED
        BY <4>1, <4>2, <4>3, Constants
    <3>2. age[t] \in Nat /\ age[t] <= TICK_LEASE
      BY <2>3, Constants DEF Claim, TypeOK
    <3>3. \A u \in Ticker : pc'[u] \in Running => u = t
      BY <2>3, <3>1 DEF Claim, Goto, TypeOK, Running
    <3>4. QED
      BY <2>3, <3>2, <3>3 DEF Claim, LeaseHeld, OneTick
  <2>4. ASSUME NEW t \in Ticker, Busy(t) \/ Release(t) PROVE LeaseHeld' /\ OneTick'
    <3>1. pc'[t] = "idle" /\ \A u \in Ticker \ {t} : pc'[u] = pc[u] /\ age'[u] = age[u]
      BY <2>4 DEF Busy, Release, Leave, Goto, TypeOK
    <3>2. \A u \in Ticker : pc'[u] \in Running => u # t /\ pc[u] \in Running
      BY <3>1 DEF Running
    <3>3. CASE Busy(t)
      BY <2>0, <3>1, <3>2, <3>3 DEF Busy, lease, LeaseHeld, OneTick
    <3>4. CASE Release(t)
      <4>1. pc[t] \in Running
        BY <3>4 DEF Release, Running
      <4>2. \A u \in Ticker : pc'[u] \notin Running
        BY <2>0, <3>2, <4>1 DEF OneTick
      <4>3. QED
        BY <4>2 DEF LeaseHeld, OneTick
    <3>5. QED
      BY <2>4, <3>3, <3>4
  <2>5. ASSUME NEW t \in Ticker,
               \/ ReadSwitches(t) \/ SelectPause(t) \/ AssignPause(t)
               \/ Cycle(t) \/ Drain(t) \/ Throw(t)
        PROVE  LeaseHeld' /\ OneTick'
    <3>1. /\ pc[t] \in Running /\ UNCHANGED <<age, lease>>
          /\ \A u \in Ticker \ {t} : pc'[u] = pc[u]
      BY <2>5 DEF ReadSwitches, SelectPause, AssignPause, Cycle, Drain, Throw, Goto,
        Running, TypeOK
    <3>2. \A u \in Ticker : pc'[u] \in Running => pc[u] \in Running
      BY <3>1
    <3>3. QED
      BY <2>0, <3>1, <3>2 DEF LeaseHeld, OneTick, lease
  <2>6. ASSUME NEW p \in Process, Crash(p) PROVE LeaseHeld' /\ OneTick'
    <3>1. \A u \in Ticker : pc'[u] \in Running => pc[u] \in Running /\ age'[u] = age[u]
      BY <2>6 DEF Crash, Running
    <3>2. QED
      BY <2>0, <2>6, <3>1 DEF Crash, LeaseHeld, OneTick, lease
  <2>7. CASE Pause
    BY <2>1, <2>7 DEF Pause
  <2>8. CASE Pass
    <3>1. UNCHANGED pc
      BY <2>8 DEF Pass
    <3>2. ASSUME NEW u \in Ticker, pc[u] \in Running
          PROVE  leased' /\ left' = TICK_LEASE - age'[u] /\ age'[u] <= TICK_LEASE
      <4>1. leased /\ left = TICK_LEASE - age[u] /\ age[u] \in Nat
        BY <2>0, <3>2 DEF LeaseHeld, TypeOK
      <4>2. ~(age[u] >= TICK_LEASE)
        BY <2>8, <3>2 DEF Pass
      <4>3. age'[u] = age[u] + 1
        BY <2>8, <3>2, <4>1, <4>2, Constants DEF Pass, Later, Running, TypeOK
      <4>4. left > -(Delay + 1)
        BY <4>1, <4>2, Constants
      <4>5. leased' /\ left' = left - 1
        BY <2>8, <4>1, <4>4 DEF Pass
      <4>6. QED
        BY <4>1, <4>2, <4>3, <4>5, Constants
    <3>3. QED
      BY <2>0, <3>1, <3>2 DEF LeaseHeld, OneTick
  <2>9. QED
    BY <2>1, <2>2, <2>3, <2>4, <2>5, <2>6, <2>7, <2>8 DEF Next, vars, stack
<1>3. QED
  BY <1>1, <1>2, TypeCorrect, PTL DEF Spec, Exclusion

\* Until a tick outlives its lease, no two ticks of the merchant run at a time.
THEOREM TicksExclude == Spec => []OneTick
BY Excluded, PTL DEF Exclusion

-----------------------------------------------------------------------------
\* A tick that works alone carries the pause from the row to the facts it
\* drains by: one that began in a pause does not reach the drain.
THEOREM HaltIsHonoured == Spec => []HaltHonoured
<1>1. Init => PauseKnown
  BY DEF Init, PauseKnown, Known
<1>2. Exclusion /\ PauseKnown /\ [Next]_vars => PauseKnown'
  <2> SUFFICES ASSUME Exclusion, PauseKnown, [Next]_vars, NEW u \in Ticker
               PROVE  /\ (heldSince[u] => paused)'
                      /\ ~overran' => Known(u)'
    BY DEF PauseKnown
  <2> USE DEF Exclusion
  <2>0. ~overran' => ~overran
    BY DEF Next, vars, history, Begin, Claim, Busy, ReadSwitches, SelectPause,
      AssignPause, Cycle, Drain, Throw, Release, Crash, Pause, Pass, TypeOK
  <2>1. CASE UNCHANGED <<config, paused, facts, pc, pauseRead, heldSince>>
    BY <2>0, <2>1 DEF PauseKnown, Known, config
  <2>2. ASSUME NEW t \in Ticker,
               Begin(t) \/ Claim(t) \/ Busy(t) \/ Throw(t) \/ Release(t)
        PROVE  (heldSince[u] => paused)' /\ (~overran' => Known(u)')
    <3>1. /\ UNCHANGED <<config, paused, facts>>
          /\ u # t => UNCHANGED <<pc[u], pauseRead[u], heldSince[u]>>
      BY <2>2 DEF Begin, Claim, Busy, Throw, Release, Leave, Goto, TypeOK
    <3>2. CASE u = t
      <4>1. pc'[t] \in {"idle", "claim", "switches", "release"}
        BY <2>2 DEF Begin, Claim, Busy, Throw, Release, Leave, Goto, TypeOK
      <4>2. heldSince'[t] => paused'
        BY <2>2 DEF Begin, Claim, Busy, Throw, Release, Leave, PauseKnown, TypeOK
      <4>3. QED
        BY <3>2, <4>1, <4>2 DEF Known
    <3>3. CASE u # t
      BY <2>0, <3>1, <3>3 DEF PauseKnown, Known, config
    <3>4. QED
      BY <3>2, <3>3
  <2>3. ASSUME NEW t \in Ticker,
               \/ ReadSwitches(t) \/ SelectPause(t) \/ AssignPause(t)
               \/ Cycle(t) \/ Drain(t)
        PROVE  (heldSince[u] => paused)' /\ (~overran' => Known(u)')
    <3>1. pc[t] \in Running /\ UNCHANGED <<config, paused, heldSince, overran>>
      BY <2>3 DEF ReadSwitches, SelectPause, AssignPause, Cycle, Drain, Running, history
    <3>2. heldSince'[u] => paused'
      BY <3>1 DEF PauseKnown
    <3>3. ASSUME u # t, ~overran PROVE Known(u)'
      <4>1. pc[u] \notin Running
        BY <3>1, <3>3 DEF OneTick
      <4>2. pc'[u] = pc[u]
        BY <2>3, <3>3 DEF ReadSwitches, SelectPause, AssignPause, Cycle, Drain, Goto, TypeOK
      <4>3. QED
        BY <4>1, <4>2 DEF Known, Running
    <3>4. ASSUME u = t, ~overran PROVE Known(u)'
      <4>1. host[t] \in Process
        BY DEF TypeOK
      <4>2. CASE ReadSwitches(t)
        <5>1. facts' = [facts EXCEPT ![host[t]].killSwitchEngaged = killSwitch[host[t]]]
          BY <4>2 DEF ReadSwitches
        <5>2. facts'[host[t]].killSwitchEngaged = killSwitch[host[t]]
          BY <4>1, <5>1, Zenon DEF TypeOK
        <5>3. pc'[t] = "select"
          BY <4>2 DEF ReadSwitches, Goto, TypeOK
        <5>4. QED
          BY <3>1, <3>4, <5>2, <5>3 DEF Known, config
      <4>3. CASE SelectPause(t)
        BY <3>1, <3>4, <4>3 DEF SelectPause, Goto, PauseKnown, Known, config, TypeOK
      <4>4. CASE AssignPause(t)
        <5>1. /\ facts'[host[t]].merchantPaused = pauseRead[t]
              /\ facts'[host[t]].killSwitchEngaged = facts[host[t]].killSwitchEngaged
          BY <4>1, <4>4 DEF AssignPause, TypeOK
        <5>2. pc[t] = "assign" /\ pc'[t] = "cycle"
          BY <4>4 DEF AssignPause, Goto, TypeOK
        <5>3. QED
          BY <3>1, <3>4, <5>1, <5>2 DEF PauseKnown, Known, config
      <4>5. CASE Cycle(t)
        BY <3>1, <3>4, <4>5 DEF Cycle, Goto, Halted, PauseKnown, Known, config, TypeOK
      <4>6. CASE Drain(t)
        BY <3>4, <4>6 DEF Drain, Goto, Known, TypeOK
      <4>7. QED
        BY <2>3, <4>2, <4>3, <4>4, <4>5, <4>6
    <3>5. QED
      BY <3>1, <3>2, <3>3, <3>4
  <2>4. ASSUME NEW p \in Process, Crash(p)
        PROVE  (heldSince[u] => paused)' /\ (~overran' => Known(u)')
    <3>1. UNCHANGED <<config, paused>>
      BY <2>4 DEF Crash
    <3>2. CASE host[u] = p
      BY <2>4, <3>1, <3>2 DEF Crash, PauseKnown, Known
    <3>3. CASE host[u] # p
      <4>1. UNCHANGED <<pc[u], pauseRead[u], heldSince[u]>>
        BY <2>4, <3>3 DEF Crash, TypeOK
      <4>2. facts'[host[u]] = facts[host[u]]
        BY <2>4, <3>3 DEF Crash, TypeOK
      <4>3. QED
        BY <2>0, <3>1, <4>1, <4>2 DEF PauseKnown, Known, config
    <3>4. QED
      BY <3>2, <3>3
  <2>5. CASE Pause
    <3>1. UNCHANGED <<config, facts, pc, pauseRead>> /\ paused' = ~paused
      BY <2>5 DEF Pause
    <3>2. heldSince'[u] = FALSE
      BY <2>5 DEF Pause, PauseKnown, TypeOK
    <3>3. QED
      BY <2>0, <3>1, <3>2 DEF PauseKnown, Known, config
  <2>6. CASE Pass
    BY <2>1, <2>6 DEF Pass
  <2>7. QED
    BY <2>1, <2>2, <2>3, <2>4, <2>5, <2>6 DEF Next, vars, stack
<1>3. PauseKnown => HaltHonoured
  BY DEF PauseKnown, Known, HaltHonoured
<1>4. QED
  BY <1>1, <1>2, <1>3, Excluded, PTL DEF Spec
===============================================================================
