------------------------------- MODULE TickLease -------------------------------
(***************************************************************************)
(* src/runtime/compose.ts, tick: the lease that is to keep the ticks of a  *)
(* merchant apart, and the switches that a tick reads before it works.  An *)
(* element of Ticker calls tick again and again (a cron entry, an          *)
(* operator); host[t] is the process that answers it.  The ticks of one    *)
(* process share facts, the object its executor asks whether it is halted. *)
(*                                                                         *)
(* Time passes in units.  age[t] is the time since the call of t read its  *)
(* clock, left the time until tickLeaseUntil; both are relative, so that   *)
(* behaviours need not end.  All processes read the same clock.            *)
(***************************************************************************)
EXTENDS Integers

CONSTANTS
  Ticker, Process,
  Placements,      \* the placements of callers on processes considered
  TICK_LEASE,      \* the length of a lease
  Delay,           \* a call waits no longer than this for its claim
  MaxCrashes       \* model bound: crashes in a behaviour

ASSUME LeaseAssumption ==
  /\ Placements \subseteq [Ticker -> Process]
  /\ TICK_LEASE \in Nat \ {0}
  /\ Delay \in 0..(TICK_LEASE - 1)
  /\ MaxCrashes \in Nat

VARIABLES
  host, killSwitch,  \* configuration, fixed by Init
  leased, left,      \* merchants.tickLeaseUntil: not null; minus now
  paused,            \* merchants.paused
  facts,             \* facts[p]: killSwitchEngaged and merchantPaused
  pc, age, pauseRead,  \* a call's stack
  heldSince,         \* history: paused since before the call's claim
  overran, crashes   \* history: some tick outlived its lease; crashes so far

config == <<host, killSwitch>>
stack == <<pc, age, pauseRead, heldSince>>
lease == <<leased, left>>
history == <<overran, crashes>>
vars == <<config, lease, paused, facts, stack, history>>

Running == {"switches", "select", "assign", "cycle", "drain", "release"}
PC == Running \cup {"idle", "claim"}

MaxAge == TICK_LEASE + 1

TypeOK ==
  /\ host \in Placements
  /\ killSwitch \in [Process -> BOOLEAN]
  /\ leased \in BOOLEAN
  /\ left \in (-(Delay + 1))..TICK_LEASE
  /\ paused \in BOOLEAN
  /\ facts \in [Process -> [killSwitchEngaged : BOOLEAN, merchantPaused : BOOLEAN]]
  /\ pc \in [Ticker -> PC]
  /\ age \in [Ticker -> 0..MaxAge]
  /\ pauseRead \in [Ticker -> BOOLEAN]
  /\ heldSince \in [Ticker -> BOOLEAN]
  /\ overran \in BOOLEAN /\ crashes \in 0..MaxCrashes
  /\ \A t \in Ticker :
       /\ pc[t] = "idle" => age[t] = 0
       /\ pc[t] = "claim" => age[t] <= Delay
  /\ ~leased => left = 0

Init ==
  /\ host \in Placements
  /\ killSwitch \in [Process -> BOOLEAN]
  /\ leased = FALSE /\ left = 0
  /\ paused = FALSE
  /\ facts = [p \in Process |-> [killSwitchEngaged |-> FALSE, merchantPaused |-> FALSE]]
  /\ pc = [t \in Ticker |-> "idle"]
  /\ age = [t \in Ticker |-> 0]
  /\ pauseRead = [t \in Ticker |-> FALSE]
  /\ heldSince = [t \in Ticker |-> FALSE]
  /\ overran = FALSE /\ crashes = 0

Goto(t, l) == pc' = [pc EXCEPT ![t] = l]

-----------------------------------------------------------------------------
\* tick(now): the clock is read first, the claim is a query.
Begin(t) ==
  /\ pc[t] = "idle"
  /\ Goto(t, "claim")
  /\ UNCHANGED <<config, lease, paused, facts, age, pauseRead, heldSince, history>>

\* A slip: <= for <.
FreeAtExpiry(t) == ~leased \/ left + age[t] <= 0

\* A slip: the lease of a tick that died is never taken over.
FreeOnRelease(t) == ~leased

\* tickLeaseUntil is null, or less than the time the call read.
Free(t) == ~leased \/ left + age[t] < 0

\* claimTick.
Claim(t) ==
  /\ pc[t] = "claim" /\ Free(t)
  /\ leased' = TRUE /\ left' = TICK_LEASE - age[t]
  /\ Goto(t, "switches")
  /\ heldSince' = [heldSince EXCEPT ![t] = paused]
  /\ UNCHANGED <<config, paused, facts, age, pauseRead, history>>

\* The end of a call: what its stack held is gone.
Leave(t) ==
  /\ Goto(t, "idle")
  /\ age' = [age EXCEPT ![t] = 0]
  /\ pauseRead' = [pauseRead EXCEPT ![t] = FALSE]
  /\ heldSince' = [heldSince EXCEPT ![t] = FALSE]

\* TickBusyError: the route answers 409.
Busy(t) ==
  /\ pc[t] = "claim" /\ ~Free(t)
  /\ Leave(t)
  /\ UNCHANGED <<config, lease, paused, facts, history>>

\* A slip: the pause is read when the process starts only.
ReadSwitchesOnce(t) ==
  /\ pc[t] = "switches"
  /\ facts' = [facts EXCEPT ![host[t]].killSwitchEngaged = killSwitch[host[t]]]
  /\ Goto(t, "cycle")
  /\ UNCHANGED <<config, lease, paused, age, pauseRead, heldSince, history>>

\* runTick asks the port for the kill switch, a setting of the process, and
\* the database for the pause: the answer is taken there and assigned here.
ReadSwitches(t) ==
  /\ pc[t] = "switches"
  /\ facts' = [facts EXCEPT ![host[t]].killSwitchEngaged = killSwitch[host[t]]]
  /\ Goto(t, "select")
  /\ UNCHANGED <<config, lease, paused, age, pauseRead, heldSince, history>>

SelectPause(t) ==
  /\ pc[t] = "select"
  /\ pauseRead' = [pauseRead EXCEPT ![t] = paused]
  /\ Goto(t, "assign")
  /\ UNCHANGED <<config, lease, paused, facts, age, heldSince, history>>

AssignPause(t) ==
  /\ pc[t] = "assign"
  /\ facts' = [facts EXCEPT ![host[t]].merchantPaused = pauseRead[t]]
  /\ Goto(t, "cycle")
  /\ UNCHANGED <<config, lease, paused, age, pauseRead, heldSince, history>>

Halted(t) ==
  facts[host[t]].killSwitchEngaged \/ facts[host[t]].merchantPaused

\* The stages before the drain: cohorts, bandit, inbox, promises, decisions.
Cycle(t) ==
  /\ pc[t] = "cycle"
  /\ Goto(t, IF Halted(t) THEN "release" ELSE "drain")
  /\ UNCHANGED <<config, lease, paused, facts, age, pauseRead, heldSince, history>>

\* Between two rows the drain looks at the facts again.
Drain(t) ==
  /\ pc[t] = "drain"
  /\ Goto(t, "release")
  /\ UNCHANGED <<config, lease, paused, facts, age, pauseRead, heldSince, history>>

\* Any await of runTick may throw; finally releases.
Throw(t) ==
  /\ pc[t] \in Running \ {"release"}
  /\ Goto(t, "release")
  /\ UNCHANGED <<config, lease, paused, facts, age, pauseRead, heldSince, history>>

\* releaseTick writes null whoever's lease it is; or the write fails.
Release(t) ==
  /\ pc[t] = "release"
  /\ (leased' = FALSE /\ left' = 0) \/ UNCHANGED lease
  /\ Leave(t)
  /\ UNCHANGED <<config, paused, facts, history>>

-----------------------------------------------------------------------------
\* The process dies; a new one starts with fresh facts.
Crash(p) ==
  /\ crashes < MaxCrashes /\ crashes' = crashes + 1
  /\ \E t \in Ticker : host[t] = p /\ pc[t] # "idle"
  /\ LET gone(t) == host[t] = p IN
     /\ pc' = [t \in Ticker |-> IF gone(t) THEN "idle" ELSE pc[t]]
     /\ age' = [t \in Ticker |-> IF gone(t) THEN 0 ELSE age[t]]
     /\ pauseRead' = [t \in Ticker |-> ~gone(t) /\ pauseRead[t]]
     /\ heldSince' = [t \in Ticker |-> ~gone(t) /\ heldSince[t]]
  /\ facts' = [facts EXCEPT ![p] = [killSwitchEngaged |-> FALSE, merchantPaused |-> FALSE]]
  /\ UNCHANGED <<config, lease, paused, overran>>

\* An operator pauses the merchant, or lifts the pause.
Pause ==
  /\ paused' = ~paused
  /\ heldSince' = IF paused THEN [t \in Ticker |-> FALSE] ELSE heldSince
  /\ UNCHANGED <<config, lease, facts, pc, age, pauseRead, history>>

Later(t) == IF pc[t] = "idle" \/ age[t] = MaxAge THEN age[t] ELSE age[t] + 1

\* Time passes.  A lease that ran out Delay units ago is free for any call.
Pass ==
  /\ \A t \in Ticker : pc[t] = "claim" => age[t] < Delay
  /\ age' = [t \in Ticker |-> Later(t)]
  /\ left' = IF leased /\ left > -(Delay + 1) THEN left - 1 ELSE left
  /\ overran' = (overran \/ \E t \in Ticker : pc[t] \in Running /\ age[t] >= TICK_LEASE)
  /\ UNCHANGED <<config, leased, paused, facts, pc, pauseRead, heldSince, crashes>>

Next ==
  \/ \E t \in Ticker :
       \/ Begin(t) \/ Claim(t) \/ Busy(t)
       \/ ReadSwitches(t) \/ SelectPause(t) \/ AssignPause(t)
       \/ Cycle(t) \/ Drain(t) \/ Throw(t) \/ Release(t)
  \/ \E p \in Process : Crash(p)
  \/ Pause \/ Pass

Spec == Init /\ [][Next]_vars

\* Callers keep calling, their claims are answered and time passes.  Nothing
\* is asked of a tick that runs: it may hang.
FairSpec ==
  /\ Spec
  /\ \A t \in Ticker : WF_vars(Begin(t)) /\ WF_vars(Claim(t) \/ Busy(t))
  /\ WF_vars(Pass)

-----------------------------------------------------------------------------
\* As long as no tick has run past its lease, no two ticks of the merchant
\* run at a time, whatever crashed, threw or failed to release: the claim's
\* compare-and-set and its boundary are right.
OneTick ==
  ~overran =>
    \A t, u \in Ticker : pc[t] \in Running /\ pc[u] \in Running => t = u

\* A merchant that was paused before a tick began is not drained by it, as
\* long as no tick has run past its lease: facts is shared by the ticks of a
\* process, and a late answer to another tick's query would overwrite it.
HaltHonoured ==
  ~overran =>
    \A t \in Ticker : pc[t] = "drain" => ~heldSince[t] /\ ~killSwitch[host[t]]

\* A lease whose tick died or could not release it does not stay.
LeaseNotStuck == []<>(~leased \/ \E t \in Ticker : pc[t] \in Running)
=============================================================================
