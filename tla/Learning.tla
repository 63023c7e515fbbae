------------------------------- MODULE Learning -------------------------------
(***************************************************************************)
(* What a process learns from its decisions.  The tracker                  *)
(* (src/decision/feedback.ts) holds every decision until the case recovers *)
(* or the attribution window is over; the bandit (src/decision/bandit.ts)  *)
(* counts successes and failures by arm, and keeps what it has not yet     *)
(* written apart; the store (src/decision/bandit-store.ts) adds that to    *)
(* the table and now and then reads the table back.                        *)
(*                                                                         *)
(* An arm is an action: the other parts of its key (method, issuer, day,   *)
(* hour, diagnosis, attempts) only make more arms.  Priors are constants   *)
(* that are added when a draw is made; counts are kept without them.       *)
(***************************************************************************)
EXTENDS Integers, FiniteSets

CONSTANTS
  Arms,
  ATTRIBUTION  \* attribution_window_hours

NoCounts == [arm \in Arms |-> [successes |-> 0, failures |-> 0]]

Plus(a, b) ==
  [arm \in Arms |-> [successes |-> a[arm].successes + b[arm].successes,
                     failures |-> a[arm].failures + b[arm].failures]]

\* The counts that the decisions of a set add up to.
Tally(good, bad) ==
  [arm \in Arms |-> [successes |-> Cardinality({d \in good : d.arm = arm}),
                     failures |-> Cardinality({d \in bad : d.arm = arm})]]

\* The bandit: its posteriors, without priors, and what was not written yet.
NewBandit(table) == [posteriors |-> table, pending |-> NoCounts]

update(bandit, good, bad) ==
  [posteriors |-> Plus(bandit.posteriors, Tally(good, bad)),
   pending |-> Plus(bandit.pending, Tally(good, bad))]

\* A slip: what is written stays pending.
drainPendingKept(bandit) == bandit

drainPending(bandit) == [bandit EXCEPT !.pending = NoCounts]

\* load overwrites the posteriors of every arm that the table has.
restore(bandit, table) ==
  [bandit EXCEPT !.posteriors =
     [arm \in Arms |-> IF table[arm] = NoCounts[arm] THEN @[arm] ELSE table[arm]]]

-----------------------------------------------------------------------------
(* The tracker: a set of decisions [case, arm, at] *)

record(tracker, case, arm, at) == tracker \cup {[case |-> case, arm |-> arm, at |-> at]}

\* Those that a recovery of their case is credited to.
Credited(tracker, case, recoveredAt) ==
  {d \in tracker : d.case = case /\ recoveredAt >= d.at /\ recoveredAt - d.at <= ATTRIBUTION}

Expired(tracker, now) == {d \in tracker : now - d.at > ATTRIBUTION}

=============================================================================
