------------------------------ MODULE MCExecutor ------------------------------
(***************************************************************************)
(* One customer, two actions and two drains.  First with one case: two     *)
(* messages for drains that share a process, and for drains that have a    *)
(* process each two charges, or a message and an action without a call.    *)
(* Where they share one, a tick whose drain does not run may be in its     *)
(* decision cycle, and fetch a row of the case or of the customer.         *)
(***************************************************************************)
EXTENDS Executor, TLC

CONSTANTS a1, a2, c1, c2, u1, d1, d2, p1, p2

MCCaseOf == [a \in Action |-> c1]
MCCustomerOf == [c \in Case |-> u1]
Config(k1, k2, hosts) ==
  [kind : {[a \in Action |-> IF a = m THEN k1 ELSE k2] : m \in Action},
   host : hosts, dryRun : {FALSE}]
Together == {h \in [Drain -> Process] : h[d1] = h[d2]}
Apart == {h \in [Drain -> Process] : h[d1] # h[d2]}
MCConfigs ==
  Config("MESSAGE", "MESSAGE", Together) \cup
  Config("CHARGE", "CHARGE", Apart) \cup Config("MESSAGE", "INTERNAL", Apart)

\* The drains and the processes are interchangeable, and so are the actions: each
\* of them is the message in one of the configurations.
Symmetry == Permutations(Drain) \cup Permutations(Process) \cup Permutations(Action)

-----------------------------------------------------------------------------
\* One case for each action: an opt-out through one case stops the other.

MCSplitCases == [a \in Action |-> IF a = a1 THEN c1 ELSE c2]
MCSplitConfigs ==
  Config("MESSAGE", "INTERNAL", Together) \cup
  {[c EXCEPT !.dryRun = TRUE] : c \in Config("MESSAGE", "CHARGE", Together)}
=============================================================================
