------------------------------- MODULE AuditLog -------------------------------
(***************************************************************************)
(* What the audit chain promises its callers: each merchant has one log,   *)
(* an append puts its entry at the end once and for all, a caller is told  *)
(* that its entry is there only when it is, and a caller that is told      *)
(* nothing, or told of an error, finds its entry there once or not at all. *)
(***************************************************************************)
EXTENDS Sequences

CONSTANTS
  Merchant,
  Writer,        \* one append each
  MerchantOf     \* whose log it goes to

VARIABLES
  log,           \* log[m]: the entries of m
  call           \* call[w]: where the call stands

Call == {"idle", "pending", "appended", "done", "failed"}

Init ==
  /\ log = [m \in Merchant |-> << >>]
  /\ call = [w \in Writer |-> "idle"]

Becomes(w, from, to) ==
  /\ call[w] \in from
  /\ call' = [call EXCEPT ![w] = to]

Start(w) == Becomes(w, {"idle"}, "pending") /\ UNCHANGED log

Append1(w) ==
  /\ Becomes(w, {"pending"}, "appended")
  /\ log' = [log EXCEPT ![MerchantOf[w]] = Append(@, w)]

Answer(w) == Becomes(w, {"appended"}, "done") /\ UNCHANGED log

\* Callers that are told of an error, or die: those of one process at once.
Fail(W) ==
  /\ W # {} /\ \A w \in W : call[w] \in {"pending", "appended"}
  /\ call' = [w \in Writer |-> IF w \in W THEN "failed" ELSE call[w]]
  /\ UNCHANGED log

Next ==
  \/ \E w \in Writer : Start(w) \/ Append1(w) \/ Answer(w)
  \/ \E W \in SUBSET Writer : Fail(W)

Spec == Init /\ [][Next]_<<log, call>>
=============================================================================
