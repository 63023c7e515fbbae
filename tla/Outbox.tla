------------------------------- MODULE Outbox -------------------------------
(***************************************************************************)
(* The action table as src/execution/outbox.ts drives it.  An element of   *)
(* Action is an idempotency key: (case, action type, decision hour).  The  *)
(* unique index on it makes the key and the row the same thing.  Time is   *)
(* reduced to ready[a], "scheduledFor <= the drain's clock", which every   *)
(* write that postpones a row clears and the passing of time sets.         *)
(*                                                                         *)
(* Every operator is one SQL statement, hence one atomic step.  None of    *)
(* the writes made by a claimant looks at the status it overwrites: only   *)
(* Claim and CancelPendingForCase are conditional.                         *)
(***************************************************************************)
EXTENDS Naturals

CONSTANTS Action, Case, CaseOf

ASSUME CaseOfAssumption == CaseOf \in [Action -> Case]

VARIABLES
  status,     \* status[a]:   the row's status, "ABSENT" before it is inserted
  attempts,   \* attempts[a]: the row's attempts column
  ready       \* ready[a]:    scheduledFor has been reached

rows == <<status, attempts, ready>>

Status == {"ABSENT", "SCHEDULED", "IN_FLIGHT", "SENT", "SUPPRESSED",
           "CANCELLED", "DEAD_LETTER"}

RowsTypeOK ==
  /\ status \in [Action -> Status]
  /\ attempts \in [Action -> Nat]
  /\ ready \in [Action -> BOOLEAN]

RowsInit ==
  /\ status = [a \in Action |-> "ABSENT"]
  /\ attempts = [a \in Action |-> 0]
  /\ ready = [a \in Action |-> FALSE]

\* A slip: rows that failed before are not read again.
DueOnce == {a \in Action : status[a] = "SCHEDULED" /\ ready[a] /\ attempts[a] = 0}

\* The rows a drain reads: SCHEDULED and scheduledFor <= at.
Due == {a \in Action : status[a] = "SCHEDULED" /\ ready[a]}

\* Rows are enqueued with scheduledFor = at (orchestrator.ts).  A second
\* insert under the same key is ON CONFLICT DO NOTHING: no step.
Enqueue(a) ==
  /\ status[a] = "ABSENT"
  /\ status' = [status EXCEPT ![a] = "SCHEDULED"]
  /\ attempts' = [attempts EXCEPT ![a] = 0]
  /\ ready' = [ready EXCEPT ![a] = TRUE]

\* A slip: the claim does not compare the status.
ClaimableInFlight(a) == status[a] \in {"SCHEDULED", "IN_FLIGHT"}

\* Compare-and-set.  Only the status is compared: a row that was postponed
\* after the caller read it is claimed all the same.
Claimable(a) == status[a] = "SCHEDULED"

Claim(a) ==
  /\ status' = [status EXCEPT ![a] = "IN_FLIGHT"]
  /\ UNCHANGED <<attempts, ready>>

MarkSent(a) ==
  /\ status' = [status EXCEPT ![a] = "SENT"]
  /\ attempts' = [attempts EXCEPT ![a] = @ + 1]
  /\ UNCHANGED ready

MarkSuppressed(a) ==
  /\ status' = [status EXCEPT ![a] = "SUPPRESSED"]
  /\ UNCHANGED <<attempts, ready>>

Reschedule(a) ==
  /\ status' = [status EXCEPT ![a] = "SCHEDULED"]
  /\ ready' = [ready EXCEPT ![a] = FALSE]
  /\ UNCHANGED attempts

MarkRetry(a) ==
  /\ status' = [status EXCEPT ![a] = "SCHEDULED"]
  /\ attempts' = [attempts EXCEPT ![a] = @ + 1]
  /\ ready' = [ready EXCEPT ![a] = FALSE]

DeadLetter(a) ==
  /\ status' = [status EXCEPT ![a] = "DEAD_LETTER"]
  /\ attempts' = [attempts EXCEPT ![a] = @ + 1]
  /\ UNCHANGED ready

\* A slip: a stop cancels what is in flight as well.
CancelAllForCase(c) ==
  /\ status' = [a \in Action |->
                  IF CaseOf[a] = c /\ status[a] \in {"SCHEDULED", "IN_FLIGHT"}
                  THEN "CANCELLED" ELSE status[a]]
  /\ UNCHANGED <<attempts, ready>>

\* Rows in flight are left to whoever claimed them.
CancelPendingForCase(c) ==
  /\ status' = [a \in Action |->
                  IF CaseOf[a] = c /\ status[a] = "SCHEDULED"
                  THEN "CANCELLED" ELSE status[a]]
  /\ UNCHANGED <<attempts, ready>>

\* The clock reaches scheduledFor.
ComesDue(a) ==
  /\ status[a] = "SCHEDULED" /\ ~ready[a]
  /\ ready' = [ready EXCEPT ![a] = TRUE]
  /\ UNCHANGED <<status, attempts>>
=============================================================================
