------------------------------ MODULE AuditChain ------------------------------
(***************************************************************************)
(* src/db/audit-chain.ts: appends to the hash chain of a merchant, by      *)
(* writers in several processes that share only the database.  A writer is *)
(* one call of AuditChain.append.  Inside a process the calls for one      *)
(* merchant queue on a KeyedMutex; between processes the unique index on   *)
(* (merchant, seq) decides who gets a place, and the loser tries again     *)
(* from a fresh head.                                                      *)
(*                                                                         *)
(* A hash stands for everything that was hashed into it: it is the         *)
(* sequence of the contents up to its record.  That keeps the one thing    *)
(* the chain needs from SHA-256, that different histories have different   *)
(* hashes.                                                                 *)
(***************************************************************************)
EXTENDS Naturals, FiniteSets, Sequences

CONSTANTS
  Merchant, Writer, Process,
  MerchantOf,      \* whose chain a writer appends to
  Placements,      \* the placements of writers on processes considered
  APPEND_RETRIES,
  MaxFaults        \* model bound: failed inserts and crashes in a behaviour

ASSUME ChainAssumption ==
  /\ MerchantOf \in [Writer -> Merchant]
  /\ Placements \subseteq [Writer -> Process]
  /\ APPEND_RETRIES \in Nat \ {0}
  /\ MaxFaults \in Nat
  /\ "GENESIS" \notin Writer

VARIABLES
  host,              \* where a writer runs: configuration, fixed by Init
  table,             \* the rows of audit_records
  pc, head, attempt, \* a writer's stack: where it is, the head it read
  lostTo,            \* the rows that made its inserts conflict
  faults

vars == <<host, table, pc, head, attempt, lostTo, faults>>

GENESIS_HASH == << >>
hashRecord(prev, content) == Append(prev, content)

Record(m, seq, content, prev) ==
  [merchant |-> m, seq |-> seq, content |-> content, prevHash |-> prev,
   hash |-> hashRecord(prev, content)]

RowsOf(m) == {r \in table : r.merchant = m}

NoHead == [seq |-> 0, hash |-> << >>]

\* Inside append's critical section.
Working == {"head", "genesis", "reread", "write", "written"}
PC == Working \cup {"idle", "done", "failed"}

Content == Writer \cup {"GENESIS"}
Hashes == Seq(Content)
Rows == [merchant : Merchant, seq : Nat, content : Content, prevHash : Hashes, hash : Hashes]

TypeOK ==
  /\ host \in Placements
  /\ table \subseteq Rows
  /\ pc \in [Writer -> PC]
  /\ head \in [Writer -> [seq : Nat, hash : Hashes]]
  /\ attempt \in [Writer -> 0..APPEND_RETRIES]
  /\ lostTo \in [Writer -> SUBSET Rows]
  /\ faults \in Nat

Init ==
  /\ host \in Placements
  /\ table = {}
  /\ pc = [w \in Writer |-> "idle"]
  /\ head = [w \in Writer |-> NoHead]
  /\ attempt = [w \in Writer |-> 0]
  /\ lostTo = [w \in Writer |-> {}]
  /\ faults = 0

-----------------------------------------------------------------------------
\* A slip: appends in one process do not wait for each other.
FreeAlways(w) == TRUE

\* A slip: the queue waits for the calls before to succeed.
FreeAfterSuccess(w) ==
  ~\E v \in Writer \ {w} :
     /\ host[v] = host[w] /\ MerchantOf[v] = MerchantOf[w]
     /\ pc[v] \in Working \cup {"failed"}

\* The KeyedMutex of w's process: no other call for the merchant is running.
\* A call that failed lets the next one go on all the same.
Free(w) ==
  ~\E v \in Writer \ {w} :
     host[v] = host[w] /\ MerchantOf[v] = MerchantOf[w] /\ pc[v] \in Working

Goto(w, l) == pc' = [pc EXCEPT ![w] = l]

\* append: the call gets its turn in its process.
Start(w) ==
  /\ pc[w] = "idle" /\ Free(w)
  /\ Goto(w, "head")
  /\ UNCHANGED <<host, table, head, attempt, lostTo, faults>>

Heads(m) == {r \in RowsOf(m) : \A q \in RowsOf(m) : q.seq <= r.seq}

TakeHead(w, r) ==
  /\ head' = [head EXCEPT ![w] = [seq |-> r.seq, hash |-> r.hash]]
  /\ Goto(w, "write")

\* appendUnsafe: the record with the highest seq, if there is one.
ReadHead(w) ==
  /\ pc[w] = "head"
  /\ \/ \E r \in Heads(MerchantOf[w]) : TakeHead(w, r)
     \/ RowsOf(MerchantOf[w]) = {} /\ Goto(w, "genesis") /\ UNCHANGED head
  /\ UNCHANGED <<host, table, attempt, lostTo, faults>>

\* After the genesis record is written the head is read again; it may be
\* another writer's record by now.
ReadBack(w) ==
  /\ pc[w] = "reread"
  /\ \E r \in Heads(MerchantOf[w]) : TakeHead(w, r)
  /\ UNCHANGED <<host, table, attempt, lostTo, faults>>

Taken(r) == {q \in RowsOf(r.merchant) : q.seq = r.seq}

\* A slip: one attempt too many.
LoseLate(w, r) ==
  /\ Taken(r) # {}
  /\ attempt' = [attempt EXCEPT ![w] = @ + 1]
  /\ lostTo' = [lostTo EXCEPT ![w] = @ \cup Taken(r)]
  /\ Goto(w, IF attempt[w] = APPEND_RETRIES THEN "failed" ELSE "head")
  /\ head' = [head EXCEPT ![w] = NoHead]
  /\ UNCHANGED <<host, table, faults>>

\* A slip: a lost place is tried again under the head that was read before.
LoseSameHead(w, r) ==
  /\ Taken(r) # {}
  /\ attempt' = [attempt EXCEPT ![w] = @ + 1]
  /\ lostTo' = [lostTo EXCEPT ![w] = @ \cup Taken(r)]
  /\ IF attempt[w] + 1 = APPEND_RETRIES THEN Goto(w, "failed") ELSE UNCHANGED pc
  /\ UNCHANGED <<host, table, head, faults>>

\* The insert violates the unique index: appendWithRetry starts over, or
\* gives up with an AuditIntegrityError.
Lose(w, r) ==
  /\ Taken(r) # {}
  /\ attempt' = [attempt EXCEPT ![w] = @ + 1]
  /\ lostTo' = [lostTo EXCEPT ![w] = @ \cup Taken(r)]
  /\ Goto(w, IF attempt[w] + 1 = APPEND_RETRIES THEN "failed" ELSE "head")
  /\ head' = [head EXCEPT ![w] = NoHead]
  /\ UNCHANGED <<host, table, faults>>

\* A slip: the place is not checked.
WinUnchecked(w, r, l) ==
  /\ table' = table \cup {r}
  /\ Goto(w, l)
  /\ UNCHANGED <<host, head, attempt, lostTo, faults>>

Win(w, r, l) ==
  /\ Taken(r) = {}
  /\ table' = table \cup {r}
  /\ Goto(w, l)
  /\ UNCHANGED <<host, head, attempt, lostTo, faults>>

Genesis(w) == Record(MerchantOf[w], 0, "GENESIS", GENESIS_HASH)

Entry(w) == Record(MerchantOf[w], head[w].seq + 1, w, head[w].hash)

WriteGenesis(w) ==
  pc[w] = "genesis" /\ (Win(w, Genesis(w), "reread") \/ Lose(w, Genesis(w)))

WriteRecord(w) ==
  pc[w] = "write" /\ (Win(w, Entry(w), "written") \/ Lose(w, Entry(w)))

Return(w) ==
  /\ pc[w] = "written"
  /\ Goto(w, "done")
  /\ UNCHANGED <<host, table, head, attempt, lostTo, faults>>

-----------------------------------------------------------------------------
Fault == faults < MaxFaults /\ faults' = faults + 1

\* A slip: every error is taken for a lost place.
BreakAndRetry(w) ==
  /\ Fault
  /\ pc[w] \in Working
  /\ attempt' = [attempt EXCEPT ![w] = @ + 1]
  /\ Goto(w, IF attempt[w] + 1 = APPEND_RETRIES THEN "failed" ELSE "head")
  /\ UNCHANGED <<host, table, head, lostTo>>

\* Another error of the database, before the row is there or after it (the
\* answer is lost): isSequenceConflict says no, and append rejects.
Break(w) ==
  /\ Fault
  /\ pc[w] \in Working
  /\ Goto(w, "failed")
  /\ UNCHANGED <<host, table, head, attempt, lostTo>>

\* The process dies.  What is queued in it dies as well.
Crash(p) ==
  /\ Fault
  /\ \E w \in Writer : host[w] = p /\ pc[w] \in Working
  /\ pc' = [w \in Writer |-> IF host[w] = p /\ pc[w] \in Working THEN "failed" ELSE pc[w]]
  /\ UNCHANGED <<host, table, head, attempt, lostTo>>

Work(w) ==
  Start(w) \/ ReadHead(w) \/ ReadBack(w) \/ WriteGenesis(w) \/ WriteRecord(w) \/ Return(w)

Next ==
  \/ \E w \in Writer : Work(w) \/ Break(w)
  \/ \E p \in Process : Crash(p)

Spec == Init /\ [][Next]_vars

\* node resumes a call whose query was answered, and the promise chain of the
\* KeyedMutex resumes whoever is next.
FairSpec == Spec /\ \A w \in Writer : WF_vars(Work(w))

-----------------------------------------------------------------------------
\* The chain as verify walks it in the order of seq: no place missing, none
\* taken twice, every hash computed from the hash before it.  It holds at
\* every moment, whoever wins: processes that both find the chain empty and
\* write its genesis record included.
ChainIntact ==
  \A m \in Merchant : \A r \in RowsOf(m) :
    /\ r.hash = hashRecord(r.prevHash, r.content)
    /\ r.seq = 0 => r.prevHash = GENESIS_HASH
    /\ \A k \in 0..r.seq : \E q \in RowsOf(m) : q.seq = k
    /\ \A q \in RowsOf(m) :
         /\ q.seq = r.seq => q = r
         /\ q.seq + 1 = r.seq => r.prevHash = q.hash

\* A call loses its place only to an insert of another process, and to a new
\* one every time, so it gives up only after APPEND_RETRIES records of others
\* went in: a merchant with one process never sees an AuditIntegrityError.
LosesToOthers ==
  \A w \in Writer :
    /\ attempt[w] <= Cardinality(lostTo[w])
    /\ \A r \in lostTo[w] : \E v \in Writer :
         /\ r.content \in {v, "GENESIS"}
         /\ host[v] # host[w] /\ MerchantOf[v] = MerchantOf[w] /\ pc[v] # "idle"

\* The log of a merchant: its records in the order of seq, behind the
\* genesis record.
LogOf(m) ==
  LET r == CHOOSE r \in Heads(m) : TRUE
  IN IF RowsOf(m) = {} THEN << >> ELSE Tail(r.hash)

CallOf(w) ==
  IF pc[w] \in {"head", "genesis", "reread", "write"} THEN "pending"
  ELSE IF pc[w] = "written" THEN "appended"
  ELSE pc[w]

Log == INSTANCE AuditLog WITH
  log <- [m \in Merchant |-> LogOf(m)],
  call <- [w \in Writer |-> CallOf(w)]

\* The chain implements the log: retries never write an entry twice, records
\* keep the order in which they were acknowledged, and an acknowledged record
\* is there.
ImplementsLog == Log!Spec

\* Every append comes to an end, the ones that queue behind a failed one too.
Settles == \A w \in Writer : pc[w] \in {"idle", "head"} ~> pc[w] \in {"done", "failed"}
=============================================================================
